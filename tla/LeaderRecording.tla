-------------------------- MODULE LeaderRecording --------------------------
(***************************************************************************)
(* The recording of a run's leader: the calls the run's handlers make      *)
(* (session-runtime.ts), the one recorder they share                       *)
(* (leader-video-recorder.ts), its scrcpy process                          *)
(* (scrcpy-primary-process.ts), and the evidence record and file that come *)
(* out of it (evidence-repository.ts, evidence-publication-service.ts,     *)
(* atomic-publisher.ts).                                                   *)
(*                                                                         *)
(* A handler awaits the file system and the process at every step, and     *)
(* other handlers run in between.  A clip is known by the number of its    *)
(* take; what the device shows is left out.  evidence, digest and owner    *)
(* are rows of evidence_records, clip and published files, and both        *)
(* survive a crash; a scrcpy process survives the server too.              *)
(***************************************************************************)
EXTENDS Naturals

CONSTANTS
  Session,     \* runs that record their leader
  Leader,      \* devices that may lead
  Handler,     \* handlers that may be under way at once
  MaxOpens,    \* bound: handlers that start a run, of all the runs
  MaxStops     \* bound: times the server is killed

ASSUME LeaderRecordingAssumption ==
  /\ "none" \notin Session
  /\ {MaxOpens, MaxStops} \subseteq Nat

VARIABLES
  state,      \* test_runs.state
  served,     \* whether the worker coordinator has an entry for the run
  leader,     \* the run's leader
  active,     \* the recorder's active recording: its run, or "none"
  takes,      \* scrcpy processes started so far
  filming,    \* the takes whose process is alive
  clip,       \* the take in leader.mp4.partial, 0 for no file
  published,  \* the take in leader.mp4, 0 for no file
  evidence,   \* evidence_records.state, "none" for no row
  owner,      \* evidence_records.serial
  digest,     \* the take whose hash the row holds
  handler,    \* the handlers under way
  stops,      \* times the server was killed
  opens,      \* handlers that started a run so far
  collided    \* history: the runs whose recording met another run's

record        == <<evidence, owner, digest>>
recordingVars == <<state, served, leader, active, takes, filming, clip, published, record,
                   handler, stops, opens, collided>>

Free == [op |-> "none", pc |-> "free", run |-> "none", from |-> "none", lead |-> "none",
         copy |-> 0]

RecordingInit ==
  /\ state = [r \in Session |-> "PREFLIGHT"]
  /\ served = [r \in Session |-> FALSE]
  /\ leader \in [Session -> Leader]
  /\ active = "none"
  /\ takes = [r \in Session |-> 0]
  /\ filming = [r \in Session |-> {}]
  /\ clip = [r \in Session |-> 0]
  /\ published = [r \in Session |-> 0]
  /\ evidence = [r \in Session |-> "none"]
  /\ owner = [r \in Session |-> "none"]
  /\ digest = [r \in Session |-> 0]
  /\ handler = [h \in Handler |-> Free]
  /\ stops = 0
  /\ opens = 0
  /\ collided = {}
-----------------------------------------------------------------------------
Run(h) == handler[h].run
In(h, pc) == handler[h].pc = pc
Goto(h, pc) == handler' = [handler EXCEPT ![h].pc = pc]
Free1(h) == handler' = [handler EXCEPT ![h] = Free]

\* The run and the one whose recording is active, where that is another.
Collision(r) == IF active \in {"none", r} THEN {} ELSE {r, active}

(* start, resume, rejoinDevice and promoteLeader: the coordinator refuses a *)
(* run it serves already; a promotion records the new leader.               *)
Open(h) ==
  /\ In(h, "free")
  /\ opens < MaxOpens
  /\ opens' = opens + 1
  /\ \E r \in Session, s \in Leader :
       /\ state[r] \in {"PREFLIGHT", "PAUSED"}
       /\ state[r] = "PREFLIGHT" => s = leader[r]
       /\ ~ served[r]
       /\ served' = [served EXCEPT ![r] = TRUE]
       /\ handler' = [handler EXCEPT ![h] = [op |-> "open", pc |-> "begin", run |-> r,
                                             from |-> state[r], lead |-> s, copy |-> 0]]
  /\ UNCHANGED <<state, leader, active, takes, filming, clip, published, record, stops, collided>>

\* LeaderVideoRecorder.start: one recording at a time, checked before mkdir.
BeginRecording(h) ==
  /\ In(h, "begin")
  /\ Goto(h, IF active = "none" THEN "mkdir" ELSE "commit")
  /\ collided' = collided \cup Collision(Run(h))
  /\ UNCHANGED <<state, served, leader, active, takes, filming, clip, published, record, stops, opens>>

\* EvidenceRepository.create: the row of this id must be the same recording;
\* a row with a published path, or of another leader, is not.
SameRecording(h) ==
  LET r == Run(h)
  IN  evidence[r] # "none" => owner[r] = handler[h].lead /\ digest[r] = 0

\* After mkdir: the row, and the process.  A refused row ends start, and the
\* run goes on unrecorded.
Spawn(h) ==
  LET r == Run(h)
  IN  /\ In(h, "mkdir")
      /\ IF SameRecording(h)
         THEN /\ evidence' = [evidence EXCEPT ![r] = IF @ = "none" THEN "PENDING" ELSE @]
              /\ owner' = [owner EXCEPT ![r] = handler[h].lead]
              /\ takes' = [takes EXCEPT ![r] = @ + 1]
              /\ Goto(h, "spawned")
         ELSE /\ Goto(h, "commit")
              /\ UNCHANGED <<evidence, owner, takes>>
      /\ UNCHANGED <<state, served, leader, active, filming, clip, published, digest, stops, opens, collided>>

\* The process runs and writes the clip; start makes it the active recording.
Spawned(h) ==
  LET r == Run(h)
  IN  /\ In(h, "spawned")
      /\ active' = r
      /\ collided' = collided \cup Collision(r)
      /\ filming' = [filming EXCEPT ![r] = @ \cup {takes[r]}]
      /\ clip' = [clip EXCEPT ![r] = takes[r]]
      /\ Goto(h, "commit")
      /\ UNCHANGED <<state, served, leader, takes, published, record, stops, opens>>

\* Mutant: a settled row is marked over.
FailedOver(r) == [evidence EXCEPT ![r] = "FAILED"]

\* markFailed and markReady change a PENDING row only, and throw otherwise.
Failed(r) == [evidence EXCEPT ![r] = IF @ = "PENDING" THEN "FAILED" ELSE @]

SpawnFails(h) ==
  LET r == Run(h)
  IN  /\ In(h, "spawned")
      /\ evidence' = Failed(r)
      /\ clip' = [clip EXCEPT ![r] = IF evidence[r] = "PENDING" THEN 0 ELSE @]
      /\ Goto(h, "commit")
      /\ UNCHANGED <<state, served, leader, active, takes, filming, published, owner, digest, stops, opens, collided>>

\* The transaction of the handler: it holds if the run is as it was read.
CommitOpen(h) ==
  LET r == Run(h)
  IN  /\ In(h, "commit")
      /\ IF state[r] = handler[h].from
         THEN /\ state' = [state EXCEPT ![r] = "RUNNING"]
              /\ leader' = [leader EXCEPT ![r] = handler[h].lead]
              /\ Free1(h)
         ELSE /\ handler' = [handler EXCEPT ![h].pc = "stop", ![h].op = "unwind"]
              /\ UNCHANGED <<state, leader>>
      /\ UNCHANGED <<served, active, takes, filming, clip, published, record, stops, opens, collided>>

\* pause and complete: the workers are stopped first, then the recorder.
CloseRun(h) ==
  /\ In(h, "free")
  /\ \E r \in Session, op \in {"pause", "complete"} :
       /\ state[r] \in IF op = "pause" THEN {"RUNNING"} ELSE {"RUNNING", "PAUSED"}
       /\ served' = [served EXCEPT ![r] = FALSE]
       /\ handler' = [handler EXCEPT ![h] = [op |-> op, pc |-> "stop", run |-> r,
                                             from |-> state[r], lead |-> leader[r],
                                             copy |-> 0]]
  /\ UNCHANGED <<state, leader, active, takes, filming, clip, published, record, stops, opens, collided>>

\* Mutant: the recorder is not stopped by a handler that closes the run.
StopRecordingForgotten(h) ==
  /\ In(h, "stop")
  /\ Goto(h, "closing")
  /\ UNCHANGED <<state, served, leader, active, takes, filming, clip, published, record, stops, opens, collided>>

\* LeaderVideoRecorder.stop takes the active recording if it is this run's.
StopRecording(h) ==
  /\ In(h, "stop")
  /\ IF active = Run(h)
     THEN active' = "none" /\ Goto(h, "exiting")
     ELSE Goto(h, "closing") /\ UNCHANGED active
  /\ UNCHANGED <<state, served, leader, takes, filming, clip, published, record, stops, opens, collided>>

\* The process exits, or three seconds pass and stop goes on all the same.
ProcessStops(h) ==
  /\ In(h, "exiting")
  /\ \/ filming' = [filming EXCEPT ![Run(h)] = @ \ {takes[Run(h)]}]
     \/ UNCHANGED filming
  /\ Goto(h, "stat")
  /\ UNCHANGED <<state, served, leader, active, takes, clip, published, record, stops, opens, collided>>

\* A process that was told to exit, or lost its device, does so in the end.
ProcessExits ==
  /\ \E r \in Session : \E t \in filming[r] : filming' = [filming EXCEPT ![r] = @ \ {t}]
  /\ UNCHANGED <<state, served, leader, active, takes, clip, published, record, handler, stops, opens, collided>>

\* stop's catch: whatever went wrong, a PENDING row becomes FAILED and the
\* clip is removed.
GiveUp(h) ==
  /\ evidence' = Failed(Run(h))
  /\ clip' = [clip EXCEPT ![Run(h)] = 0]
  /\ handler' = [handler EXCEPT ![h].pc = "closing", ![h].copy = 0]

\* The clip must be there, and the row still PENDING (publish, its first lines).
CheckClip(h) ==
  LET r == Run(h)
  IN  /\ In(h, "stat")
      /\ IF clip[r] # 0 /\ evidence[r] = "PENDING"
         THEN Goto(h, "available") /\ UNCHANGED <<evidence, clip>>
         ELSE GiveUp(h)
      /\ UNCHANGED <<state, served, leader, active, takes, filming, published, owner, digest, stops, opens, collided>>

\* assertFinalPathAvailable, and the clip is opened to be copied.
CheckAvailable(h) ==
  /\ In(h, "available")
  /\ IF published[Run(h)] = 0 /\ clip[Run(h)] # 0
     THEN /\ handler' = [handler EXCEPT ![h].pc = "copying", ![h].copy = clip[Run(h)]]
          /\ UNCHANGED <<evidence, clip>>
     ELSE GiveUp(h)
  /\ UNCHANGED <<state, served, leader, active, takes, filming, published, owner, digest, stops, opens, collided>>

Ready(r) == [evidence EXCEPT ![r] = IF @ = "PENDING" THEN "READY" ELSE @]

(* The copy is synced, hashed and renamed over the final path, and the row *)
(* marked READY in the same turn; a process that did not exit keeps the    *)
(* clip from being removed.                                                *)
Publish(h) ==
  LET r == Run(h)
  IN  /\ In(h, "copying")
      /\ published' = [published EXCEPT ![r] = handler[h].copy]
      /\ evidence' = Ready(r)
      /\ digest' = [digest EXCEPT ![r] = IF evidence[r] = "PENDING" THEN handler[h].copy ELSE @]
      /\ \E left \in {0} \cup (IF filming[r] = {} THEN {} ELSE {clip[r]}) :
           clip' = [clip EXCEPT ![r] = left]
      /\ handler' = [handler EXCEPT ![h].pc = "closing", ![h].copy = 0]
      /\ UNCHANGED <<state, served, leader, active, takes, filming, owner, stops, opens, collided>>

\* The copy cannot be written.
PublishFails(h) ==
  /\ In(h, "copying")
  /\ GiveUp(h)
  /\ UNCHANGED <<state, served, leader, active, takes, filming, published, owner, digest, stops, opens, collided>>

\* The transaction of pause and complete; a handler that unwound just throws.
CommitClose(h) ==
  LET r == Run(h)
  IN  /\ In(h, "closing")
      /\ state' = IF handler[h].op # "unwind" /\ state[r] = handler[h].from
                  THEN [state EXCEPT ![r] = IF handler[h].op = "pause" THEN "PAUSED" ELSE "FINISHED"]
                  ELSE state
      /\ served' = [served EXCEPT ![r] = IF handler[h].op = "unwind" THEN FALSE ELSE @]
      /\ Free1(h)
      /\ UNCHANGED <<leader, active, takes, filming, clip, published, record, stops, opens, collided>>

(* The server is killed and launched again: the recorder is new, and no    *)
(* row, file or process of an earlier recording is looked for.             *)
Relaunch ==
  /\ stops < MaxStops
  /\ stops' = stops + 1
  /\ served' = [r \in Session |-> FALSE]
  /\ active' = "none"
  /\ handler' = [h \in Handler |-> Free]
  /\ UNCHANGED <<state, leader, takes, filming, clip, published, record, opens, collided>>

RecordingNext ==
  \/ \E h \in Handler :
       \/ Open(h) \/ BeginRecording(h) \/ Spawn(h) \/ Spawned(h) \/ SpawnFails(h) \/ CommitOpen(h)
       \/ CloseRun(h) \/ StopRecording(h) \/ ProcessStops(h) \/ CheckClip(h) \/ CheckAvailable(h)
       \/ Publish(h) \/ PublishFails(h) \/ CommitClose(h)
  \/ ProcessExits
  \/ Relaunch

RecordingSpec == RecordingInit /\ [][RecordingNext]_recordingVars
-----------------------------------------------------------------------------
RecordingTypeOK ==
  /\ state \in [Session -> {"PREFLIGHT", "RUNNING", "PAUSED", "FINISHED"}]
  /\ served \in [Session -> BOOLEAN]
  /\ leader \in [Session -> Leader]
  /\ active \in Session \cup {"none"}
  /\ takes \in [Session -> Nat]
  /\ \A r \in Session : /\ filming[r] \subseteq 1..takes[r]
                         /\ {clip[r], published[r], digest[r]} \subseteq 0..takes[r]
  /\ evidence \in [Session -> {"none", "PENDING", "READY", "FAILED"}]
  /\ owner \in [Session -> Leader \cup {"none"}]
  /\ stops \in 0..MaxStops
  /\ opens \in 0..MaxOpens
  /\ collided \subseteq Session

(* A finished run that no handler is closing any more has settled its      *)
(* recording, READY or FAILED, unless the server was killed meanwhile or   *)
(* another run's recording met it at the recorder they share: no order of  *)
(* overlapping handlers lets the last one pass the recorder by.            *)
SettledAtTheEnd ==
  \A r \in Session \ collided :
    state[r] = "FINISHED" /\ stops = 0 /\ (\A h \in Handler : handler[h].run # r)
      => evidence[r] # "PENDING"

(* So for every finished run, whatever else was recorded.                  *)
(* The code breaks it: README, Disagreements without a run.                *)
EachIsSettled ==
  \A r \in Session :
    state[r] = "FINISHED" /\ stops = 0 /\ (\A h \in Handler : handler[h].run # r)
      => evidence[r] # "PENDING"

(* What a report may already have read is never taken back: a row that is  *)
(* READY or FAILED stays so with its hash, whichever handler reuses the    *)
(* row, publishes late or fails to start, before a crash or after.         *)
EvidenceIsFinal ==
  [][\A r \in Session : evidence[r] \in {"READY", "FAILED"}
       => evidence'[r] = evidence[r] /\ digest'[r] = digest[r]]_recordingVars

(* The recorder "owns the optional leader-only scrcpy recording for one    *)
(* active session" (leader-video-recorder.ts): a process that films is the *)
(* active one's, or a handler is starting or stopping it.                  *)
(* The code breaks it: README, Disagreements without a run.                *)
NobodyFilmsUnowned ==
  \A r \in Session : filming[r] # {} /\ stops = 0 =>
    active = r \/ \E h \in Handler : handler[h].run = r

(* A READY row's hash is that of the file at the path it names.            *)
(* The code breaks it: README, Disagreements without a run.                *)
ReadyDigestMatches ==
  \A r \in Session : evidence[r] = "READY" => digest[r] = published[r]
=============================================================================
