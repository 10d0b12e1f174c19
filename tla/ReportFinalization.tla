------------------------- MODULE ReportFinalization -------------------------
(***************************************************************************)
(* The reports of the runs that have ended: the run_finalizations and      *)
(* report_exports tables, the files under the run root, the executor that  *)
(* builds the mandatory HTML and ZIP of a run, one attempt after another   *)
(* (report-finalization-executor.ts), the queue of optional exports        *)
(* (export-service.ts), and what startup does about attempts that a crash  *)
(* cut short (report-finalization-recovery-service.ts).                    *)
(*                                                                         *)
(* An export is named <<run, format, attempt>>, which stands for its id    *)
(* and for its path.  Partial files are left out: a final path only ever   *)
(* appears by the rename of a closed file.  Everything from the request to *)
(* the lease runs without an await, so only a crash divides it.            *)
(***************************************************************************)
EXTENDS Naturals, FiniteSets, SequencesExt

CONSTANTS
  Run,         \* runs
  Outcome,     \* states that complete is asked to end a run in
  Optional,    \* optional formats: PDF and others
  MaxAttempt,  \* bound: attempts at the mandatory formats of one run
  MaxOptional  \* bound: exports of each optional format of one run

Ended     == {"FINISHED", "FAILED", "INTERRUPTED"}
Mandatory == {"HTML", "ZIP"}

ASSUME ReportAssumption ==
  /\ Outcome \subseteq Ended
  /\ Optional \cap Mandatory = {}
  /\ MaxAttempt \in Nat
  /\ MaxOptional \in [Optional -> Nat]

Extra  == UNION {Run \X {f} \X (1..MaxOptional[f]) : f \in Optional}
Export == (Run \X Mandatory \X (1..MaxAttempt)) \cup Extra

VARIABLES
  up,        \* the server is running
  run,       \* test_runs.state, "OPEN" for RUNNING and PAUSED
  fin,       \* run_finalizations: state and attempt, "NONE" for no row
  row,       \* report_exports.state
  file,      \* final paths that exist
  job,       \* the execution of a run: where it awaits, and for which format
  queue,     \* optional exports waiting for a slot
  active     \* optional exports being processed

tables == <<run, fin, row>>
memory == <<job, queue, active>>
vars   == <<up, tables, file, memory>>

Retried  == {"FINALIZATION_FAILED", "INTERRUPTED"}
FinState == Retried \cup {"NONE", "FINALIZING", "COMPLETED"}
Phase    == {"idle", "open", "write", "renamed", "complete"}
Idle     == [phase |-> "idle", format |-> "HTML"]

(* Startup and the publishers never call markMissing.                      *)
ReportTypeOK ==
  /\ up \in BOOLEAN
  /\ run \in [Run -> Ended \cup {"OPEN"}]
  /\ fin \in [Run -> [state : FinState, attempt : 0..MaxAttempt]]
  /\ row \in [Export -> {"NONE", "PENDING", "READY", "FAILED"}]
  /\ file \subseteq Export
  /\ job \in [Run -> [phase : Phase, format : Mandatory]]

Init ==
  /\ up = TRUE
  /\ run = [r \in Run |-> "OPEN"]
  /\ fin = [r \in Run |-> [state |-> "NONE", attempt |-> 0]]
  /\ row = [x \in Export |-> "NONE"]
  /\ file = {}
  /\ job = [r \in Run |-> Idle]
  /\ queue = <<>>
  /\ active = [x \in Extra |-> "none"]
-----------------------------------------------------------------------------
\* Mutant: retries under the attempt number of the failure.
SameAttempt(r) == IF fin[r].attempt = 0 THEN 1 ELSE fin[r].attempt

NextAttempt(r) == fin[r].attempt + 1

(* exports.create: a row that is there already is left as it is.           *)
Created(r, formats) ==
  [x \in Export |->
     IF x[1] = r /\ x[2] \in formats /\ x[3] = NextAttempt(r) /\ row[x] = "NONE"
     THEN "PENDING" ELSE row[x]]

(* An execution creates its rows, then acquire takes the lease unless the  *)
(* report of the run is under way or complete.                             *)
Execute(r) ==
  /\ NextAttempt(r) <= MaxAttempt
  /\ row' = Created(r, Mandatory)
  /\ IF fin[r].state \notin {"FINALIZING", "COMPLETED"}
     THEN /\ fin' = [fin EXCEPT ![r] = [state |-> "FINALIZING", attempt |-> NextAttempt(r)]]
          /\ job' = [job EXCEPT ![r] = [phase |-> "open", format |-> "HTML"]]
     ELSE UNCHANGED <<fin, job>>

(* complete ends a run and starts its first report.  A snapshot, page or   *)
(* manifest that cannot be built leaves no trace: the error is dropped.    *)
Complete(r, state) ==
  /\ up
  /\ run[r] = "OPEN"
  /\ run' = [run EXCEPT ![r] = state]
  /\ Execute(r) \/ UNCHANGED <<fin, row, job>>
  /\ UNCHANGED <<up, file, queue, active>>

\* Mutant: the route lets a report that is complete be built again.
AnyRetryable(r) == run[r] \in Ended /\ fin[r].state \in Retried \cup {"COMPLETED"}

Retryable(r) == run[r] \in Ended /\ fin[r].state \in Retried

(* The retry route, under an idempotency key not seen before: a known key  *)
(* answers with the execution it started, and changes nothing.             *)
Retry(r) ==
  /\ up
  /\ Retryable(r)
  /\ Execute(r)
  /\ UNCHANGED <<up, run, file, queue, active>>
-----------------------------------------------------------------------------
\* Mutant: an attempt that failed keeps its lease.
KeepLease(r, state) ==
  /\ job' = [job EXCEPT ![r] = Idle]
  /\ fin' = IF state = "COMPLETED" THEN [fin EXCEPT ![r].state = state] ELSE fin

(* markCompleted, markFailed: they move only the lease they were given.    *)
Close(r, state) ==
  /\ job' = [job EXCEPT ![r] = Idle]
  /\ fin' = IF fin[r].state = "FINALIZING" THEN [fin EXCEPT ![r].state = state] ELSE fin

\* Mutant: calls a publication that failed a missing file.
MarkRowMissing(x, state) ==
  row' = [row EXCEPT ![x] = IF state = "READY" THEN state ELSE "MISSING"]

(* The row transitions refuse a row that is not PENDING.                   *)
MarkRow(x, state) == row' = [row EXCEPT ![x] = IF @ = "PENDING" THEN state ELSE @]

GoTo(r, phase, format) == job' = [job EXCEPT ![r] = [phase |-> phase, format |-> format]]
Current(r) == <<r, job[r].format, fin[r].attempt>>

(* publish refuses a row that is not PENDING, and leaves it as it is; the  *)
(* publisher refuses a path that is taken.                                 *)
Open(r) ==
  /\ job[r].phase = "open"
  /\ IF row[Current(r)] = "PENDING" /\ Current(r) \notin file
     THEN GoTo(r, "write", job[r].format) /\ UNCHANGED <<row, fin>>
     ELSE Close(r, "FINALIZATION_FAILED") /\ MarkRow(Current(r), "FAILED")
  /\ UNCHANGED <<up, run, file, queue, active>>

(* The file is written, closed, hashed and renamed.                        *)
Rename(r) ==
  /\ job[r].phase = "write"
  /\ file' = file \cup {Current(r)}
  /\ GoTo(r, "renamed", job[r].format)
  /\ UNCHANGED <<up, tables, queue, active>>

PublishFails(r) ==
  /\ job[r].phase = "write"
  /\ MarkRow(Current(r), "FAILED")
  /\ Close(r, "FINALIZATION_FAILED")
  /\ UNCHANGED <<up, run, file, queue, active>>

\* Mutant: an archive that failed verification is reported all the same.
VerifyIgnored(r) ==
  /\ job[r].phase = "renamed"
  /\ job[r].format = "ZIP"
  /\ file' \in {file, file \ {Current(r)}}
  /\ MarkRow(Current(r), "FAILED")
  /\ GoTo(r, "complete", "ZIP")
  /\ UNCHANGED <<up, run, fin, queue, active>>

(* The archive is read back; one that fails is removed, if it can be.      *)
VerifyFails(r) ==
  /\ job[r].phase = "renamed"
  /\ job[r].format = "ZIP"
  /\ file' \in {file, file \ {Current(r)}}
  /\ MarkRow(Current(r), "FAILED")
  /\ Close(r, "FINALIZATION_FAILED")
  /\ UNCHANGED <<up, run, queue, active>>

(* markReady: on to the archive, or to markCompleted.                      *)
MarkReady(r) ==
  /\ job[r].phase = "renamed"
  /\ MarkRow(Current(r), "READY")
  /\ IF job[r].format = "HTML" THEN GoTo(r, "open", "ZIP") ELSE GoTo(r, "complete", "ZIP")
  /\ UNCHANGED <<up, run, fin, file, queue, active>>

MarkCompleted(r) ==
  /\ job[r].phase = "complete"
  /\ Close(r, "COMPLETED")
  /\ UNCHANGED <<up, run, row, file, queue, active>>

Publish(r) ==
  Open(r) \/ Rename(r) \/ PublishFails(r) \/ VerifyFails(r) \/ MarkReady(r) \/ MarkCompleted(r)
-----------------------------------------------------------------------------
(* One PDF at a time, and two of all other optional formats.               *)
SameSlot(f, g) == (f = "PDF") <=> (g = "PDF")
Slots(f) == IF f = "PDF" THEN 1 ELSE 2

\* Mutant: what ends does not wake the loop.
DrainOnRequest(q, act) ==
  /\ queue' = (IF \E x \in Extra : active[x] # "none" THEN q ELSE <<>>)
  /\ active' = [x \in Extra |-> IF queue' = <<>> /\ x \in ToSet(q) THEN "write" ELSE act[x]]

(* The loop of drain: it starts what it can, in the order of the queue.    *)
Drain(q, act) ==
  LET busy(f) == Cardinality({x \in Extra : act[x] # "none" /\ SameSlot(x[2], f)})
      ahead(i) == Cardinality({j \in 1..(i - 1) : SameSlot(q[j][2], q[i][2])})
      started == {q[i] : i \in {j \in 1..Len(q) : busy(q[j][2]) + ahead(j) < Slots(q[j][2])}}
  IN  /\ queue' = SelectSeq(q, LAMBDA x : x \notin started)
      /\ active' = [x \in Extra |-> IF x \in started THEN "write" ELSE act[x]]

Exported(r, f) == {n \in 1..MaxOptional[f] : row[<<r, f, n>>] # "NONE"}

(* A request creates a row per format and queues it; the loop looks at the *)
(* queue at once only if nothing is being processed.                       *)
RequestExports(r, formats) ==
  LET asked == {<<r, f, Max(Exported(r, f) \cup {0}) + 1>> : f \in formats}
      longer == queue \o SetToSeq(asked)
  IN  /\ up
      /\ run[r] \in Ended
      /\ formats # {}
      /\ asked \subseteq Extra
      /\ row' = [x \in Export |-> IF x \in asked THEN "PENDING" ELSE row[x]]
      /\ IF \A x \in Extra : active[x] = "none"
         THEN Drain(longer, active)
         ELSE queue' = longer /\ UNCHANGED active
      /\ UNCHANGED <<up, run, fin, file, job>>

RenameExport(x) ==
  /\ active[x] = "write"
  /\ active' = [active EXCEPT ![x] = "renamed"]
  /\ file' = file \cup {x}
  /\ UNCHANGED <<up, tables, job, queue>>

(* process ends in markReady or, after any error, in markFailed, and gives *)
(* its slot to the queue.                                                  *)
EndExport(x, state) ==
  /\ active[x] = (IF state = "READY" THEN "renamed" ELSE "write")
  /\ MarkRow(x, state)
  /\ Drain(queue, [active EXCEPT ![x] = "none"])
  /\ UNCHANGED <<up, run, fin, file, job>>

ProcessExport(x) == RenameExport(x) \/ EndExport(x, "READY") \/ EndExport(x, "FAILED")
-----------------------------------------------------------------------------
Forget ==
  /\ up
  /\ up' = FALSE
  /\ job' = [r \in Run |-> Idle]
  /\ queue' = <<>>
  /\ active' = [x \in Extra |-> "none"]
  /\ UNCHANGED <<fin, file>>

(* The process dies.                                                       *)
Crash == Forget /\ UNCHANGED <<run, row>>

(* It dies between two transactions of complete, or of a retry.            *)
CrashStarting(r) ==
  /\ \/ run[r] = "OPEN" /\ \E state \in Outcome : run' = [run EXCEPT ![r] = state]
     \/ Retryable(r) /\ UNCHANGED run
  /\ row' \in {row, Created(r, {"HTML"}), Created(r, Mandatory)}
  /\ Forget

(* Startup: the leases that are more than five minutes old by then.        *)
Restart(stale) ==
  /\ ~up
  /\ \A r \in stale : fin[r].state = "FINALIZING"
  /\ up' = TRUE
  /\ fin' = [r \in Run |-> IF r \in stale THEN [fin[r] EXCEPT !.state = "INTERRUPTED"] ELSE fin[r]]
  /\ run' = [r \in Run |->
               IF r \in stale /\ run[r] \in {"FINISHED", "FAILED"} THEN "INTERRUPTED" ELSE run[r]]
  /\ row' = [x \in Export |-> IF x[1] \in stale /\ row[x] = "PENDING" THEN "FAILED" ELSE row[x]]
  /\ UNCHANGED <<file, memory>>
-----------------------------------------------------------------------------
Next ==
  \/ \E r \in Run : \/ \E state \in Outcome : Complete(r, state)
                    \/ \E formats \in SUBSET Optional : RequestExports(r, formats)
                    \/ Retry(r)
                    \/ Publish(r)
                    \/ CrashStarting(r)
  \/ \E x \in Extra : ProcessExport(x)
  \/ Crash
  \/ \E stale \in SUBSET Run : Restart(stale)

(* A step of a publication, once begun, ends in one way or the other.      *)
Fairness ==
  /\ \A r \in Run : WF_vars(Publish(r))
  /\ \A x \in Extra : WF_vars(ProcessExport(x))

Spec == Init /\ [][Next]_vars /\ Fairness
-----------------------------------------------------------------------------
(* A run counts as COMPLETED only while the page and the archive of the    *)
(* attempt that completed it are READY and on disk, whatever crashed or    *)
(* failed verification before (report-finalization-service.ts, finalize).  *)
CompletedHasOutputs ==
  \A r \in Run : fin[r].state = "COMPLETED" =>
    \A f \in Mandatory :
      LET x == <<r, f, fin[r].attempt>> IN row[x] = "READY" /\ x \in file

Attempted(r, f) == {n \in 1..MaxAttempt : row[<<r, f, n>>] # "NONE"}

(* What the export route opens of a complete run is its complete report:   *)
(* no row of a later attempt, begun and given up, hides it                 *)
(* (routes/results.ts takes the newest attempt at the format).             *)
CompletedIsNewest ==
  \A r \in Run : fin[r].state = "COMPLETED" =>
    \A f \in Mandatory : Max(Attempted(r, f)) = fin[r].attempt

(* A run reported COMPLETED has a report, and it is the report one gets.   *)
CompletedIsTheReport == ReportTypeOK /\ CompletedHasOutputs /\ CompletedIsNewest

(* An attempt that has the lease never meets a row that is terminal or a   *)
(* path that is taken, left over by an attempt before it: the ids and      *)
(* paths derived from the attempt number are new, or were created by an    *)
(* execution that crashed before it took the lease                         *)
(* (report-finalization-executor.ts, execute).                             *)
AttemptIsFresh ==
  \A r \in Run : job[r].phase = "open" =>
    row[Current(r)] = "PENDING" /\ Current(r) \notin file

(* Every attempt comes to an end and gives up its lease, unless the server *)
(* goes down (report-finalization-service.ts, finalize).                   *)
FinalizationSettles ==
  \A r \in Run :
    job[r].phase # "idle" ~> (~up \/ (job[r].phase = "idle" /\ fin[r].state # "FINALIZING"))

(* Every optional export queued is READY or FAILED in the end, unless the  *)
(* server goes down (what it had queued then stays PENDING): no format     *)
(* starves another of slots, and the loop never sleeps over a full queue   *)
(* (export-service.ts, drain).                                             *)
ExportsSettle ==
  \A x \in Extra :
    (x \in ToSet(queue) \/ active[x] # "none") ~> (~up \/ row[x] \in {"READY", "FAILED"})

(* Startup leaves no row PENDING of a run whose report has an outcome:     *)
(* nothing will ever move it (report-finalization-recovery-service.ts,     *)
(* reconcileStale).                                                        *)
(* The code breaks it: README, Disagreements without a run.                *)
StartupSettlesRows ==
  [][~up /\ up' => \A x \in Export :
       fin'[x[1]].state \in {"COMPLETED", "FINALIZATION_FAILED"} => row'[x] # "PENDING"]_vars
=============================================================================
