---------------------- MODULE ReportFinalizationProofs ----------------------
(***************************************************************************)
(* What a report that counts as COMPLETED is worth, for any runs, formats  *)
(* and number of attempts, and any crashes between them.                   *)
(***************************************************************************)
EXTENDS ReportFinalization, TLAPS

Page(r)    == <<r, "HTML", fin[r].attempt>>
Archive(r) == <<r, "ZIP", fin[r].attempt>>

(* A run that has not ended has no report.                                 *)
NoReportYet(r) == run[r] = "OPEN" => fin[r].state = "NONE"

(* Of attempts to come there are no files, and no rows but those of an     *)
(* execution that crashed before it took the lease.                        *)
NothingAhead(r) ==
  \A f \in Mandatory, n \in 1..MaxAttempt : n > fin[r].attempt =>
    /\ <<r, f, n>> \notin file
    /\ row[<<r, f, n>>] \in {"NONE", "PENDING"}
    /\ (n > fin[r].attempt + 1 \/ fin[r].state \in {"FINALIZING", "COMPLETED"})
         => row[<<r, f, n>>] = "NONE"

(* Where an execution awaits tells what it has published.                  *)
Published(r) ==
  job[r].phase # "idle" =>
    /\ up = TRUE
    /\ fin[r].state = "FINALIZING"
    /\ fin[r].attempt \in 1..MaxAttempt
    /\ job[r].format = "HTML" =>
         /\ job[r].phase # "complete"
         /\ row[Page(r)] = "PENDING"
         /\ Page(r) \in file <=> job[r].phase = "renamed"
         /\ row[Archive(r)] = "PENDING"
         /\ Archive(r) \notin file
    /\ job[r].format = "ZIP" =>
         /\ row[Page(r)] = "READY"
         /\ Page(r) \in file
         /\ row[Archive(r)] = (IF job[r].phase = "complete" THEN "READY" ELSE "PENDING")
         /\ Archive(r) \in file <=> job[r].phase \in {"renamed", "complete"}

Outputs(r) ==
  fin[r].state = "COMPLETED" =>
    /\ fin[r].attempt \in 1..MaxAttempt
    /\ \A f \in Mandatory :
         row[<<r, f, fin[r].attempt>>] = "READY" /\ <<r, f, fin[r].attempt>> \in file

Sound(r) == NoReportYet(r) /\ NothingAhead(r) /\ Published(r) /\ Outputs(r)

Inv == ReportTypeOK /\ \A r \in Run : Sound(r)
-----------------------------------------------------------------------------
(* Exports of the mandatory formats are exports, and no others.            *)
LEMMA MandatoryExports ==
  /\ \A r \in Run, f \in Mandatory, n \in 1..MaxAttempt :
       <<r, f, n>> \in Export /\ <<r, f, n>> \notin Extra
  /\ \A x \in Extra : x \in Export /\ x[2] \notin Mandatory
<1>1. \A x \in Extra : x[2] \in Optional
  BY DEF Extra
<1>2. \A r \in Run, f \in Mandatory, n \in 1..MaxAttempt : <<r, f, n>> \in Export
  BY DEF Export
<1>3. \A x \in Extra : x \in Export
  BY DEF Export
<1> QED
  BY <1>1, <1>2, <1>3, ReportAssumption

(* A run whose rows, files and execution a step leaves alone stays sound.  *)
LEMMA Untouched ==
  ASSUME NEW r \in Run, Sound(r),
         run'[r] = run[r], fin'[r] = fin[r], job'[r] = job[r], up' = up,
         \A f \in Mandatory, n \in 1..MaxAttempt :
           row'[<<r, f, n>>] = row[<<r, f, n>>] /\ (<<r, f, n>> \in file' <=> <<r, f, n>> \in file)
  PROVE  Sound(r)'
<1>1. NoReportYet(r)' /\ NothingAhead(r)'
  BY DEF Sound, NoReportYet, NothingAhead
<1>2. Published(r)'
  BY DEF Sound, Published, Page, Archive, Mandatory
<1>3. Outputs(r)'
  BY DEF Sound, Outputs
<1> QED
  BY <1>1, <1>2, <1>3 DEF Sound

LEMMA InitSound == Init => Inv
<1> SUFFICES ASSUME Init PROVE Inv
  OBVIOUS
<1>1. ReportTypeOK
  BY ReportAssumption DEF Init, ReportTypeOK, FinState, Idle, Phase, Mandatory
<1>2. \A r \in Run : Sound(r)
  BY MandatoryExports DEF Init, Sound, NoReportYet, NothingAhead, Published, Outputs, Idle
<1> QED
  BY <1>1, <1>2 DEF Inv
-----------------------------------------------------------------------------
(* Rows created for the next attempt of one run, from none to both.        *)
LEMMA CreatedRows ==
  ASSUME Inv, NEW r \in Run, NEW formats \in SUBSET Mandatory, row' = Created(r, formats)
  PROVE  /\ row' \in [Export -> {"NONE", "PENDING", "READY", "FAILED"}]
         /\ \A q \in Run, f \in Mandatory, n \in 1..MaxAttempt :
              row'[<<q, f, n>>] =
                IF q = r /\ f \in formats /\ n = fin[r].attempt + 1 /\ row[<<q, f, n>>] = "NONE"
                THEN "PENDING" ELSE row[<<q, f, n>>]
BY MandatoryExports DEF Created, NextAttempt, Inv, ReportTypeOK

(* Until the lease is taken these rows change nothing for their run.       *)
LEMMA CreatedSound ==
  ASSUME Inv, NEW r \in Run, NEW formats \in SUBSET Mandatory, row' = Created(r, formats),
         fin[r].state \notin {"FINALIZING", "COMPLETED"},
         NEW q \in Run, UNCHANGED <<fin, file>>, run'[q] = run[q] \/ run'[q] # "OPEN",
         job'[q].phase = "idle" \/ (q # r /\ job'[q] = job[q] /\ up' = up)
  PROVE  Sound(q)'
<1>1. NoReportYet(q)'
  BY DEF Inv, Sound, NoReportYet
<1>2. NothingAhead(q)'
  <2>1. NothingAhead(q) /\ fin[q].attempt \in Nat /\ fin[r].attempt \in Nat
    BY ReportAssumption DEF Inv, Sound, ReportTypeOK
  <2> SUFFICES ASSUME NEW f \in Mandatory, NEW n \in 1..MaxAttempt, n > fin[q].attempt
               PROVE  /\ <<q, f, n>> \notin file
                      /\ row'[<<q, f, n>>] \in {"NONE", "PENDING"}
                      /\ (n > fin[q].attempt + 1 \/ fin[q].state \in {"FINALIZING", "COMPLETED"})
                           => row'[<<q, f, n>>] = "NONE"
    BY DEF NothingAhead
  <2>2. CASE q = r /\ n = fin[r].attempt + 1
    BY <2>1, <2>2, CreatedRows DEF NothingAhead
  <2>3. CASE ~ (q = r /\ n = fin[r].attempt + 1)
    <3>1. row'[<<q, f, n>>] = row[<<q, f, n>>]
      BY <2>3, CreatedRows
    <3> QED
      BY <2>1, <3>1 DEF NothingAhead
  <2> QED
    BY <2>2, <2>3
<1>3. Outputs(q)'
  BY CreatedRows DEF Inv, Sound, Outputs, ReportTypeOK
<1>4. CASE job'[q].phase = "idle"
  BY <1>1, <1>2, <1>3, <1>4 DEF Sound, Published
<1>5. CASE q # r /\ job'[q] = job[q] /\ up' = up
  <2>1. \A f \in Mandatory, n \in 1..MaxAttempt : row'[<<q, f, n>>] = row[<<q, f, n>>]
    BY <1>5, CreatedRows
  <2>2. Published(q)'
    BY <1>5, <2>1 DEF Inv, Sound, Published, Page, Archive, Mandatory
  <2> QED
    BY <1>1, <1>2, <1>3, <2>2 DEF Sound
<1> QED
  BY <1>4, <1>5

(* An execution of a run that has no lease and no complete report.         *)
LEMMA ExecuteSound ==
  ASSUME Inv, NEW r \in Run, Execute(r), fin[r].state \notin {"FINALIZING", "COMPLETED"},
         up = TRUE, up' = up, UNCHANGED file,
         run' \in [Run -> Ended \cup {"OPEN"}], run'[r] # "OPEN",
         \A q \in Run \ {r} : run'[q] = run[q]
  PROVE  Inv'
<1> DEFINE n == fin[r].attempt + 1
<1>1. /\ fin' = [fin EXCEPT ![r] = [state |-> "FINALIZING", attempt |-> n]]
      /\ job' = [job EXCEPT ![r] = [phase |-> "open", format |-> "HTML"]]
      /\ row' = Created(r, Mandatory)
      /\ n \in 1..MaxAttempt
  BY ReportAssumption DEF Execute, NextAttempt, Inv, ReportTypeOK
<1>2. ReportTypeOK'
  BY <1>1, CreatedRows DEF Inv, ReportTypeOK, FinState, Phase, Mandatory
<1>3. ASSUME NEW q \in Run \ {r} PROVE Sound(q)'
  <2>1. \A f \in Mandatory, m \in 1..MaxAttempt : row'[<<q, f, m>>] = row[<<q, f, m>>]
    BY <1>1, CreatedRows
  <2>2. fin'[q] = fin[q] /\ job'[q] = job[q]
    BY <1>1 DEF Inv, ReportTypeOK
  <2> QED
    BY <2>1, <2>2, Untouched DEF Inv
<1>4. Sound(r)'
  <2>1. fin'[r] = [state |-> "FINALIZING", attempt |-> n] /\ job'[r] = [phase |-> "open", format |-> "HTML"]
    BY <1>1 DEF Inv, ReportTypeOK
  <2>2. \A f \in Mandatory : row'[<<r, f, n>>] = "PENDING" /\ <<r, f, n>> \notin file'
    BY <1>1, CreatedRows DEF Inv, Sound, NothingAhead, ReportTypeOK
  <2>3. NothingAhead(r)'
    <3> SUFFICES ASSUME NEW f \in Mandatory, NEW m \in 1..MaxAttempt, m > n
                 PROVE  <<r, f, m>> \notin file' /\ row'[<<r, f, m>>] = "NONE"
      BY <2>1 DEF NothingAhead
    <3> QED
      BY <1>1, CreatedRows DEF Inv, Sound, NothingAhead, ReportTypeOK
  <2>4. Published(r)' /\ Outputs(r)' /\ NoReportYet(r)'
    BY <1>1, <2>1, <2>2 DEF Published, Outputs, NoReportYet, Page, Archive, Mandatory
  <2> QED
    BY <2>3, <2>4 DEF Sound
<1> QED
  BY <1>2, <1>3, <1>4 DEF Inv

LEMMA CompleteSound ==
  ASSUME Inv, NEW r \in Run, NEW state \in Outcome, Complete(r, state)
  PROVE  Inv'
<1>1. fin[r].state = "NONE" /\ up = TRUE
  BY DEF Complete, Inv, Sound, NoReportYet, ReportTypeOK
<1>2. /\ run' \in [Run -> Ended \cup {"OPEN"}]
      /\ run'[r] # "OPEN"
      /\ \A q \in Run \ {r} : run'[q] = run[q]
  BY ReportAssumption DEF Complete, Inv, ReportTypeOK, Ended
<1>3. CASE Execute(r)
  BY <1>1, <1>2, <1>3, ExecuteSound DEF Complete
<1>4. CASE UNCHANGED <<fin, row, job>>
  <2>1. Published(r)' /\ NothingAhead(r)' /\ Outputs(r)' /\ NoReportYet(r)'
    BY <1>1, <1>2, <1>4
    DEF Complete, Inv, Sound, Published, NothingAhead, Outputs, NoReportYet, Page, Archive
  <2>2. \A q \in Run \ {r} : Sound(q)'
    BY <1>2, <1>4, Untouched DEF Complete, Inv
  <2> QED
    BY <1>2, <1>4, <2>1, <2>2 DEF Complete, Inv, ReportTypeOK, Sound
<1> QED
  BY <1>3, <1>4 DEF Complete

LEMMA RetrySound ==
  ASSUME Inv, NEW r \in Run, Retry(r)
  PROVE  Inv'
BY ExecuteSound DEF Retry, Retryable, Retried, Ended, Inv, ReportTypeOK
-----------------------------------------------------------------------------
(* A step of the publication of one run leaves the others alone.           *)
LEMMA OneRunPublishes ==
  ASSUME Inv, NEW r \in Run, up' = up, UNCHANGED run, ReportTypeOK',
         \A q \in Run \ {r} : fin'[q] = fin[q] /\ job'[q] = job[q],
         \A x \in Export : x[1] # r => row'[x] = row[x] /\ (x \in file' <=> x \in file),
         Sound(r)'
  PROVE  Inv'
<1>1. ASSUME NEW q \in Run \ {r} PROVE Sound(q)'
  BY Untouched, MandatoryExports DEF Inv
<1> QED
  BY <1>1 DEF Inv

(* The exports an execution works on, and what its transitions do to them. *)
LEMMA CurrentExport ==
  ASSUME Inv, NEW r \in Run, job[r].phase # "idle"
  PROVE  /\ fin[r].state = "FINALIZING"
         /\ fin[r].attempt \in 1..MaxAttempt
         /\ job[r].format \in Mandatory
         /\ Current(r) = (IF job[r].format = "HTML" THEN Page(r) ELSE Archive(r))
         /\ Current(r) \in Export /\ Page(r) \in Export /\ Archive(r) \in Export
         /\ Page(r) # Archive(r)
         /\ Current(r)[1] = r /\ Page(r)[1] = r /\ Archive(r)[1] = r
         /\ Current(r)[3] = fin[r].attempt
BY MandatoryExports DEF Inv, Sound, Published, ReportTypeOK, Current, Page, Archive, Mandatory

LEMMA Closed ==
  ASSUME Inv, NEW r \in Run, job[r].phase # "idle",
         NEW state \in {"COMPLETED", "FINALIZATION_FAILED"}, Close(r, state)
  PROVE  /\ fin' = [fin EXCEPT ![r].state = state]
         /\ job' = [job EXCEPT ![r] = Idle]
         /\ fin' \in [Run -> [state : FinState, attempt : 0..MaxAttempt]]
         /\ job' \in [Run -> [phase : Phase, format : Mandatory]]
         /\ fin'[r] = [state |-> state, attempt |-> fin[r].attempt]
         /\ job'[r] = Idle
BY CurrentExport DEF Close, Inv, ReportTypeOK, FinState, Retried, Idle, Phase, Mandatory

(* Whatever fails, the attempt is given up and nothing was promised.       *)
LEMMA FailureSound ==
  ASSUME Inv, NEW r \in Run, job[r].phase # "idle", Close(r, "FINALIZATION_FAILED"),
         MarkRow(Current(r), "FAILED"), file' \in {file, file \ {Current(r)}},
         UNCHANGED <<up, run>>
  PROVE  Inv'
<1>0. /\ fin' = [fin EXCEPT ![r].state = "FINALIZATION_FAILED"]
      /\ job' = [job EXCEPT ![r] = Idle]
      /\ fin' \in [Run -> [state : FinState, attempt : 0..MaxAttempt]]
      /\ job' \in [Run -> [phase : Phase, format : Mandatory]]
      /\ fin'[r] = [state |-> "FINALIZATION_FAILED", attempt |-> fin[r].attempt]
      /\ job'[r] = Idle
  BY Closed
<1>1. ReportTypeOK'
  BY <1>0, CurrentExport DEF MarkRow, Inv, ReportTypeOK
<1>2. \A x \in Export : x # Current(r) => row'[x] = row[x] /\ (x \in file' <=> x \in file)
  BY DEF MarkRow, Inv, ReportTypeOK
<1>3. NothingAhead(r)'
  <2>1. \A f \in Mandatory, n \in 1..MaxAttempt : n > fin[r].attempt =>
          <<r, f, n>> \in Export /\ <<r, f, n>> # Current(r)
    <3> SUFFICES ASSUME NEW f \in Mandatory, NEW n \in 1..MaxAttempt, n > fin[r].attempt
                 PROVE  <<r, f, n>> \in Export /\ <<r, f, n>> # Current(r)
      OBVIOUS
    <3>1. <<r, f, n>>[3] = n /\ n # fin[r].attempt
      BY CurrentExport
    <3> QED
      BY <3>1, MandatoryExports, CurrentExport
  <2>2. fin'[r].attempt = fin[r].attempt /\ fin'[r].state = "FINALIZATION_FAILED"
    BY <1>0
  <2>3. NothingAhead(r) /\ fin[r].state = "FINALIZING"
    BY CurrentExport DEF Inv, Sound
  <2> QED
    BY <1>2, <2>1, <2>2, <2>3 DEF NothingAhead
<1>4. Published(r)' /\ Outputs(r)' /\ NoReportYet(r)'
  BY <1>0, CurrentExport DEF Published, Outputs, NoReportYet, Inv, Sound, Idle
<1>5. Sound(r)'
  BY <1>3, <1>4 DEF Sound
<1>6. \A q \in Run \ {r} : fin'[q] = fin[q] /\ job'[q] = job[q]
  BY <1>0 DEF Inv, ReportTypeOK
<1>7. \A x \in Export : x[1] # r => row'[x] = row[x] /\ (x \in file' <=> x \in file)
  BY <1>2, CurrentExport
<1> QED
  BY <1>1, <1>5, <1>6, <1>7, OneRunPublishes

(* A publication that goes on moves its own row and file only.             *)
LEMMA ProgressSound ==
  ASSUME Inv, NEW r \in Run, job[r].phase # "idle",
         NEW phase \in Phase \ {"idle"}, NEW format \in Mandatory, GoTo(r, phase, format),
         row' \in [Export -> {"NONE", "PENDING", "READY", "FAILED"}], file' \subseteq Export,
         \A x \in Export : x # Current(r) => row'[x] = row[x] /\ (x \in file' <=> x \in file),
         UNCHANGED <<up, run, fin>>,
         Published(r)'
  PROVE  Inv'
<1>1. /\ job' = [job EXCEPT ![r] = [phase |-> phase, format |-> format]]
      /\ ReportTypeOK'
  BY DEF GoTo, Inv, ReportTypeOK
<1>2. NothingAhead(r)'
  <2>1. \A f \in Mandatory, n \in 1..MaxAttempt : n > fin[r].attempt =>
          <<r, f, n>> \in Export /\ <<r, f, n>> # Current(r)
    <3> SUFFICES ASSUME NEW f \in Mandatory, NEW n \in 1..MaxAttempt, n > fin[r].attempt
                 PROVE  <<r, f, n>> \in Export /\ <<r, f, n>> # Current(r)
      OBVIOUS
    <3>1. <<r, f, n>>[3] = n /\ n # fin[r].attempt
      BY CurrentExport
    <3> QED
      BY <3>1, MandatoryExports, CurrentExport
  <2> QED
    BY <2>1 DEF Inv, Sound, NothingAhead
<1>3. Outputs(r)' /\ NoReportYet(r)'
  BY CurrentExport DEF Inv, Sound, Outputs, NoReportYet
<1>4. Sound(r)'
  BY <1>2, <1>3 DEF Sound
<1>5. \A q \in Run \ {r} : fin'[q] = fin[q] /\ job'[q] = job[q]
  BY <1>1 DEF Inv, ReportTypeOK
<1>6. \A x \in Export : x[1] # r => row'[x] = row[x] /\ (x \in file' <=> x \in file)
  BY CurrentExport
<1> QED
  BY <1>1, <1>4, <1>5, <1>6, OneRunPublishes
-----------------------------------------------------------------------------
(* One lemma per action of a publication.                                  *)
LEMMA OpenSound ==
  ASSUME Inv, NEW r \in Run, Open(r)
  PROVE  Inv'
<1>1. job[r].phase # "idle" /\ UNCHANGED <<up, run, file>>
  BY DEF Open
<1>2. CASE row[Current(r)] = "PENDING" /\ Current(r) \notin file
  <2>1. GoTo(r, "write", job[r].format) /\ UNCHANGED <<row, fin>>
    BY <1>2 DEF Open
  <2>2. job'[r] = [phase |-> "write", format |-> job[r].format]
    BY <2>1 DEF GoTo, Inv, ReportTypeOK
  <2>3. Published(r)'
    BY <1>1, <1>2, <2>1, <2>2 DEF Open, Inv, Sound, Published, Page, Archive
  <2> QED
    BY <1>1, <2>1, <2>3, CurrentExport, ProgressSound DEF Phase, Inv, ReportTypeOK
<1>3. CASE ~ (row[Current(r)] = "PENDING" /\ Current(r) \notin file)
  BY <1>1, <1>3, FailureSound DEF Open
<1> QED
  BY <1>2, <1>3

LEMMA RenameSound ==
  ASSUME Inv, NEW r \in Run, Rename(r)
  PROVE  Inv'
<1>1. job[r].phase = "write" /\ UNCHANGED <<up, run, fin, row>> /\ file' = file \cup {Current(r)}
  BY DEF Rename, tables
<1>2. GoTo(r, "renamed", job[r].format) /\ job'[r] = [phase |-> "renamed", format |-> job[r].format]
  BY DEF Rename, GoTo, Inv, ReportTypeOK
<1>3. /\ Current(r) = (IF job[r].format = "HTML" THEN Page(r) ELSE Archive(r))
      /\ Page(r) # Archive(r)
      /\ job[r].format \in Mandatory
      /\ file' \subseteq Export
  BY <1>1, CurrentExport DEF Inv, ReportTypeOK
<1>4. Published(r)'
  BY <1>1, <1>2, <1>3 DEF Inv, Sound, Published, Page, Archive
<1> QED
  BY <1>1, <1>2, <1>3, <1>4, ProgressSound DEF Phase, Inv, ReportTypeOK

LEMMA MarkReadySound ==
  ASSUME Inv, NEW r \in Run, MarkReady(r)
  PROVE  Inv'
<1>1. /\ job[r].phase = "renamed"
      /\ UNCHANGED <<up, run, fin, file>>
      /\ row' = [row EXCEPT ![Current(r)] = IF @ = "PENDING" THEN "READY" ELSE @]
  BY DEF MarkReady, MarkRow
<1>2. /\ Current(r) = (IF job[r].format = "HTML" THEN Page(r) ELSE Archive(r))
      /\ Page(r) # Archive(r)
      /\ Page(r) \in Export /\ Archive(r) \in Export
      /\ job[r].format \in {"HTML", "ZIP"}
  BY <1>1, CurrentExport DEF Mandatory
<1>3. row[Current(r)] = "PENDING" /\ row'[Current(r)] = "READY"
  BY <1>1, <1>2 DEF Inv, Sound, Published, ReportTypeOK
<1>4. /\ row' \in [Export -> {"NONE", "PENDING", "READY", "FAILED"}]
      /\ \A x \in Export : x # Current(r) => row'[x] = row[x]
  BY <1>1 DEF Inv, ReportTypeOK
<1> DEFINE phase == IF job[r].format = "HTML" THEN "open" ELSE "complete"
<1>5. GoTo(r, phase, "ZIP") /\ job'[r] = [phase |-> phase, format |-> "ZIP"]
  BY <1>2 DEF MarkReady, GoTo, Inv, ReportTypeOK
<1>6. Published(r)'
  BY <1>1, <1>2, <1>3, <1>4, <1>5 DEF Inv, Sound, Published, Page, Archive
<1> QED
  BY <1>1, <1>4, <1>5, <1>6, ProgressSound DEF Phase, Mandatory, Inv, ReportTypeOK

LEMMA MarkCompletedSound ==
  ASSUME Inv, NEW r \in Run, MarkCompleted(r)
  PROVE  Inv'
<1>1. /\ fin' \in [Run -> [state : FinState, attempt : 0..MaxAttempt]]
      /\ job' \in [Run -> [phase : Phase, format : Mandatory]]
      /\ fin' = [fin EXCEPT ![r].state = "COMPLETED"]
      /\ job' = [job EXCEPT ![r] = Idle]
      /\ fin'[r] = [state |-> "COMPLETED", attempt |-> fin[r].attempt]
      /\ job'[r] = Idle
  BY Closed DEF MarkCompleted
<1>2. job[r].phase = "complete" /\ UNCHANGED <<up, run, row, file>>
  BY DEF MarkCompleted
<1>3. /\ fin[r].state = "FINALIZING"
      /\ fin[r].attempt \in 1..MaxAttempt
      /\ row[Page(r)] = "READY" /\ Page(r) \in file
      /\ row[Archive(r)] = "READY" /\ Archive(r) \in file
  BY <1>2, CurrentExport DEF Mandatory, Inv, Sound, Published
<1>4. Outputs(r)' /\ Published(r)' /\ NoReportYet(r)'
  <2>1. fin'[r].attempt = fin[r].attempt /\ job'[r].phase = "idle"
    BY <1>1 DEF Idle
  <2>2. Outputs(r)'
    BY <1>2, <1>3, <2>1 DEF Outputs, Page, Archive, Mandatory
  <2>3. NoReportYet(r)'
    BY <1>2, <1>3 DEF NoReportYet, Inv, Sound
  <2> QED
    BY <2>1, <2>2, <2>3 DEF Published
<1>5. NothingAhead(r)'
  <2>1. fin'[r].attempt = fin[r].attempt /\ NothingAhead(r)
    BY <1>1 DEF Inv, Sound
  <2> QED
    BY <1>2, <1>3, <2>1 DEF NothingAhead
<1>6. \A q \in Run \ {r} : fin'[q] = fin[q] /\ job'[q] = job[q]
  BY <1>1 DEF Inv, ReportTypeOK
<1>7. ReportTypeOK' /\ Sound(r)'
  BY <1>1, <1>2, <1>4, <1>5 DEF Sound, Inv, ReportTypeOK
<1> QED
  BY <1>2, <1>6, <1>7, OneRunPublishes

LEMMA PublishSound ==
  ASSUME Inv, NEW r \in Run, Publish(r)
  PROVE  Inv'
<1>1. CASE PublishFails(r) \/ VerifyFails(r)
  <2>1. /\ job[r].phase # "idle"
        /\ Close(r, "FINALIZATION_FAILED")
        /\ MarkRow(Current(r), "FAILED")
        /\ file' \in {file, file \ {Current(r)}}
        /\ UNCHANGED <<up, run>>
    BY <1>1 DEF PublishFails, VerifyFails
  <2> QED
    BY <2>1, FailureSound
<1> QED
  BY <1>1, OpenSound, RenameSound, MarkReadySound, MarkCompletedSound DEF Publish
-----------------------------------------------------------------------------
(* Optional exports have rows and files of their own.                      *)
LEMMA OptionalSound ==
  ASSUME Inv, UNCHANGED <<up, run, fin, job>>,
         row' \in [Export -> {"NONE", "PENDING", "READY", "FAILED"}], file' \subseteq Export,
         \A x \in Export \ Extra : row'[x] = row[x] /\ (x \in file' <=> x \in file)
  PROVE  Inv'
<1>1. ASSUME NEW r \in Run PROVE Sound(r)'
  BY Untouched, MandatoryExports DEF Inv
<1> QED
  BY <1>1 DEF Inv, ReportTypeOK

LEMMA RequestExportsSound ==
  ASSUME Inv, NEW r \in Run, NEW formats \in SUBSET Optional, RequestExports(r, formats)
  PROVE  Inv'
<1> DEFINE asked == {<<r, f, Max(Exported(r, f) \cup {0}) + 1>> : f \in formats}
<1>1. /\ asked \subseteq Extra
      /\ row' = [x \in Export |-> IF x \in asked THEN "PENDING" ELSE row[x]]
      /\ UNCHANGED <<up, run, fin, file, job>>
  BY DEF RequestExports
<1> HIDE DEF asked
<1>2. row' \in [Export -> {"NONE", "PENDING", "READY", "FAILED"}]
  BY <1>1 DEF Inv, ReportTypeOK
<1>3. \A x \in Export \ Extra : row'[x] = row[x]
  BY <1>1
<1> QED
  BY <1>1, <1>2, <1>3, OptionalSound DEF Inv, ReportTypeOK

LEMMA ProcessExportSound ==
  ASSUME Inv, NEW x \in Extra, ProcessExport(x)
  PROVE  Inv'
<1>1. CASE RenameExport(x)
  BY <1>1, MandatoryExports, OptionalSound DEF RenameExport, tables, Inv, ReportTypeOK
<1>2. ASSUME NEW state \in {"READY", "FAILED"}, EndExport(x, state)
      PROVE  Inv'
  BY <1>2, OptionalSound DEF EndExport, MarkRow, Inv, ReportTypeOK
<1> QED
  BY <1>1, <1>2 DEF ProcessExport
-----------------------------------------------------------------------------
(* A crash forgets the executions; the rows of one may have been created.  *)
LEMMA CrashSound ==
  ASSUME Inv, Forget, UNCHANGED <<run, row>>
  PROVE  Inv'
<1>1. up' = FALSE /\ UNCHANGED <<fin, file>> /\ job' = [r \in Run |-> Idle]
  BY DEF Forget
<1>2. ReportTypeOK'
  BY <1>1 DEF Inv, ReportTypeOK, Idle, Phase, Mandatory
<1>3. ASSUME NEW r \in Run PROVE Sound(r)'
  <2>1. job'[r].phase = "idle"
    BY <1>1 DEF Idle
  <2> QED
    BY <1>1, <2>1 DEF Inv, Sound, NoReportYet, NothingAhead, Published, Outputs
<1> QED
  BY <1>2, <1>3 DEF Inv

LEMMA CrashStartingSound ==
  ASSUME Inv, NEW r \in Run, CrashStarting(r)
  PROVE  Inv'
<1>1. /\ up' = FALSE
      /\ UNCHANGED <<fin, file>>
      /\ job' = [q \in Run |-> Idle]
      /\ fin[r].state \notin {"FINALIZING", "COMPLETED"}
  BY DEF CrashStarting, Forget, Retryable, Retried, Inv, Sound, NoReportYet
<1>2. PICK formats \in SUBSET Mandatory : row' = Created(r, formats)
  <2>1. row = Created(r, {})
    BY DEF Created, Inv, ReportTypeOK
  <2>2. row' \in {row, Created(r, {"HTML"}), Created(r, Mandatory)}
    BY DEF CrashStarting
  <2> QED
    BY <2>1, <2>2 DEF Mandatory
<1>3. /\ run' \in [Run -> Ended \cup {"OPEN"}]
      /\ \A q \in Run : run'[q] = run[q] \/ run'[q] # "OPEN"
  BY ReportAssumption DEF CrashStarting, Inv, ReportTypeOK, Ended
<1>4. ReportTypeOK'
  BY <1>1, <1>2, <1>3, CreatedRows DEF Inv, ReportTypeOK, Idle, Phase, Mandatory
<1>5. ASSUME NEW q \in Run PROVE Sound(q)'
  <2>1. job'[q].phase = "idle"
    BY <1>1 DEF Idle
  <2> QED
    BY <1>1, <1>2, <1>3, <2>1, CreatedSound
<1> QED
  BY <1>4, <1>5 DEF Inv

(* Startup gives up leases that nobody works on, and fails their rows.     *)
LEMMA RestartSound ==
  ASSUME Inv, NEW stale \in SUBSET Run, Restart(stale)
  PROVE  Inv'
<1>1. /\ up = FALSE /\ up' = TRUE
      /\ \A r \in stale : fin[r].state = "FINALIZING"
      /\ fin' = [r \in Run |-> IF r \in stale THEN [fin[r] EXCEPT !.state = "INTERRUPTED"] ELSE fin[r]]
      /\ run' = [r \in Run |->
                   IF r \in stale /\ run[r] \in {"FINISHED", "FAILED"} THEN "INTERRUPTED" ELSE run[r]]
      /\ row' = [x \in Export |-> IF x[1] \in stale /\ row[x] = "PENDING" THEN "FAILED" ELSE row[x]]
      /\ UNCHANGED <<file, job>>
  BY DEF Restart, memory, Inv, ReportTypeOK
<1>2. ReportTypeOK'
  BY <1>1 DEF Inv, ReportTypeOK, Ended, FinState, Retried
<1>3. ASSUME NEW r \in Run PROVE Sound(r)'
  <2>1. job'[r].phase = "idle"
    BY <1>1 DEF Inv, Sound, Published
  <2>2. \A f \in Mandatory, n \in 1..MaxAttempt :
          row'[<<r, f, n>>] = IF r \in stale /\ row[<<r, f, n>>] = "PENDING"
                              THEN "FAILED" ELSE row[<<r, f, n>>]
    BY <1>1, MandatoryExports
  <2>3. CASE r \in stale
    <3>1. fin'[r] = [fin[r] EXCEPT !.state = "INTERRUPTED"] /\ fin[r].state = "FINALIZING"
      BY <1>1, <2>3
    <3>2. fin'[r].state = "INTERRUPTED" /\ fin'[r].attempt = fin[r].attempt
      BY <3>1 DEF Inv, ReportTypeOK
    <3>3. NothingAhead(r)' /\ Outputs(r)' /\ Published(r)'
      BY <1>1, <2>1, <2>2, <3>1, <3>2 DEF Inv, Sound, NothingAhead, Outputs, Published
    <3>4. NoReportYet(r)'
      BY <1>1, <3>1 DEF Inv, Sound, NoReportYet
    <3> QED
      BY <3>3, <3>4 DEF Sound
  <2>4. CASE r \notin stale
    <3>1. fin'[r] = fin[r] /\ run'[r] = run[r]
      BY <1>1, <2>4
    <3>2. \A f \in Mandatory, n \in 1..MaxAttempt : row'[<<r, f, n>>] = row[<<r, f, n>>]
      BY <2>2, <2>4
    <3>3. NothingAhead(r)' /\ Outputs(r)' /\ Published(r)' /\ NoReportYet(r)'
      BY <1>1, <2>1, <3>1, <3>2 DEF Inv, Sound, NothingAhead, Outputs, Published, NoReportYet
    <3> QED
      BY <3>3 DEF Sound
  <2> QED
    BY <2>3, <2>4
<1> QED
  BY <1>2, <1>3 DEF Inv
-----------------------------------------------------------------------------
LEMMA InvAlways == Spec => []Inv
<1>1. Init => Inv
  BY InitSound
<1>2. Inv /\ [Next]_vars => Inv'
  <2> SUFFICES ASSUME Inv, [Next]_vars PROVE Inv'
    OBVIOUS
  <2>1. CASE UNCHANGED vars
    <3>1. \A r \in Run : Sound(r)'
      BY <2>1, Untouched DEF vars, tables, memory, Inv
    <3> QED
      BY <2>1, <3>1 DEF vars, tables, memory, Inv, ReportTypeOK
  <2>2. ASSUME NEW r \in Run, NEW state \in Outcome, Complete(r, state) PROVE Inv'
    BY <2>2, CompleteSound
  <2>3. ASSUME NEW r \in Run, NEW formats \in SUBSET Optional, RequestExports(r, formats)
        PROVE  Inv'
    BY <2>3, RequestExportsSound
  <2>4. ASSUME NEW r \in Run, Retry(r) \/ Publish(r) \/ CrashStarting(r) PROVE Inv'
    BY <2>4, RetrySound, PublishSound, CrashStartingSound
  <2>5. ASSUME NEW x \in Extra, ProcessExport(x) PROVE Inv'
    BY <2>5, ProcessExportSound
  <2>6. CASE Crash
    BY <2>6, CrashSound DEF Crash
  <2>7. ASSUME NEW stale \in SUBSET Run, Restart(stale) PROVE Inv'
    BY <2>7, RestartSound
  <2> QED
    BY <2>1, <2>2, <2>3, <2>4, <2>5, <2>6, <2>7 DEF Next
<1> QED
  BY <1>1, <1>2, PTL DEF Spec

(* COMPLETED is worth a page and an archive, whatever crashed or failed.   *)
THEOREM CompleteReports == Spec => []CompletedHasOutputs
<1>1. Inv => CompletedHasOutputs
  BY DEF Inv, Sound, Outputs, CompletedHasOutputs
<1> QED
  BY <1>1, InvAlways, PTL

(* The export route opens the report that completed the run.               *)
THEOREM NewestReports == Spec => []CompletedIsNewest
<1>1. Inv => CompletedIsNewest
  <2> SUFFICES ASSUME Inv, NEW r \in Run, fin[r].state = "COMPLETED", NEW f \in Mandatory
               PROVE  Max(Attempted(r, f)) = fin[r].attempt
    BY DEF CompletedIsNewest
  <2> DEFINE n == fin[r].attempt
  <2>1. n \in Attempted(r, f)
    BY DEF Inv, Sound, Outputs, Attempted
  <2>2. \A m \in Attempted(r, f) : m \in Nat /\ n \in Nat /\ n >= m
    BY ReportAssumption DEF Inv, Sound, Outputs, NothingAhead, Attempted
  <2>3. \A m \in Attempted(r, f) : (\A k \in Attempted(r, f) : m >= k) => m = n
    BY <2>1, <2>2
  <2> QED
    BY <2>1, <2>2, <2>3 DEF Max
<1> QED
  BY <1>1, InvAlways, PTL

(* The rows and paths of an attempt that has the lease are its own.        *)
THEOREM FreshAttempts == Spec => []AttemptIsFresh
<1>1. Inv => AttemptIsFresh
  <2> SUFFICES ASSUME Inv, NEW r \in Run, job[r].phase = "open"
               PROVE  row[Current(r)] = "PENDING" /\ Current(r) \notin file
    BY DEF AttemptIsFresh
  <2>1. Current(r) = (IF job[r].format = "HTML" THEN Page(r) ELSE Archive(r))
    BY CurrentExport
  <2> QED
    BY <2>1 DEF Inv, Sound, Published, ReportTypeOK, Mandatory
<1> QED
  BY <1>1, InvAlways, PTL

(* A run reported COMPLETED has a report, and it is the one the export     *)
(* route opens (report-finalization-service.ts, routes/results.ts).        *)
THEOREM ReportsAreComplete == Spec => []CompletedIsTheReport
<1>1. Inv => ReportTypeOK
  BY DEF Inv
<1> QED
  BY <1>1, InvAlways, CompleteReports, NewestReports, PTL DEF CompletedIsTheReport
=============================================================================
