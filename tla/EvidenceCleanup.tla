-------------------------- MODULE EvidenceCleanup --------------------------
(***************************************************************************)
(* Retention cleanup: the preview the console shows, the confirmation it   *)
(* asks for, and the execution that moves run directories to the trash and *)
(* removes them (packages/evidence cleanup-*.ts, security                  *)
(* cleanup-confirmation.ts, console CleanupDialog.tsx).                    *)
(*                                                                         *)
(* Several dialogs may be open, and the server awaits every rename and     *)
(* removal, so executions interleave; each file operation may fail, and    *)
(* the server may go down between any two.  cleanupState and trail are     *)
(* rows of the database, place and damaged the disk.                       *)
(***************************************************************************)
EXTENDS Integers, FiniteSets

CONSTANTS
  Runs,       \* ended runs past the retention, numbered in the order of their ids
  Dialog,     \* console dialogs that may be open at once
  MaxCleanupFaults,  \* bound: file operations that fail
  MaxCleanupCrashes  \* bound: times the server goes down

ASSUME EvidenceCleanupAssumption ==
  /\ Runs \subseteq Nat
  /\ IsFiniteSet(Runs)
  /\ MaxCleanupFaults \in Nat
  /\ MaxCleanupCrashes \in Nat

VARIABLES
  cleanupState,  \* test_runs.cleanup_state
  trail,         \* cleanup_audit_events that name a run, as <<kind, run>>
  place,         \* where a run's directory is
  damaged,       \* whether a failed removal has taken part of it
  dialog,        \* each dialog and the execution it awaits
  cleanupFaults,        \* file operations that have failed
  cleanupCrashes        \* times the server has gone down

cleanupDisk == <<place, damaged>>
cleanupVars == <<cleanupState, trail, cleanupDisk, dialog, cleanupFaults, cleanupCrashes>>

NoAnswer == [deleted |-> {}, restored |-> {}, unresolved |-> {}]

Closed == [pc |-> "closed", runs |-> {}, nonce |-> "none", moved |-> {}, back |-> {},
           removed |-> {}, restored |-> {}, refused |-> FALSE, answer |-> NoAnswer]

CleanupTypeOK ==
  /\ cleanupState \in [Runs -> {"ACTIVE", "DELETING", "DELETED", "RECOVERY_REQUIRED"}]
  /\ trail \subseteq {"RUN_MOVED", "RUN_RESTORED", "MOVE_FAILED"} \X Runs
  /\ place \in [Runs -> {"runs", "trash", "gone"}]
  /\ damaged \in [Runs -> BOOLEAN]
  /\ dialog \in [Dialog -> [
       pc : {"closed", "open", "moving", "rollback", "removing", "restoring", "answered", "lost"},
       runs : SUBSET Runs, nonce : {"none", "fresh"},
       moved : SUBSET Runs, back : SUBSET Runs, removed : SUBSET Runs,
       restored : SUBSET Runs, refused : BOOLEAN,
       answer : [deleted : SUBSET Runs, restored : SUBSET Runs, unresolved : SUBSET Runs]]]
  /\ cleanupFaults \in 0..MaxCleanupFaults
  /\ cleanupCrashes \in 0..MaxCleanupCrashes

CleanupInit ==
  /\ cleanupState = [r \in Runs |-> "ACTIVE"]
  /\ trail = {}
  /\ place = [r \in Runs |-> "runs"]
  /\ damaged = [r \in Runs |-> FALSE]
  /\ dialog = [d \in Dialog |-> Closed]
  /\ cleanupFaults = 0
  /\ cleanupCrashes = 0
-----------------------------------------------------------------------------
SetDialog(d, record) == dialog' = [dialog EXCEPT ![d] = record]

First(S) == CHOOSE r \in S : \A q \in S : r <= q
Last(S)  == CHOOSE r \in S : \A q \in S : r >= q

\* CleanupService.preview: the filter looks at the run's end, protection and
\* age, never at what an earlier cleanup did to it.
Candidates == Runs

\* The operator ticks candidates of the preview and opens the dialog.
Select(d) ==
  /\ dialog[d].pc = "closed"
  /\ \E chosen \in (SUBSET Candidates) \ {{}} :
       SetDialog(d, [Closed EXCEPT !.pc = "open", !.runs = chosen])
  /\ UNCHANGED <<cleanupState, trail, cleanupDisk, cleanupFaults, cleanupCrashes>>

\* CleanupConfirmationService.issue.
Issued(d) == [dialog[d] EXCEPT !.nonce = "fresh"]

\* The operator confirms: runCleanup asks for a nonce, bound to the run ids.
Confirm(d) ==
  /\ dialog[d].pc = "open"
  /\ dialog[d].nonce # "fresh"
  /\ SetDialog(d, Issued(d))
  /\ UNCHANGED <<cleanupState, trail, cleanupDisk, cleanupFaults, cleanupCrashes>>

\* Sixty seconds pass before the nonce is used.
Expire(d) ==
  /\ dialog[d].pc = "open"
  /\ dialog[d].nonce = "fresh"
  /\ SetDialog(d, [dialog[d] EXCEPT !.nonce = "none"])
  /\ UNCHANGED <<cleanupState, trail, cleanupDisk, cleanupFaults, cleanupCrashes>>

\* CleanupConfirmationService.consume.
Consumable(d) == dialog[d].nonce = "fresh"

\* Mutant: the transaction checks that the runs exist and no more.
MayBeMarkedUnchecked(rs) == rs \subseteq Runs

\* CleanupAuditRepository.markDeleting, one transaction: all or none.
MayBeMarked(rs) == \A r \in rs : cleanupState[r] = "ACTIVE"

\* One transaction over all the runs of the execution.
Marked(rs, state) == [r \in Runs |-> IF r \in rs THEN state ELSE cleanupState[r]]

\* CleanupAuditRepository.appendEvent, for each of some runs.
Appended(kind, rs) == trail \cup ({kind} \X rs)

\* execute, up to its first await.  The nonce is spent even when a run is
\* refused, and the dialog goes back to the confirmation with an error.
Execute(d) ==
  /\ dialog[d].pc = "open"
  /\ Consumable(d)
  /\ IF MayBeMarked(dialog[d].runs)
     THEN /\ cleanupState' = Marked(dialog[d].runs, "DELETING")
          /\ SetDialog(d, [dialog[d] EXCEPT !.nonce = "none", !.pc = "moving"])
     ELSE /\ SetDialog(d, [dialog[d] EXCEPT !.nonce = "none"])
          /\ UNCHANGED cleanupState
  /\ UNCHANGED <<trail, cleanupDisk, cleanupFaults, cleanupCrashes>>

\* CleanupTrashMover.move: the renames, in the order of the ids.
Move(d) ==
  LET left == dialog[d].runs \ dialog[d].moved
      r    == First(left)
      m    == dialog[d].moved \cup {r}
  IN  /\ dialog[d].pc = "moving"
      /\ left # {}
      /\ place[r] = "runs"
      /\ place' = [place EXCEPT ![r] = "trash"]
      /\ IF m = dialog[d].runs
         THEN /\ trail' = Appended("RUN_MOVED", m)
              /\ SetDialog(d, [dialog[d] EXCEPT !.moved = m, !.pc = "removing"])
         ELSE /\ SetDialog(d, [dialog[d] EXCEPT !.moved = m])
              /\ UNCHANGED trail
      /\ UNCHANGED <<cleanupState, damaged, cleanupFaults, cleanupCrashes>>

\* A directory is in use, or the trash cannot be made: the moves are undone.
MoveFails(d) ==
  /\ dialog[d].pc = "moving"
  /\ cleanupFaults < MaxCleanupFaults
  /\ cleanupFaults' = cleanupFaults + 1
  /\ SetDialog(d, [dialog[d] EXCEPT !.pc = "rollback", !.back = dialog[d].moved])
  /\ UNCHANGED <<cleanupState, trail, cleanupDisk, cleanupCrashes>>

\* The moves are undone in reverse, each failure counted and passed over.
Undo(d) ==
  LET r == Last(dialog[d].back)
  IN  /\ dialog[d].pc = "rollback"
      /\ dialog[d].back # {}
      /\ SetDialog(d, [dialog[d] EXCEPT !.back = @ \ {r}])
      /\ \/ place' = [place EXCEPT ![r] = "runs"] /\ UNCHANGED cleanupFaults
         \/ cleanupFaults < MaxCleanupFaults /\ cleanupFaults' = cleanupFaults + 1 /\ UNCHANGED place
      /\ UNCHANGED <<cleanupState, trail, damaged, cleanupCrashes>>

\* execute's first catch: move threw, whether or not every rename was undone.
AnswerNotMoved(d) ==
  /\ dialog[d].pc = "rollback"
  /\ dialog[d].back = {}
  /\ trail' = Appended("MOVE_FAILED", dialog[d].runs)
  /\ cleanupState' = Marked(dialog[d].runs, "RECOVERY_REQUIRED")
  /\ SetDialog(d, [dialog[d] EXCEPT !.pc = "answered", !.moved = {}])
  /\ UNCHANGED <<cleanupDisk, cleanupFaults, cleanupCrashes>>

Unremoved(d) == dialog[d].moved \ dialog[d].removed

\* execute's second loop: the trash is removed, one directory after another.
Remove(d) ==
  LET r == First(Unremoved(d))
  IN  /\ dialog[d].pc = "removing"
      /\ Unremoved(d) # {}
      /\ place' = [place EXCEPT ![r] = "gone"]
      /\ SetDialog(d, [dialog[d] EXCEPT !.removed = @ \cup {r}])
      /\ UNCHANGED <<cleanupState, trail, damaged, cleanupFaults, cleanupCrashes>>

\* Mutant: a directory that could not be removed is passed over.
RemoveFailsUnnoticed(d) ==
  LET r == First(Unremoved(d))
  IN  /\ dialog[d].pc = "removing"
      /\ Unremoved(d) # {}
      /\ cleanupFaults < MaxCleanupFaults
      /\ cleanupFaults' = cleanupFaults + 1
      /\ \E part \in BOOLEAN : damaged' = [damaged EXCEPT ![r] = part]
      /\ SetDialog(d, [dialog[d] EXCEPT !.removed = @ \cup {r}])
      /\ UNCHANGED <<cleanupState, trail, place, cleanupCrashes>>

\* rm is recursive: it may have taken some of the files before it failed.
RemoveFails(d) ==
  LET r == First(Unremoved(d))
  IN  /\ dialog[d].pc = "removing"
      /\ Unremoved(d) # {}
      /\ cleanupFaults < MaxCleanupFaults
      /\ cleanupFaults' = cleanupFaults + 1
      /\ \E part \in BOOLEAN : damaged' = [damaged EXCEPT ![r] = part]
      /\ SetDialog(d, [dialog[d] EXCEPT !.pc = "restoring", !.back = Unremoved(d)])
      /\ UNCHANGED <<cleanupState, trail, place, cleanupCrashes>>

\* Every directory is gone: markDeleted, COMPLETED, and the answer.
AnswerDeleted(d) ==
  /\ dialog[d].pc = "removing"
  /\ Unremoved(d) = {}
  /\ cleanupState' = Marked(dialog[d].runs, "DELETED")
  /\ SetDialog(d, [dialog[d] EXCEPT !.pc = "answered",
                                 !.answer = [NoAnswer EXCEPT !.deleted = dialog[d].removed]])
  /\ UNCHANGED <<trail, cleanupDisk, cleanupFaults, cleanupCrashes>>

\* CleanupTrashMover.restore: in reverse, each failure counted.
Restore(d) ==
  LET r == Last(dialog[d].back)
  IN  /\ dialog[d].pc = "restoring"
      /\ dialog[d].back # {}
      /\ \/ /\ place' = [place EXCEPT ![r] = "runs"]
            /\ SetDialog(d, [dialog[d] EXCEPT !.back = @ \ {r}, !.restored = @ \cup {r}])
            /\ UNCHANGED cleanupFaults
         \/ /\ cleanupFaults < MaxCleanupFaults
            /\ cleanupFaults' = cleanupFaults + 1
            /\ SetDialog(d, [dialog[d] EXCEPT !.back = @ \ {r}, !.refused = TRUE])
            /\ UNCHANGED place
      /\ UNCHANGED <<cleanupState, trail, damaged, cleanupCrashes>>

\* Mutant: only what was seen to come back is looked at, so that a restore
\* that threw leaves nothing to report.
OutcomeOptimistic(d) ==
  [deleted |-> dialog[d].removed,
   restored |-> IF dialog[d].refused THEN {} ELSE dialog[d].restored,
   unresolved |-> {}]

(* execute's second catch: one failed rename makes restore throw, so every *)
(* run that was to be restored is answered unresolved, the ones that are   *)
(* back in their place too; the runs already removed become                *)
(* RECOVERY_REQUIRED with the others.                                      *)
Outcome(d) ==
  LET pending == Unremoved(d)
  IN  [deleted |-> dialog[d].removed,
       restored |-> IF dialog[d].refused THEN {} ELSE dialog[d].restored,
       unresolved |-> IF dialog[d].refused THEN pending ELSE pending \ dialog[d].restored]

AnswerRestored(d) ==
  /\ dialog[d].pc = "restoring"
  /\ dialog[d].back = {}
  /\ trail' = Appended("RUN_RESTORED", Outcome(d).restored)
  /\ cleanupState' = Marked(dialog[d].runs, "RECOVERY_REQUIRED")
  /\ SetDialog(d, [dialog[d] EXCEPT !.pc = "answered", !.answer = Outcome(d)])
  /\ UNCHANGED <<cleanupDisk, cleanupFaults, cleanupCrashes>>

\* The dialog is closed, and the preview read again.
Close(d) ==
  /\ dialog[d].pc \in {"open", "answered", "lost"}
  /\ SetDialog(d, Closed)
  /\ UNCHANGED <<cleanupState, trail, cleanupDisk, cleanupFaults, cleanupCrashes>>

Executing == {"moving", "rollback", "removing", "restoring"}

(* The server goes down and is launched again: nothing looks for runs that *)
(* are DELETING, or for directories in the trash.                          *)
CleanupRestart ==
  /\ cleanupCrashes < MaxCleanupCrashes
  /\ \E d \in Dialog : dialog[d].pc \in Executing
  /\ cleanupCrashes' = cleanupCrashes + 1
  /\ dialog' = [d \in Dialog |->
                  IF dialog[d].pc \in Executing THEN [Closed EXCEPT !.pc = "lost"] ELSE dialog[d]]
  /\ UNCHANGED <<cleanupState, trail, cleanupDisk, cleanupFaults>>

Advance(d) ==
  \/ Move(d) \/ MoveFails(d) \/ Undo(d) \/ AnswerNotMoved(d)
  \/ Remove(d) \/ RemoveFails(d) \/ AnswerDeleted(d)
  \/ Restore(d) \/ AnswerRestored(d)

CleanupNext ==
  \/ \E d \in Dialog : Select(d) \/ Confirm(d) \/ Expire(d) \/ Execute(d) \/ Advance(d) \/ Close(d)
  \/ CleanupRestart

CleanupSpec == CleanupInit /\ [][CleanupNext]_cleanupVars
-----------------------------------------------------------------------------
(* A run the database calls ACTIVE has all its files where they belong, and *)
(* one it calls DELETED has none left anywhere: at every await of every     *)
(* execution, and after a crash at any of them.                             *)
StateTellsThePlace ==
  \A r \in Runs :
    /\ cleanupState[r] = "ACTIVE" => place[r] = "runs" /\ ~ damaged[r]
    /\ cleanupState[r] = "DELETED" => place[r] = "gone"

(* Two executions never have a run in common, whatever their dialogs chose  *)
(* and however their awaits interleave: neither removes what the other puts *)
(* back.  It rests on markDeleting, since every dialog has a valid nonce.   *)
OneCleanupPerRun ==
  \A d, e \in Dialog :
    d # e /\ dialog[d].pc \in Executing /\ dialog[e].pc \in Executing
      => dialog[d].runs \cap dialog[e].runs = {}

(* Once the moves have succeeded, the answer the operator reads accounts    *)
(* for every run of the cleanup: what is gone is answered deleted, what is  *)
(* left in the trash unresolved, and what is answered restored is back.     *)
AnswerNamesWhatIsLost ==
  \A d \in Dialog : dialog[d].pc = "answered" /\ dialog[d].moved # {} =>
    LET a == dialog[d].answer
    IN  \A r \in dialog[d].runs :
          /\ place[r] = "gone" <=> r \in a.deleted
          /\ place[r] = "trash" => r \in a.unresolved
          /\ r \in a.restored => place[r] = "runs"

(* The database and the answers say where the files of a run are, and one  *)
(* cleanup at a time decides it.                                           *)
CleanupIsTrue ==
  CleanupTypeOK /\ StateTellsThePlace /\ OneCleanupPerRun /\ AnswerNamesWhatIsLost

(* "preserve/move back recoverable entries and label unresolved paths"      *)
(* (m10 plan, line 206): a run an answered cleanup left in the trash is     *)
(* named by the answer.                                                     *)
(* The code breaks it: README, Disagreements without a run.                 *)
UnresolvedAreLabelled ==
  \A d \in Dialog : dialog[d].pc = "answered" =>
    \A r \in dialog[d].runs : place[r] = "trash" => r \in dialog[d].answer.unresolved
=============================================================================
