--------------------------- MODULE CleanupConsole ---------------------------
(***************************************************************************)
(* Retention and cleanup on the Settings page (SettingsPage.tsx,           *)
(* CleanupPreviewPanel.tsx, CleanupDialog.tsx, App.tsx) with the cleanup   *)
(* and settings routes.  The panel reads the preview again whenever the    *)
(* days in the field change, so that several readings may be under way and *)
(* their answers may come in any order; the dialog lists what is selected  *)
(* of the latest answer, also while it is open.                            *)
(* What the server does to the runs is the subject of EvidenceCleanup.     *)
(***************************************************************************)
EXTENDS Naturals, FiniteSets

CONSTANTS
  CleanupRun,  \* the ended runs
  Age,         \* days since each run ended
  Days,        \* what the operator types into the field
  MaxLoads,    \* bound: previews read
  MaxSaves     \* bound: settings saved

ASSUME CleanupConsoleAssumption ==
  /\ Age \in [CleanupRun -> Nat] /\ Days \subseteq Nat
  /\ MaxLoads \in Nat /\ MaxSaves \in Nat

VARIABLES
  remaining,  \* runs the database has not marked DELETED
  panel,      \* SettingsPage and CleanupPreviewPanel
  dialog,     \* CleanupDialog
  loading,    \* previews under way
  saving,     \* settings under way to the page: the first reading or a save
  wanted      \* runs the operator has ticked in the table, himself

cleanupConsoleVars == <<remaining, panel, dialog, loading, saving, wanted>>

NoDialog == [open |-> FALSE, acknowledged |-> FALSE, readList |-> {}, phase |-> "CONFIRM",
             at |-> "none", runs |-> {}, answer |-> "none"]

Preview(n, d) == [n |-> n, days |-> d, answer |-> "none", runs |-> {}]

CleanupConsoleInit ==
  \E d \in Days :
    /\ remaining = CleanupRun
    /\ panel = [days |-> d, ok |-> FALSE, runs |-> {}, of |-> d, selected |-> {},
                loading |-> TRUE, loads |-> 1]
    /\ dialog = NoDialog
    /\ loading = {Preview(1, d)}
    /\ saving \in [state : {"reading"}, days : Days, left : {MaxSaves}]
    /\ wanted = {}
-----------------------------------------------------------------------------
(* The panel.                                                              *)

\* load of the panel with d days in the field, by which p is changed.
Loads(p, d) ==
  /\ p.loads < MaxLoads
  /\ loading' = loading \cup {Preview(p.loads + 1, d)}
  /\ panel' = [p EXCEPT !.days = d, !.loading = TRUE, !.loads = @ + 1]

\* Another number in the field is another preview.
TypeDays(d) ==
  /\ ~dialog.open /\ d # panel.days
  /\ Loads(panel, d)
  /\ UNCHANGED <<remaining, dialog, saving, wanted>>

\* The refresh button of the panel waits for the reading under way, that of
\* the page only for a save.
Reload ==
  /\ ~dialog.open
  /\ ~panel.loading \/ saving.state # "saving"
  /\ Loads(panel, panel.days)
  /\ UNCHANGED <<remaining, dialog, saving, wanted>>

ServePreview(l) ==
  /\ l \in loading /\ l.answer = "none"
  /\ \E how \in {"ok", "failed"} :
       loading' = (loading \ {l}) \cup
         {[l EXCEPT !.answer = how,
                    !.runs = IF how = "ok" THEN {r \in remaining : Age[r] >= l.days} ELSE {}]}
  /\ UNCHANGED <<remaining, panel, dialog, saving, wanted>>

ReceivePreview(l) ==
  /\ l \in loading /\ l.answer # "none"
  /\ loading' = loading \ {l}
  /\ panel' = IF l.answer = "ok"
              THEN [panel EXCEPT !.ok = TRUE, !.runs = l.runs, !.of = l.days,
                                 !.selected = @ \cap l.runs, !.loading = FALSE]
              ELSE [panel EXCEPT !.ok = FALSE, !.runs = {}, !.loading = FALSE]
  /\ UNCHANGED <<remaining, dialog, saving, wanted>>

\* The table is there when a preview is.
TableShown == ~panel.loading /\ panel.ok /\ ~dialog.open

ToggleRun(r) ==
  /\ TableShown /\ r \in panel.runs
  /\ LET flip(S) == IF r \in panel.selected THEN S \ {r} ELSE S \cup {r}
     IN /\ panel' = [panel EXCEPT !.selected = flip(@)]
        /\ wanted' = flip(wanted)
  /\ UNCHANGED <<remaining, dialog, loading, saving>>

ToggleAll ==
  /\ TableShown
  /\ LET chosen == IF panel.runs # {} /\ panel.selected = panel.runs THEN {} ELSE panel.runs
     IN /\ panel' = [panel EXCEPT !.selected = chosen]
        /\ wanted' = chosen
  /\ UNCHANGED <<remaining, dialog, loading, saving>>

\* Mutant: the dialog is given every candidate.
AllCandidates(p) == p.runs

selectedCandidates(p) == p.selected \cap p.runs
-----------------------------------------------------------------------------
(* The settings.                                                           *)

\* save sends the days in the field.
SaveSettings ==
  /\ saving.state = "idle" /\ saving.left > 0 /\ ~dialog.open
  /\ saving' = [state |-> "saving", days |-> panel.days, left |-> saving.left - 1]
  /\ UNCHANGED <<remaining, panel, dialog, loading, wanted>>

\* The settings arrive, and with them the days the server keeps replace those
\* in the field, also while the dialog is open.
SettingsArrive ==
  /\ saving.state # "idle"
  /\ saving' = [saving EXCEPT !.state = "idle"]
  /\ IF saving.days = panel.days
     THEN UNCHANGED <<panel, loading>>
     ELSE Loads(panel, saving.days)
  /\ UNCHANGED <<remaining, dialog, wanted>>

SettingsFail ==
  /\ saving.state # "idle"
  /\ saving' = [saving EXCEPT !.state = "idle"]
  /\ UNCHANGED <<remaining, panel, dialog, loading, wanted>>
-----------------------------------------------------------------------------
(* The dialog.                                                             *)

OpenDialog ==
  /\ TableShown /\ selectedCandidates(panel) # {}
  /\ dialog' = [NoDialog EXCEPT !.open = TRUE]
  /\ UNCHANGED <<remaining, panel, loading, saving, wanted>>

\* The box below the list is ticked or unticked.
Acknowledge ==
  /\ dialog.open /\ dialog.phase = "CONFIRM"
  /\ dialog' = [dialog EXCEPT !.acknowledged = ~@, !.readList = selectedCandidates(panel)]
  /\ UNCHANGED <<remaining, panel, loading, saving, wanted>>

\* runCleanup keeps the runs it was started with.
RunCleanup ==
  /\ dialog.open /\ dialog.phase = "CONFIRM" /\ dialog.acknowledged
  /\ dialog' = [dialog EXCEPT !.phase = "EXECUTING", !.at = "confirm",
                              !.runs = selectedCandidates(panel), !.answer = "none"]
  /\ UNCHANGED <<remaining, panel, loading, saving, wanted>>

\* The confirmation is issued, if it names a run.
ServeConfirmation ==
  /\ dialog.at = "confirm" /\ dialog.answer = "none"
  /\ dialog' = [dialog EXCEPT !.answer = IF dialog.runs = {} THEN "failed" ELSE "ok"]
  /\ UNCHANGED <<remaining, panel, loading, saving, wanted>>

\* The cleanup is executed, as a whole or not at all; its answer may be lost.
ServeExecute ==
  /\ dialog.at = "execute" /\ dialog.answer = "none" /\ dialog.runs \subseteq remaining
  /\ remaining' = remaining \ dialog.runs
  /\ \E how \in {"ok", "failed"} : dialog' = [dialog EXCEPT !.answer = how]
  /\ UNCHANGED <<panel, loading, saving, wanted>>

CleanupCallFails ==
  /\ dialog.at # "none" /\ dialog.answer = "none"
  /\ dialog' = [dialog EXCEPT !.answer = "failed"]
  /\ UNCHANGED <<remaining, panel, loading, saving, wanted>>

\* The answer: after the confirmation comes the execution, then the audit,
\* with which the result is shown whether or not it could be read.
ReceiveCleanup ==
  /\ dialog.answer # "none"
  /\ dialog' =
       CASE dialog.at = "events" ->
              [dialog EXCEPT !.phase = "RESULT", !.at = "none", !.answer = "none"]
         [] dialog.at # "events" /\ dialog.answer = "failed" ->
              [dialog EXCEPT !.phase = "CONFIRM", !.at = "none", !.answer = "none"]
         [] OTHER -> [dialog EXCEPT !.at = IF @ = "confirm" THEN "execute" ELSE "events",
                                    !.answer = "none"]
  /\ UNCHANGED <<remaining, panel, loading, saving, wanted>>

ServeEvents ==
  /\ dialog.at = "events" /\ dialog.answer = "none"
  /\ dialog' = [dialog EXCEPT !.answer = "ok"]
  /\ UNCHANGED <<remaining, panel, loading, saving, wanted>>

CloseDialog ==
  /\ dialog.open /\ dialog.phase # "EXECUTING"
  /\ dialog' = NoDialog
  /\ Loads(panel, panel.days)
  /\ UNCHANGED <<remaining, saving, wanted>>
-----------------------------------------------------------------------------
CleanupConsoleNext ==
  \/ \E d \in Days : TypeDays(d)
  \/ Reload \/ ToggleAll \/ SaveSettings \/ SettingsArrive \/ SettingsFail
  \/ \E l \in loading : ServePreview(l) \/ ReceivePreview(l)
  \/ \E r \in CleanupRun : ToggleRun(r)
  \/ OpenDialog \/ Acknowledge \/ RunCleanup \/ CloseDialog
  \/ ServeConfirmation \/ ServeExecute \/ ServeEvents \/ CleanupCallFails \/ ReceiveCleanup

CleanupConsoleSpec == CleanupConsoleInit /\ [][CleanupConsoleNext]_cleanupConsoleVars
-----------------------------------------------------------------------------
CleanupConsoleTypeOK ==
  /\ remaining \subseteq CleanupRun
  /\ panel.selected \subseteq CleanupRun /\ panel.runs \subseteq CleanupRun
  /\ dialog.phase \in {"CONFIRM", "EXECUTING", "RESULT"}
  /\ dialog.at \in {"none", "confirm", "execute", "events"}
  /\ saving.state \in {"reading", "saving", "idle"}
  /\ wanted \subseteq CleanupRun

\* A cleanup deletes only runs that the operator himself ticked in the table
\* and did not untick himself, whatever previews arrive between the table, the
\* dialog and the execution (CleanupPreviewPanel.tsx, selectedCandidates).
DeletesOnlyWhatWasSelected == [][remaining \ remaining' \subseteq wanted]_cleanupConsoleVars

\* "I have checked the runs above" (CleanupDialog.tsx:118): the runs that
\* are deleted are among those the dialog listed when the box was ticked.
\* The code breaks it: README, Disagreements without a run.
DeletesOnlyWhatWasRead ==
  [][remaining \ remaining' \subseteq dialog.readList]_cleanupConsoleVars

\* The candidates on the screen are those of the days in the field.
\* The code breaks it: README, Disagreements without a run.
PreviewIsOfTheDays == TableShown => panel.of = panel.days
=============================================================================
