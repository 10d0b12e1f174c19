--------------------------- MODULE ResultsConsole ---------------------------
(***************************************************************************)
(* The Results page (ResultsPage.tsx, ResultDetail.tsx) with the result    *)
(* routes (routes/results.ts, results-runtime.ts).  The page keeps a list  *)
(* of the ended runs and a copy of the one it shows in detail; a retried   *)
(* finalization is answered when it ends, an export when it is queued.     *)
(* What the server does in between is the subject of ReportFinalization.   *)
(***************************************************************************)
EXTENDS Naturals, FiniteSets

CONSTANTS
  ResultRun,     \* the ended runs
  ExportFormat,  \* the optional formats
  MaxCalls,      \* bound: requests the page sends
  MaxRevs        \* bound: changes of the history of a run

VARIABLES
  history,  \* what report-history-repository reads of each run
  results,  \* the page
  asked,    \* requests in flight
  sent      \* requests sent so far

resultVars == <<history, results, asked, sent>>

NoDetail == [run |-> "none", rev |-> 0, final |-> "none", exports |-> [f \in ExportFormat |-> "NONE"]]
Detail(r) == [run |-> r, rev |-> history[r].rev, final |-> history[r].final,
              exports |-> history[r].exports]

\* A request: list and load carry no run or formats, an answer what it brings.
Request(kind, r, formats) ==
  [n |-> sent + 1, kind |-> kind, run |-> r, formats |-> formats, answer |-> "none",
   list |-> [q \in ResultRun |-> 0], detail |-> NoDetail]

\* The page sends one request and changes by the way.
Sends(kind, r, formats, p) ==
  /\ sent < MaxCalls
  /\ sent' = sent + 1
  /\ asked' = asked \cup {Request(kind, r, formats)}
  /\ results' = p
  /\ UNCHANGED history

ResultsInit ==
  /\ history \in [ResultRun -> {[rev |-> 1, final |-> s, exports |-> [f \in ExportFormat |-> "NONE"]] :
                                  s \in {"COMPLETED", "FINALIZATION_FAILED", "INTERRUPTED"}}]
  /\ sent = 1
  /\ results = [listed |-> [r \in ResultRun |-> 0], loading |-> TRUE, selected |-> "none",
                detail |-> NoDetail, detailLoading |-> FALSE, detailError |-> FALSE,
                retrying |-> FALSE, exporting |-> FALSE,
                formats |-> {}, formatsOf |-> "none"]
  /\ asked = {[n |-> 1, kind |-> "list", run |-> "none", formats |-> {}, answer |-> "none",
               list |-> [q \in ResultRun |-> 0], detail |-> NoDetail]}
-----------------------------------------------------------------------------
(* The operator.                                                           *)

\* Mutant: the button that reads the history again is never disabled.
ReloadAlways(p) == p.selected = "none"

\* The list and its reload button are there while no detail is selected.
ReloadOffered(p) == p.selected = "none" /\ ~p.loading

LoadResults ==
  /\ ReloadOffered(results)
  /\ Sends("list", "none", {}, [results EXCEPT !.loading = TRUE])

OpenDetail(r) ==
  /\ results.selected = "none" /\ ~results.loading /\ results.listed[r] > 0
  /\ Sends("load", r, {},
       [results EXCEPT !.selected = r, !.detail = NoDetail, !.detailLoading = TRUE,
                       !.detailError = FALSE])

\* The detail of a run is rendered, with the formats picked in it.
Shown == /\ results.selected # "none" /\ ~results.detailLoading
         /\ ~results.detailError /\ results.detail.run # "none"

CloseDetail ==
  /\ Shown \/ (results.detailError /\ ~results.detailLoading)
  /\ results' = [results EXCEPT !.selected = "none", !.detail = NoDetail,
                                !.detailError = FALSE, !.formats = {}, !.formatsOf = "none"]
  /\ UNCHANGED <<history, asked, sent>>

PickFormat(f) ==
  /\ Shown /\ ~results.exporting
  /\ results' = [results EXCEPT !.formats = @ \cup {f}, !.formatsOf = results.detail.run]
  /\ UNCHANGED <<history, asked, sent>>

RetryFinalization ==
  /\ Shown /\ ~results.retrying
  /\ results.detail.final \in {"FINALIZATION_FAILED", "INTERRUPTED"}
  /\ Sends("retry", results.detail.run, {}, [results EXCEPT !.retrying = TRUE])

\* The form sends the picked formats; the row of a failed export its own.
RequestExports(formats) ==
  /\ Shown /\ ~results.exporting /\ formats # {}
  /\ \/ formats = results.formats
     \/ \E f \in ExportFormat : formats = {f} /\ results.detail.exports[f] = "FAILED"
  /\ Sends("exports", results.detail.run, formats, [results EXCEPT !.exporting = TRUE])
-----------------------------------------------------------------------------
(* The server.                                                             *)

Answered(c, how) ==
  (asked \ {c}) \cup {[c EXCEPT !.answer = how,
                                !.list = [r \in ResultRun |-> history[r].rev],
                                !.detail = IF c.run = "none" THEN NoDetail ELSE Detail(c.run)]}

ServeRead(c) ==
  /\ c \in asked /\ c.answer = "none" /\ c.kind \in {"list", "load"}
  /\ asked' = Answered(c, "ok")
  /\ UNCHANGED <<history, results, sent>>

ServeRetry(c) ==
  /\ c \in asked /\ c.answer = "none" /\ c.kind = "retry"
  /\ history[c.run].final \in {"FINALIZATION_FAILED", "INTERRUPTED"}
  /\ history[c.run].rev < MaxRevs
  /\ history' = [history EXCEPT ![c.run].final = "FINALIZING", ![c.run].rev = @ + 1]
  /\ asked' = (asked \ {c}) \cup {[c EXCEPT !.answer = "awaited"]}
  /\ UNCHANGED <<results, sent>>

\* The finalization ends: its request is answered with the run as it is then,
\* or, if it failed, with the error.
EndRetry(c, state) ==
  /\ c \in asked /\ c.answer = "awaited"
  /\ history' = [history EXCEPT ![c.run].final = state, ![c.run].rev = @ + 1]
  /\ asked' = (asked \ {c}) \cup
       {IF state = "COMPLETED"
        THEN [c EXCEPT !.answer = "ok",
                       !.detail = [Detail(c.run) EXCEPT !.final = state, !.rev = @ + 1]]
        ELSE [c EXCEPT !.answer = "failed"]}
  /\ UNCHANGED <<results, sent>>

ServeExports(c) ==
  LET queued == [f \in ExportFormat |-> IF f \in c.formats THEN "PENDING"
                                        ELSE history[c.run].exports[f]]
  IN /\ c \in asked /\ c.answer = "none" /\ c.kind = "exports"
     /\ history[c.run].rev < MaxRevs
     /\ history' = [history EXCEPT ![c.run].exports = queued, ![c.run].rev = @ + 1]
     /\ asked' = (asked \ {c}) \cup
          {[c EXCEPT !.answer = "ok",
                     !.detail = [Detail(c.run) EXCEPT !.exports = queued, !.rev = @ + 1]]}
     /\ UNCHANGED <<results, sent>>

\* A request is refused or its answer lost.
FailCall(c) ==
  /\ c \in asked /\ c.answer = "none"
  /\ asked' = (asked \ {c}) \cup {[c EXCEPT !.answer = "failed"]}
  /\ UNCHANGED <<history, results, sent>>

\* An export that is queued is written or fails.
EndExport(r, f, state) ==
  /\ history[r].exports[f] = "PENDING"
  /\ history' = [history EXCEPT ![r].exports[f] = state, ![r].rev = @ + 1]
  /\ UNCHANGED <<results, asked, sent>>
-----------------------------------------------------------------------------
(* The answers.                                                            *)

\* What the page does with the answer to c, and in the end of its handler.
\* Picked formats go with the form when a loading detail replaces it.
Taken(p, c) ==
  CASE c.kind = "list" -> [p EXCEPT !.loading = FALSE,
                                    !.listed = IF c.answer = "ok" THEN c.list ELSE @]
    [] c.kind = "load" -> [p EXCEPT !.detailLoading = FALSE, !.detailError = c.answer # "ok",
                                    !.detail = IF c.answer = "ok" THEN c.detail ELSE @]
    [] c.kind = "retry" -> [p EXCEPT !.retrying = FALSE,
                                     !.detail = IF c.answer = "ok" THEN c.detail ELSE @]
    [] c.kind = "exports" -> [p EXCEPT !.exporting = FALSE,
                                       !.detail = IF c.answer = "ok" THEN c.detail ELSE @,
                                       !.formats = IF c.answer = "ok" THEN {} ELSE @]

ReceiveAnswer(c) ==
  /\ c \in asked /\ c.answer \in {"ok", "failed"}
  /\ asked' = asked \ {c}
  /\ results' = Taken(results, c)
  /\ UNCHANGED <<history, sent>>

ResultsNext ==
  \/ LoadResults \/ CloseDetail \/ RetryFinalization
  \/ \E r \in ResultRun : OpenDetail(r)
  \/ \E f \in ExportFormat :
       \/ PickFormat(f)
       \/ \E r \in ResultRun, state \in {"READY", "FAILED"} : EndExport(r, f, state)
  \/ \E formats \in SUBSET ExportFormat : RequestExports(formats)
  \/ \E c \in asked :
       \/ ServeRead(c) \/ ServeRetry(c) \/ ServeExports(c) \/ FailCall(c) \/ ReceiveAnswer(c)
       \/ \E state \in {"COMPLETED", "FINALIZATION_FAILED"} : EndRetry(c, state)

ResultsSpec == ResultsInit /\ [][ResultsNext]_resultVars
-----------------------------------------------------------------------------
ResultsTypeOK ==
  /\ \A r \in ResultRun : history[r].final \in
       {"COMPLETED", "FINALIZING", "FINALIZATION_FAILED", "INTERRUPTED"}
  /\ results.selected \in ResultRun \cup {"none"}
  /\ results.formats \subseteq ExportFormat
  /\ \A c \in asked : c.answer \in {"none", "awaited", "ok", "failed"}

\* The list of results never goes back to what a run was before
\* (ResultsPage.tsx, loading: one reading of the history at a time).
ListNeverGoesBack ==
  [][\A r \in ResultRun : results'.listed[r] >= results.listed[r]]_resultVars

\* The detail on the screen is of the run the operator opened: the answer to
\* a retry or an export of a run he left is not shown in its place.
\* The code breaks it: README, Disagreements without a run.
ShownDetailIsSelected == Shown => results.detail.run = results.selected

\* Exports are asked of the run whose formats were picked.
\* The code breaks it: README, Disagreements without a run.
ExportsAreOfThePickedRun ==
  Shown /\ results.formats # {} => results.formatsOf = results.detail.run
=============================================================================
