--------------------------- MODULE ConsoleProofs ---------------------------
(***************************************************************************)
(* What the pages of the console and the live view keep, for any number of *)
(* runs, devices, requests, sockets and viewers.                           *)
(***************************************************************************)
EXTENDS MCConsole, SequenceTheorems, TLAPS

(***************************************************************************)
(* Retention and cleanup.                                                  *)
(***************************************************************************)

PanelType ==
  [days : Days, ok : BOOLEAN, runs : SUBSET CleanupRun, of : Days,
   selected : SUBSET CleanupRun, loading : BOOLEAN, loads : Nat]

DialogType ==
  [open : BOOLEAN, acknowledged : BOOLEAN, readList : SUBSET CleanupRun,
   phase : {"CONFIRM", "EXECUTING", "RESULT"},
   at : {"none", "confirm", "execute", "events"}, runs : SUBSET CleanupRun,
   answer : {"none", "ok", "failed"}]

PreviewType ==
  [n : Nat, days : Days, answer : {"none", "ok", "failed"}, runs : SUBSET CleanupRun]

SavingType == [state : {"reading", "saving", "idle"}, days : Days, left : Nat]

CleanupTyped ==
  /\ remaining \subseteq CleanupRun /\ wanted \subseteq CleanupRun
  /\ panel \in PanelType /\ dialog \in DialogType
  /\ loading \subseteq PreviewType /\ saving \in SavingType

\* What is selected the operator ticked; the runs a dialog is at work on were
\* selected when it was started, and while it is open nothing is ticked.
CleanupInv ==
  /\ CleanupTyped
  /\ panel.selected \subseteq wanted
  /\ dialog.phase = "EXECUTING" => dialog.open
  /\ dialog.at # "none" => dialog.phase = "EXECUTING" /\ dialog.runs \subseteq wanted
  /\ dialog.answer # "none" => dialog.at # "none"

(***************************************************************************)
(* The Results page.                                                       *)
(***************************************************************************)

ExportsType == [ExportFormat -> {"NONE", "PENDING", "READY", "FAILED"}]
Finals == {"COMPLETED", "FINALIZING", "FINALIZATION_FAILED", "INTERRUPTED"}
HistoryType == [rev : Nat, final : Finals, exports : ExportsType]

DetailType ==
  [run : ResultRun \cup {"none"}, rev : Nat, final : Finals \cup {"none"},
   exports : ExportsType]

RequestType ==
  [n : Nat, kind : {"list", "load", "retry", "exports"}, run : ResultRun \cup {"none"},
   formats : SUBSET ExportFormat, answer : {"none", "awaited", "ok", "failed"},
   list : [ResultRun -> Nat], detail : DetailType]

ResultsType ==
  [listed : [ResultRun -> Nat], loading : BOOLEAN, selected : ResultRun \cup {"none"},
   detail : DetailType, detailLoading : BOOLEAN, detailError : BOOLEAN,
   retrying : BOOLEAN, exporting : BOOLEAN, formats : SUBSET ExportFormat,
   formatsOf : ResultRun \cup {"none"}]

ResultsTyped ==
  /\ history \in [ResultRun -> HistoryType]
  /\ results \in ResultsType
  /\ asked \subseteq RequestType
  /\ sent \in Nat

\* Only a retry is awaited, and all but a list are about a run.
RequestsAreFormed ==
  \A c \in asked :
    /\ c.answer = "awaited" => c.kind = "retry"
    /\ c.kind # "list" => c.run \in ResultRun

\* One reading of the list at a time, while the page says that it loads.
OneReading ==
  /\ \A c \in asked : c.kind = "list" => results.loading
  /\ \A c, e \in asked : c.kind = "list" /\ e.kind = "list" => c = e

\* Neither the list nor the answer on its way is ahead of the history, and
\* the answer is not behind the list.
ListIsBehind ==
  /\ \A r \in ResultRun : results.listed[r] <= history[r].rev
  /\ \A c \in asked : c.kind = "list" /\ c.answer = "ok" =>
       \A r \in ResultRun : results.listed[r] <= c.list[r] /\ c.list[r] <= history[r].rev

ResultsInv == ResultsTyped /\ RequestsAreFormed /\ OneReading /\ ListIsBehind

(***************************************************************************)
(* The Devices page.                                                       *)
(***************************************************************************)

DevicesType == [Device -> 0 .. MaxChanges]
ListType ==
  [shown : BOOLEAN, devices : DevicesType, loading : BOOLEAN, error : BOOLEAN, late : BOOLEAN]
EventType ==
  [type : {"snapshot", "device.upserted", "device.connectionChanged", "uid.updated"},
   eventSeq : Nat]
ReadType ==
  [kind : {"list", "tags"}, device : Device \cup {"none"},
   answer : {"none", "ok", "failed"}, devices : DevicesType, overtaken : BOOLEAN]

StreamTyped ==
  /\ record \in DevicesType
  /\ eventSeq \in Nat /\ uidSeq \in Nat
  /\ stream \in {"none", "open", "closed"}
  /\ wire \in Seq(EventType)
  /\ list \in ListType
  /\ reads \in Seq(ReadType)
  /\ \A i \in DOMAIN reads : reads[i].kind = "tags" => reads[i].device \in Device

\* The answers from the i-th request on bring the devices as they are now.
FreshFrom(i) ==
  \A j \in DOMAIN reads : i <= j /\ reads[j].answer = "ok" => reads[j].devices = record

\* The list is what the registry keeps, or says that it is not, or is one
\* that was overtaken, and so are the answers under way that are not that.
UpToDate ==
  /\ \A j \in DOMAIN reads :
       reads[j].answer = "ok" /\ ~reads[j].overtaken => reads[j].devices = record
  /\ list.devices = record \/ list.error \/ list.late

\* A list is under way that is not overtaken, and from it on no answer is stale.
AskedAgain(i) == reads[i].kind = "list" /\ ~reads[i].overtaken /\ FreshFrom(i)

\* When no event is on its way, the list is up to date or was asked for again.
ListCatchesUp ==
  list.shown /\ stream = "open" /\ wire = <<>> =>
    UpToDate \/ \E i \in DOMAIN reads : AskedAgain(i)

StreamInv == StreamTyped /\ ListCatchesUp

(***************************************************************************)
(* The live view.                                                          *)
(***************************************************************************)

ProviderType ==
  [serial : ViewSerial, state : {"STOPPED", "STARTING", "READY", "DEGRADED", "ERROR"},
   active : {"none", "primary", "fallback"}, step : {"idle", "primary", "fallback"},
   caller : Nat, tango : {"STOPPED", "STARTING", "READY", "ERROR"},
   transport : {"closed", "running", "ended"},
   shots : {"STOPPED", "STARTING", "DEGRADED"},
   listeners : SUBSET Nat, fed : SUBSET Nat]

SocketType ==
  [serial : ViewSerial, phase : {"dialled", "awaiting", "subscribed", "closed"},
   provider : Nat, gone : BOOLEAN, goneEarly : BOOLEAN]

ViewType ==
  [serial : ViewSerial \cup {"none"}, socket : Nat,
   status : {"idle", "connecting", "ready", "degraded", "error"},
   picture : ViewSerial \cup {"none"}, afterError : BOOLEAN]

LiveTyped ==
  /\ isOnline \in [ViewSerial -> BOOLEAN]
  /\ closing \in BOOLEAN
  /\ providers \in [ViewSerial -> 0 .. MaxProviders]
  /\ prov \in Seq(ProviderType)
  /\ socket \in Seq(SocketType)
  /\ view \in ViewType
  /\ drawing \subseteq [socket : Opened, kind : {"jpeg", "h264"}]

\* A provider's listeners are sockets, and so is who waits for its start; it
\* takes screenshots only when its transport is closed, and then it is the
\* fallback that is active and no start is under way.
ProviderSound(v) ==
  /\ v.fed \subseteq v.listeners /\ v.listeners \subseteq Opened
  /\ v.step # "idle" => v.caller \in Opened
  /\ v.step = "fallback" => v.transport = "closed"
  /\ v.shots = "DEGRADED" => v.transport = "closed" /\ v.active = "fallback" /\ v.step = "idle"

ProvidersSound == \A p \in Created : ProviderSound(prov[p])

\* The viewport's socket is the last one opened, and of the device it is set
\* to; without one it shows nothing.
ViewSound ==
  /\ view.socket = Len(socket)
  /\ view.socket = 0 => view.status = "idle"
  /\ view.socket # 0 => view.serial = socket[view.socket].serial
  /\ PictureIsOfTheSerial

\* The map of the coordinator names providers that were created.
MapSound == \A s \in ViewSerial : providers[s] <= Len(prov)

LiveInv == LiveTyped /\ ProvidersSound /\ ViewSound /\ MapSound

(***************************************************************************)
(* The Sessions page.                                                      *)
(***************************************************************************)

RunStates == {"CREATED", "PREFLIGHT", "RUNNING", "PAUSED", "FINISHED"}

RunType ==
  [state : RunStates, epoch : 1 .. MaxEpoch, leader : RunMember,
   members : SUBSET RunMember, out : SUBSET RunMember, log : 0 .. MaxLog]

SessionType ==
  [run : Nat, state : RunStates \cup {"none"}, epoch : Nat,
   leader : RunMember \cup {"none"}, members : SUBSET RunMember, out : SUBSET RunMember]

PageType == [session : SessionType, log : Nat]

RequestNames == Handler \cup {"preflight", "start"}

CallType ==
  [at : RequestNames \cup {"idle"}, shown : Nat, epoch : Nat,
   target : RunMember \cup {"none"}, answer : {"none", "ok", "failed"},
   view : SessionType, log : Nat]

AdriftType == [request : RequestNames, run : Nat, target : RunMember \cup {"none"}]

ConsoleTyped ==
  /\ runs \in Seq(RunType)
  /\ page \in PageType
  /\ call \in [Handler -> CallType]
  /\ adrift \subseteq AdriftType
  /\ lost \in Nat
  /\ visits \in 1 .. MaxVisits

\* The leader of a run takes part in it and is not out.
RunSound(q) == q.leader \in q.members \ q.out /\ q.out \subseteq q.members

\* Copy v of a run that exists is not newer than the run.
CopyOfRun(v) == v.run \in DOMAIN runs /\ NotOlder(v, runs[v.run])

\* The page shows nothing, or a copy of a run and of its log.
PageSound ==
  /\ page.session.run = 0 => page.log = 0 /\ page.session.state = "none"
  /\ page.session.run # 0 =>
       CopyOfRun(page.session) /\ page.log <= runs[page.session.run].log

\* Requests that read or change the run shown to the handler.
AboutRun(request) == request \notin {"idle", "create", "devices"}

\* A handler under way is about the run on the page, or creates one while
\* there is none; its answer is between the page and the run.
CallSound(c) ==
  /\ c.at = "idle" => c.answer = "none"
  /\ AboutRun(c.at) => page.session.run # 0 /\ c.shown = page.session.run
  /\ c.at = "create" => page.session.run = 0
  /\ c.answer = "ok" /\ c.at \notin {"devices", "retry", "skip", "actions"} =>
       /\ c.view.run = c.shown /\ c.view.run # 0 /\ CopyOfRun(c.view)
       /\ page.session.run # 0 => NotOlder(page.session, c.view)
  /\ c.answer = "ok" /\ c.at = "actions" =>
       page.log <= c.log /\ c.log <= runs[c.shown].log

\* Requests of a page that was left are about runs that exist.
AdriftSound == \A a \in adrift : a.request = "create" \/ a.run \in DOMAIN runs

ConsoleInv ==
  /\ ConsoleTyped
  /\ \A r \in DOMAIN runs : RunSound(runs[r])
  /\ PageSound
  /\ \A h \in Handler : CallSound(call[h])
  /\ \A h, g \in Handler : call[h].at # "idle" /\ call[g].at # "idle" => h = g
  /\ AdriftSound

-----------------------------------------------------------------------------
PagesInv == ConsoleInv /\ ResultsInv /\ CleanupInv /\ StreamInv /\ LiveInv
-----------------------------------------------------------------------------
(* Retention and cleanup: the steps.                                       *)

LEMMA CleanupStarts == CleanupConsoleInit => CleanupInv
<1>1. SUFFICES ASSUME CleanupConsoleInit PROVE CleanupInv
  OBVIOUS
<1>2. PICK d \in Days :
        /\ panel = [days |-> d, ok |-> FALSE, runs |-> {}, of |-> d, selected |-> {},
                    loading |-> TRUE, loads |-> 1]
        /\ loading = {Preview(1, d)}
  BY <1>1 DEF CleanupConsoleInit
<1>3. panel \in PanelType
  BY <1>2 DEF PanelType
<1>4. loading \subseteq PreviewType
  BY <1>2 DEF Preview, PreviewType
<1>5. dialog \in DialogType
  BY <1>1 DEF CleanupConsoleInit, NoDialog, DialogType
<1>6. saving \in SavingType
  BY <1>1, CleanupConsoleAssumption DEF CleanupConsoleInit, SavingType
<1> QED
  BY <1>1, <1>2, <1>3, <1>4, <1>5, <1>6
  DEF CleanupConsoleInit, NoDialog, CleanupInv, CleanupTyped

LEMMA LoadsTyped ==
  ASSUME NEW d \in Days, CleanupTyped, Loads(panel, d)
  PROVE  /\ panel' \in PanelType /\ loading' \subseteq PreviewType
         /\ panel'.selected = panel.selected
<1>1. panel.loads + 1 \in Nat
  BY DEF CleanupTyped, PanelType
<1>2. panel' \in PanelType /\ panel'.selected = panel.selected
  BY <1>1 DEF Loads, CleanupTyped, PanelType
<1>3. Preview(panel.loads + 1, d) \in PreviewType
  BY <1>1 DEF Preview, PreviewType
<1> QED
  BY <1>2, <1>3 DEF Loads, CleanupTyped

LEMMA PanelIsRead ==
  ASSUME CleanupInv, NEW d \in Days, Loads(panel, d),
         UNCHANGED <<remaining, dialog, wanted>>, saving' \in SavingType
  PROVE  CleanupInv' /\ remaining \ remaining' = {}
<1>1. CleanupTyped
  BY DEF CleanupInv
<1>2. /\ panel' \in PanelType /\ loading' \subseteq PreviewType
      /\ panel'.selected = panel.selected
  BY <1>1, LoadsTyped
<1>3. CleanupTyped'
  BY <1>1, <1>2 DEF CleanupTyped
<1> QED
  BY <1>2, <1>3 DEF CleanupInv

LEMMA PreviewsAreServed ==
  ASSUME CleanupInv, NEW l \in loading, ServePreview(l) \/ ReceivePreview(l)
  PROVE  CleanupInv' /\ remaining \ remaining' = {}
<1>1. CleanupTyped /\ l \in PreviewType /\ panel \in PanelType
  BY DEF CleanupInv, CleanupTyped
<1>2. CASE ServePreview(l)
  <2>1. PICK how \in {"ok", "failed"} :
          loading' = (loading \ {l}) \cup
            {[l EXCEPT !.answer = how,
                       !.runs = IF how = "ok" THEN {r \in remaining : Age[r] >= l.days} ELSE {}]}
    BY <1>2 DEF ServePreview
  <2> DEFINE found == IF how = "ok" THEN {r \in remaining : Age[r] >= l.days} ELSE {}
  <2>2. found \in SUBSET CleanupRun
    BY <1>1 DEF CleanupTyped
  <2>3. loading' = (loading \ {l}) \cup {[l EXCEPT !.answer = how, !.runs = found]}
    BY <2>1
  <2> HIDE DEF found
  <2>4. [l EXCEPT !.answer = how, !.runs = found] \in PreviewType
    BY <1>1, <2>2 DEF PreviewType
  <2>5. loading' \subseteq PreviewType
    BY <1>1, <2>3, <2>4 DEF CleanupTyped
  <2>6. CleanupTyped'
    BY <1>1, <1>2, <2>5 DEF CleanupTyped, ServePreview
  <2> QED
    BY <1>2, <2>6 DEF CleanupInv, ServePreview
<1>3. CASE ReceivePreview(l)
  <2>1. panel' \in PanelType /\ panel'.selected \subseteq panel.selected
    BY <1>1, <1>3 DEF PanelType, PreviewType, ReceivePreview
  <2>2. CleanupTyped'
    BY <1>1, <1>3, <2>1 DEF CleanupTyped, ReceivePreview
  <2> QED
    BY <1>3, <2>1, <2>2 DEF CleanupInv, ReceivePreview
<1> QED
  BY <1>2, <1>3

LEMMA TicksAreWanted ==
  ASSUME CleanupInv, ToggleAll \/ \E r \in CleanupRun : ToggleRun(r)
  PROVE  CleanupInv' /\ remaining \ remaining' = {}
<1>1. CleanupTyped /\ panel \in PanelType /\ ~dialog.open /\ wanted \subseteq CleanupRun
  BY DEF CleanupInv, CleanupTyped, ToggleAll, ToggleRun, TableShown
<1>2. /\ panel' \in PanelType /\ panel'.selected \subseteq wanted'
      /\ wanted' \subseteq CleanupRun
  <2>1. CASE ToggleAll
    BY <1>1, <2>1 DEF ToggleAll, PanelType
  <2>2. ASSUME NEW r \in CleanupRun, ToggleRun(r)
        PROVE  /\ panel' \in PanelType /\ panel'.selected \subseteq wanted'
               /\ wanted' \subseteq CleanupRun
    <3>1. CASE r \in panel.selected
      <4>1. panel' = [panel EXCEPT !.selected = panel.selected \ {r}] /\ wanted' = wanted \ {r}
        BY <1>1, <2>2, <3>1 DEF ToggleRun, PanelType
      <4> QED
        BY <1>1, <4>1 DEF PanelType, CleanupInv
    <3>2. CASE r \notin panel.selected
      <4>1. /\ panel' = [panel EXCEPT !.selected = panel.selected \cup {r}]
            /\ wanted' = wanted \cup {r}
        BY <1>1, <2>2, <3>2 DEF ToggleRun, PanelType
      <4> QED
        BY <1>1, <4>1 DEF PanelType, CleanupInv
    <3> QED
      BY <3>1, <3>2
  <2> QED
    BY <2>1, <2>2
<1>3. UNCHANGED <<remaining, dialog, loading, saving>>
  BY DEF ToggleAll, ToggleRun
<1>4. CleanupTyped'
  BY <1>1, <1>2, <1>3 DEF CleanupTyped
<1> QED
  BY <1>1, <1>2, <1>3, <1>4 DEF CleanupInv

LEMMA SettingsChange ==
  ASSUME CleanupInv, SaveSettings \/ SettingsArrive \/ SettingsFail
  PROVE  CleanupInv' /\ remaining \ remaining' = {}
<1>1. CleanupTyped /\ saving \in SavingType /\ panel.days \in Days /\ saving.days \in Days
  BY DEF CleanupInv, CleanupTyped, SavingType, PanelType
<1>2. saving' \in SavingType
  BY <1>1 DEF SaveSettings, SettingsArrive, SettingsFail, SavingType
<1>3. CASE UNCHANGED <<panel, loading>>
  <2>1. UNCHANGED <<remaining, panel, dialog, loading, wanted>>
    BY <1>3 DEF SaveSettings, SettingsArrive, SettingsFail
  <2>2. CleanupTyped'
    BY <1>1, <1>2, <2>1 DEF CleanupTyped
  <2> QED
    BY <2>1, <2>2 DEF CleanupInv
<1>4. CASE SettingsArrive /\ Loads(panel, saving.days)
  BY <1>1, <1>2, <1>4, PanelIsRead DEF SettingsArrive
<1> QED
  BY <1>3, <1>4 DEF SaveSettings, SettingsArrive, SettingsFail

LEMMA DialogIsOpened ==
  ASSUME CleanupInv, OpenDialog \/ Acknowledge \/ RunCleanup
  PROVE  CleanupInv' /\ remaining \ remaining' = {}
<1>1. CleanupTyped /\ dialog \in DialogType /\ panel \in PanelType
  BY DEF CleanupInv, CleanupTyped
<1>2. /\ selectedCandidates(panel) \in SUBSET CleanupRun
      /\ selectedCandidates(panel) \subseteq wanted
  BY <1>1 DEF PanelType, CleanupInv, selectedCandidates
<1>3. dialog' \in DialogType
  BY <1>1, <1>2 DEF OpenDialog, Acknowledge, RunCleanup, NoDialog, DialogType
<1>4. UNCHANGED <<remaining, panel, loading, saving, wanted>>
  BY DEF OpenDialog, Acknowledge, RunCleanup
<1>5. CleanupTyped'
  BY <1>1, <1>3, <1>4 DEF CleanupTyped
<1>6. /\ dialog'.phase = "EXECUTING" => dialog'.open
      /\ dialog'.at # "none" => dialog'.phase = "EXECUTING" /\ dialog'.runs \subseteq wanted
      /\ dialog'.answer # "none" => dialog'.at # "none"
  BY <1>1, <1>2 DEF OpenDialog, Acknowledge, RunCleanup, NoDialog, DialogType, CleanupInv
<1> QED
  BY <1>4, <1>5, <1>6 DEF CleanupInv

LEMMA CleanupIsCalled ==
  ASSUME CleanupInv,
         ServeConfirmation \/ ServeExecute \/ ServeEvents \/ CleanupCallFails \/ ReceiveCleanup
  PROVE  CleanupInv' /\ remaining \ remaining' \subseteq wanted
<1>1. CleanupTyped /\ dialog \in DialogType
  BY DEF CleanupInv, CleanupTyped
<1>2. UNCHANGED <<panel, loading, saving, wanted>>
  BY DEF ServeConfirmation, ServeExecute, ServeEvents, CleanupCallFails, ReceiveCleanup
<1>3. remaining' \subseteq remaining /\ remaining \ remaining' \subseteq wanted
  BY DEF ServeConfirmation, ServeExecute, ServeEvents, CleanupCallFails, ReceiveCleanup,
         CleanupInv
<1>4. /\ dialog' \in DialogType /\ dialog'.runs = dialog.runs /\ dialog'.open = dialog.open
      /\ dialog'.at # "none" => dialog.at # "none" /\ dialog'.phase = dialog.phase
      /\ dialog'.phase = "EXECUTING" => dialog.phase = "EXECUTING"
      /\ dialog'.answer # "none" => dialog'.at # "none"
  <2>1. CASE ServeConfirmation
    BY <1>1, <2>1 DEF ServeConfirmation, DialogType
  <2>2. CASE ServeExecute
    <3>1. PICK how \in {"ok", "failed"} : dialog' = [dialog EXCEPT !.answer = how]
      BY <2>2 DEF ServeExecute
    <3> QED
      BY <1>1, <2>2, <3>1 DEF DialogType, ServeExecute
  <2>3. CASE ServeEvents \/ CleanupCallFails
    BY <1>1, <2>3 DEF ServeEvents, CleanupCallFails, DialogType
  <2>4. CASE ReceiveCleanup
    <3>1. CASE dialog.at = "events"
      BY <1>1, <2>4, <3>1 DEF ReceiveCleanup, DialogType
    <3>2. CASE dialog.at # "events" /\ dialog.answer = "failed"
      BY <1>1, <2>4, <3>2 DEF ReceiveCleanup, DialogType
    <3>3. CASE dialog.at # "events" /\ dialog.answer # "failed"
      <4>1. dialog' = [dialog EXCEPT !.at = IF dialog.at = "confirm" THEN "execute" ELSE "events",
                                     !.answer = "none"]
        BY <1>1, <2>4, <3>3 DEF ReceiveCleanup, DialogType
      <4>2. dialog.at # "none"
        BY <2>4 DEF ReceiveCleanup, CleanupInv
      <4> QED
        BY <1>1, <4>1, <4>2 DEF DialogType
    <3> QED
      BY <3>1, <3>2, <3>3
  <2> QED
    BY <2>1, <2>2, <2>3, <2>4
<1>5. CleanupTyped'
  BY <1>1, <1>2, <1>3, <1>4 DEF CleanupTyped
<1> QED
  BY <1>2, <1>3, <1>4, <1>5 DEF CleanupInv

\* A step of the cleanup page, from a state in which its invariant holds.
LEMMA CleanupStep ==
  ASSUME CleanupInv, CleanupConsoleNext
  PROVE  CleanupInv' /\ remaining \ remaining' \subseteq wanted
<1>1. CleanupTyped /\ panel.days \in Days /\ saving \in SavingType
  BY DEF CleanupInv, CleanupTyped, PanelType
<1>2. ASSUME NEW d \in Days, TypeDays(d)
      PROVE  CleanupInv' /\ remaining \ remaining' \subseteq wanted
  <2>1. Loads(panel, d) /\ UNCHANGED <<remaining, dialog, wanted>> /\ saving' \in SavingType
    BY <1>1, <1>2 DEF TypeDays
  <2> QED
    BY <2>1, PanelIsRead
<1>3. CASE Reload
  <2>1. /\ Loads(panel, panel.days)
        /\ UNCHANGED <<remaining, dialog, wanted>> /\ saving' \in SavingType
    BY <1>1, <1>3 DEF Reload
  <2> QED
    BY <1>1, <2>1, PanelIsRead
<1>4. CASE ToggleAll \/ \E r \in CleanupRun : ToggleRun(r)
  BY <1>4, TicksAreWanted
<1>5. CASE SaveSettings \/ SettingsArrive \/ SettingsFail
  BY <1>5, SettingsChange
<1>6. ASSUME NEW l \in loading, ServePreview(l) \/ ReceivePreview(l)
      PROVE  CleanupInv' /\ remaining \ remaining' \subseteq wanted
  BY <1>6, PreviewsAreServed
<1>7. CASE OpenDialog \/ Acknowledge \/ RunCleanup
  BY <1>7, DialogIsOpened
<1>8. CASE CloseDialog
  <2>1. Loads(panel, panel.days) /\ UNCHANGED <<remaining, saving, wanted>> /\ dialog' = NoDialog
    BY <1>8 DEF CloseDialog
  <2>2. /\ panel' \in PanelType /\ loading' \subseteq PreviewType
        /\ panel'.selected = panel.selected
    BY <1>1, <2>1, LoadsTyped
  <2>3. dialog' \in DialogType
    BY <2>1 DEF NoDialog, DialogType
  <2>4. CleanupTyped'
    BY <1>1, <2>1, <2>2, <2>3 DEF CleanupTyped
  <2> QED
    BY <2>1, <2>2, <2>4 DEF CleanupInv, NoDialog
<1>9. CASE ServeConfirmation \/ ServeExecute \/ ServeEvents \/ CleanupCallFails \/ ReceiveCleanup
  BY <1>9, CleanupIsCalled
<1> QED
  BY <1>2, <1>3, <1>4, <1>5, <1>6, <1>7, <1>8, <1>9 DEF CleanupConsoleNext

-----------------------------------------------------------------------------
(* The Results page: the steps.                                            *)

LEMMA ResultsStart == ResultsInit => ResultsInv
<1>1. SUFFICES ASSUME ResultsInit PROVE ResultsInv
  OBVIOUS
<1> DEFINE zero == [r \in ResultRun |-> 0]
           nothing == [f \in ExportFormat |-> "NONE"]
<1>2. zero \in [ResultRun -> Nat] /\ nothing \in ExportsType
  BY DEF ExportsType
<1>3. NoDetail \in DetailType
  BY <1>2 DEF NoDetail, DetailType
<1>4. history \in [ResultRun -> HistoryType] /\ \A r \in ResultRun : history[r].rev = 1
  <2>1. history \in [ResultRun -> {[rev |-> 1, final |-> s, exports |-> nothing] :
                        s \in {"COMPLETED", "FINALIZATION_FAILED", "INTERRUPTED"}}]
    BY <1>1 DEF ResultsInit
  <2> HIDE DEF nothing
  <2>2. \A s \in {"COMPLETED", "FINALIZATION_FAILED", "INTERRUPTED"} :
          [rev |-> 1, final |-> s, exports |-> nothing] \in HistoryType
    BY <1>2 DEF HistoryType, Finals
  <2> QED
    BY <2>1, <2>2
<1>5. /\ sent = 1
      /\ results = [listed |-> zero, loading |-> TRUE, selected |-> "none",
                    detail |-> NoDetail, detailLoading |-> FALSE, detailError |-> FALSE,
                    retrying |-> FALSE, exporting |-> FALSE,
                    formats |-> {}, formatsOf |-> "none"]
      /\ asked = {[n |-> 1, kind |-> "list", run |-> "none", formats |-> {}, answer |-> "none",
                   list |-> zero, detail |-> NoDetail]}
  BY <1>1 DEF ResultsInit
<1>6. \A r \in ResultRun : zero[r] = 0
  OBVIOUS
<1> HIDE DEF zero, nothing
<1>7. results \in ResultsType
  BY <1>2, <1>3, <1>5 DEF ResultsType
<1>8. asked \subseteq RequestType
  BY <1>2, <1>3, <1>5 DEF RequestType
<1>9. ResultsTyped
  BY <1>4, <1>5, <1>7, <1>8 DEF ResultsTyped
<1> QED
  BY <1>4, <1>5, <1>6, <1>9 DEF ResultsInv, RequestsAreFormed, OneReading, ListIsBehind

\* What the page sends besides lists, and what it changes by the way.
LEMMA PageSends ==
  ASSUME ResultsInv, NEW kind \in {"list", "load", "retry", "exports"},
         NEW r \in ResultRun \cup {"none"}, NEW formats \in SUBSET ExportFormat,
         NEW p \in ResultsType, Sends(kind, r, formats, p),
         p.listed = results.listed, results.loading => p.loading,
         kind = "list" => p.loading /\ ~results.loading,
         kind # "list" => r \in ResultRun
  PROVE  ResultsInv' /\ results'.listed = results.listed
<1> DEFINE c == Request(kind, r, formats)
<1>1. ResultsTyped
  BY DEF ResultsInv
<1>2. NoDetail \in DetailType
  BY DEF NoDetail, DetailType, ExportsType
<1>3. c \in RequestType /\ c.answer = "none" /\ c.kind = kind /\ c.run = r
  BY <1>1, <1>2 DEF Request, RequestType, ResultsTyped
<1>4. /\ asked' = asked \cup {c} /\ results' = p /\ history' = history
      /\ sent' \in Nat
  BY <1>1 DEF Sends, ResultsTyped
<1> HIDE DEF c
<1>5. ResultsTyped'
  BY <1>1, <1>3, <1>4 DEF ResultsTyped
<1>6. RequestsAreFormed'
  BY <1>3, <1>4 DEF ResultsInv, RequestsAreFormed
<1>7. OneReading'
  BY <1>3, <1>4 DEF ResultsInv, OneReading
<1>8. ListIsBehind'
  BY <1>3, <1>4 DEF ResultsInv, ListIsBehind
<1> QED
  BY <1>4, <1>5, <1>6, <1>7, <1>8 DEF ResultsInv

LEMMA OperatorActs ==
  ASSUME ResultsInv,
         \/ LoadResults \/ CloseDetail \/ RetryFinalization
         \/ \E r \in ResultRun : OpenDetail(r)
         \/ \E f \in ExportFormat : PickFormat(f)
         \/ \E formats \in SUBSET ExportFormat : RequestExports(formats)
  PROVE  ResultsInv' /\ results'.listed = results.listed
<1>1. ResultsTyped /\ results \in ResultsType /\ results.detail \in DetailType
  BY DEF ResultsInv, ResultsTyped, ResultsType
<1>2. NoDetail \in DetailType
  BY DEF NoDetail, DetailType, ExportsType
<1>3. CASE LoadResults
  <2> DEFINE p == [results EXCEPT !.loading = TRUE]
  <2>1. p \in ResultsType /\ p.listed = results.listed /\ p.loading
    BY <1>1 DEF ResultsType
  <2>2. Sends("list", "none", {}, p) /\ ~results.loading
    BY <1>3 DEF LoadResults, ReloadOffered
  <2> HIDE DEF p
  <2> QED
    BY <2>1, <2>2, PageSends
<1>4. ASSUME NEW r \in ResultRun, OpenDetail(r)
      PROVE  ResultsInv' /\ results'.listed = results.listed
  <2> DEFINE p == [results EXCEPT !.selected = r, !.detail = NoDetail, !.detailLoading = TRUE,
                                  !.detailError = FALSE]
  <2>1. p \in ResultsType /\ p.listed = results.listed /\ p.loading = results.loading
    BY <1>1, <1>2 DEF ResultsType
  <2>2. Sends("load", r, {}, p)
    BY <1>4 DEF OpenDetail
  <2> HIDE DEF p
  <2> QED
    BY <2>1, <2>2, PageSends
<1>5. CASE RetryFinalization
  <2> DEFINE p == [results EXCEPT !.retrying = TRUE]
  <2>1. p \in ResultsType /\ p.listed = results.listed /\ p.loading = results.loading
    BY <1>1 DEF ResultsType
  <2>2. Sends("retry", results.detail.run, {}, p) /\ results.detail.run \in ResultRun
    BY <1>1, <1>5 DEF RetryFinalization, Shown, DetailType
  <2> HIDE DEF p
  <2> QED
    BY <2>1, <2>2, PageSends
<1>6. ASSUME NEW formats \in SUBSET ExportFormat, RequestExports(formats)
      PROVE  ResultsInv' /\ results'.listed = results.listed
  <2> DEFINE p == [results EXCEPT !.exporting = TRUE]
  <2>1. p \in ResultsType /\ p.listed = results.listed /\ p.loading = results.loading
    BY <1>1 DEF ResultsType
  <2>2. Sends("exports", results.detail.run, formats, p) /\ results.detail.run \in ResultRun
    BY <1>1, <1>6 DEF RequestExports, Shown, DetailType
  <2> HIDE DEF p
  <2> QED
    BY <2>1, <2>2, PageSends
<1>7. CASE CloseDetail \/ \E f \in ExportFormat : PickFormat(f)
  <2>1. /\ results' \in ResultsType /\ results'.listed = results.listed
        /\ results'.loading = results.loading
    <3>1. CASE CloseDetail
      BY <1>1, <1>2, <3>1 DEF CloseDetail, ResultsType
    <3>2. ASSUME NEW f \in ExportFormat, PickFormat(f)
          PROVE  /\ results' \in ResultsType /\ results'.listed = results.listed
                 /\ results'.loading = results.loading
      <4>1. results.detail.run \in ResultRun \cup {"none"}
        BY <1>1 DEF DetailType
      <4>2. results' = [results EXCEPT !.formats = results.formats \cup {f},
                                       !.formatsOf = results.detail.run]
        BY <1>1, <3>2 DEF PickFormat, ResultsType
      <4> QED
        BY <1>1, <4>1, <4>2 DEF ResultsType
    <3> QED
      BY <1>7, <3>1, <3>2
  <2>2. UNCHANGED <<history, asked, sent>>
    BY <1>7 DEF CloseDetail, PickFormat
  <2>3. ResultsTyped'
    BY <1>1, <2>1, <2>2 DEF ResultsTyped
  <2> QED
    BY <2>1, <2>2, <2>3 DEF ResultsInv, RequestsAreFormed, OneReading, ListIsBehind
<1> QED
  BY <1>3, <1>4, <1>5, <1>6, <1>7

\* A request that is not yet answered is replaced by one that is, while no
\* run goes back.
LEMMA RequestIsServed ==
  ASSUME ResultsInv, NEW c \in asked, NEW e \in RequestType,
         asked' = (asked \ {c}) \cup {e}, UNCHANGED <<results, sent>>,
         history' \in [ResultRun -> HistoryType],
         \A r \in ResultRun : history[r].rev <= history'[r].rev,
         e.kind = c.kind, e.run = c.run, e.answer = "awaited" => e.kind = "retry",
         e.kind = "list" /\ e.answer = "ok" =>
           \A r \in ResultRun : results.listed[r] <= e.list[r] /\ e.list[r] <= history'[r].rev
  PROVE  ResultsInv' /\ results'.listed = results.listed
<1>1. ResultsTyped
  BY DEF ResultsInv
<1>2. ResultsTyped'
  BY <1>1 DEF ResultsTyped
<1>3. RequestsAreFormed'
  BY DEF ResultsInv, RequestsAreFormed
<1>4. OneReading'
  BY DEF ResultsInv, OneReading
<1>5. \A r \in ResultRun : /\ results.listed[r] \in Nat /\ history[r].rev \in Nat
                           /\ history'[r].rev \in Nat
  BY <1>1 DEF ResultsTyped, ResultsType, HistoryType
<1>6. \A d \in asked, r \in ResultRun : d.list[r] \in Nat
  BY <1>1 DEF ResultsTyped, RequestType
<1>7. ListIsBehind'
  <2>1. ASSUME NEW r \in ResultRun PROVE results'.listed[r] <= history'[r].rev
    BY <1>5 DEF ResultsInv, ListIsBehind
  <2>2. ASSUME NEW d \in asked', d.kind = "list", d.answer = "ok", NEW r \in ResultRun
        PROVE  results'.listed[r] <= d.list[r] /\ d.list[r] <= history'[r].rev
    <3>1. CASE d = e
      BY <2>2, <3>1
    <3>2. CASE d \in asked
      BY <1>5, <1>6, <2>2, <3>2 DEF ResultsInv, ListIsBehind
    <3> QED
      BY <3>1, <3>2
  <2> QED
    BY <2>1, <2>2 DEF ListIsBehind
<1> QED
  BY <1>2, <1>3, <1>4, <1>7 DEF ResultsInv

LEMMA HistoryGrows ==
  ASSUME NEW h \in [ResultRun -> HistoryType], NEW r \in ResultRun, NEW q \in HistoryType,
         h[r].rev <= q.rev
  PROVE  /\ [h EXCEPT ![r] = q] \in [ResultRun -> HistoryType]
         /\ \A s \in ResultRun : h[s].rev <= [h EXCEPT ![r] = q][s].rev
<1>1. \A s \in ResultRun : h[s].rev \in Nat
  BY DEF HistoryType
<1> QED
  BY <1>1

LEMMA DetailsAreTyped ==
  ASSUME ResultsTyped, NEW r \in ResultRun
  PROVE  Detail(r) \in DetailType
<1>1. history[r] \in HistoryType
  BY DEF ResultsTyped
<1> QED
  BY <1>1 DEF Detail, DetailType, HistoryType

LEMMA ReadIsServed ==
  ASSUME ResultsInv, NEW c \in asked, ServeRead(c) \/ FailCall(c)
  PROVE  ResultsInv' /\ results'.listed = results.listed
<1>1. ResultsTyped /\ c \in RequestType
  BY DEF ResultsInv, ResultsTyped
<1>2. /\ UNCHANGED <<history, results, sent>>
      /\ history' \in [ResultRun -> HistoryType]
      /\ \A r \in ResultRun : history[r].rev <= history'[r].rev
  BY <1>1 DEF ServeRead, FailCall, ResultsTyped, HistoryType
<1>3. CASE ServeRead(c)
  <2> DEFINE brought == [r \in ResultRun |-> history[r].rev]
             detail == IF c.run = "none" THEN NoDetail ELSE Detail(c.run)
             e == [c EXCEPT !.answer = "ok", !.list = brought, !.detail = detail]
  <2>1. brought \in [ResultRun -> Nat]
    BY <1>1 DEF ResultsTyped, HistoryType
  <2>2. \A r \in ResultRun : results.listed[r] <= brought[r] /\ brought[r] <= history[r].rev
    <3>1. \A r \in ResultRun : history[r].rev \in Nat
      BY <1>1 DEF ResultsTyped, HistoryType
    <3> QED
      BY <3>1 DEF ResultsInv, ListIsBehind
  <2>3. detail \in DetailType
    <3>1. CASE c.run = "none"
      BY <3>1 DEF NoDetail, DetailType, ExportsType
    <3>2. CASE c.run # "none"
      <4>1. c.run \in ResultRun
        BY <1>1, <3>2 DEF RequestType
      <4> QED
        BY <1>1, <3>2, <4>1, DetailsAreTyped
    <3> QED
      BY <3>1, <3>2
  <2>4. asked' = (asked \ {c}) \cup {e}
    BY <1>3 DEF ServeRead, Answered
  <2> HIDE DEF brought, detail
  <2>5. /\ e \in RequestType /\ e.kind = c.kind /\ e.run = c.run /\ e.answer = "ok"
        /\ e.list = brought
    BY <1>1, <2>1, <2>3 DEF RequestType
  <2> HIDE DEF e
  <2> QED
    BY <1>2, <2>2, <2>4, <2>5, RequestIsServed
<1>4. CASE FailCall(c)
  <2> DEFINE e == [c EXCEPT !.answer = "failed"]
  <2>1. asked' = (asked \ {c}) \cup {e}
    BY <1>4 DEF FailCall
  <2>2. e \in RequestType /\ e.kind = c.kind /\ e.run = c.run /\ e.answer = "failed"
    BY <1>1 DEF RequestType
  <2> HIDE DEF e
  <2> QED
    BY <1>2, <2>1, <2>2, RequestIsServed
<1> QED
  BY <1>3, <1>4

LEMMA RunIsChanged ==
  ASSUME ResultsInv, NEW c \in asked,
         ServeRetry(c) \/ ServeExports(c)
           \/ \E state \in {"COMPLETED", "FINALIZATION_FAILED"} : EndRetry(c, state)
  PROVE  ResultsInv' /\ results'.listed = results.listed
<1>1. ResultsTyped /\ c \in RequestType /\ UNCHANGED <<results, sent>>
  BY DEF ResultsInv, ResultsTyped, ServeRetry, ServeExports, EndRetry
<1>2. c.kind # "list" /\ c.run \in ResultRun /\ (c.answer = "awaited" => c.kind = "retry")
  BY DEF ResultsInv, RequestsAreFormed, ServeRetry, ServeExports, EndRetry
<1>3. /\ history[c.run] \in HistoryType /\ history[c.run].rev \in Nat
      /\ history \in [ResultRun -> HistoryType]
  BY <1>1, <1>2 DEF ResultsTyped, HistoryType
<1> DEFINE next == history[c.run].rev + 1
<1>0. next \in Nat
  BY <1>3
<1>4. Detail(c.run) \in DetailType /\ Detail(c.run).rev = history[c.run].rev
  BY <1>1, <1>2, DetailsAreTyped DEF Detail
<1> HIDE DEF next
<1>5. ASSUME NEW q \in HistoryType, NEW e \in RequestType,
             q.rev = next, history' = [history EXCEPT ![c.run] = q],
             asked' = (asked \ {c}) \cup {e}, e.kind = c.kind, e.run = c.run,
             e.answer = "awaited" => e.kind = "retry"
      PROVE  ResultsInv' /\ results'.listed = results.listed
  <2>1. history[c.run].rev <= q.rev
    BY <1>3, <1>5 DEF next
  <2>2. /\ history' \in [ResultRun -> HistoryType]
        /\ \A r \in ResultRun : history[r].rev <= history'[r].rev
    BY <1>2, <1>3, <1>5, <2>1, HistoryGrows
  <2> QED
    BY <1>1, <1>2, <1>5, <2>2, RequestIsServed
<1>6. CASE ServeRetry(c)
  <2> DEFINE q == [history[c.run] EXCEPT !.final = "FINALIZING", !.rev = next]
             e == [c EXCEPT !.answer = "awaited"]
  <2>1. q \in HistoryType /\ q.rev = next
    BY <1>3, <1>0 DEF HistoryType, Finals
  <2>2. e \in RequestType /\ e.kind = c.kind /\ e.run = c.run /\ c.kind = "retry"
    BY <1>1, <1>6 DEF RequestType, ServeRetry
  <2>3. history' = [history EXCEPT ![c.run] = q] /\ asked' = (asked \ {c}) \cup {e}
    BY <1>2, <1>3, <1>6 DEF ServeRetry, HistoryType, next
  <2> HIDE DEF q, e
  <2> QED
    BY <1>5, <2>1, <2>2, <2>3
<1>7. CASE ServeExports(c)
  <2> DEFINE queued == [f \in ExportFormat |-> IF f \in c.formats THEN "PENDING"
                                               ELSE history[c.run].exports[f]]
             q == [history[c.run] EXCEPT !.exports = queued, !.rev = next]
             d == [Detail(c.run) EXCEPT !.exports = queued, !.rev = next]
             e == [c EXCEPT !.answer = "ok", !.detail = d]
  <2>1. queued \in ExportsType
    BY <1>3 DEF HistoryType, ExportsType
  <2>2. history' = [history EXCEPT ![c.run] = q] /\ asked' = (asked \ {c}) \cup {e}
    <3>1. [Detail(c.run) EXCEPT !.exports = queued, !.rev = @ + 1] = d
      BY <1>4 DEF DetailType, next
    <3>2. [history EXCEPT ![c.run].exports = queued, ![c.run].rev = @ + 1]
            = [history EXCEPT ![c.run] = q]
      BY <1>2, <1>3 DEF HistoryType, next
    <3> QED
      BY <1>7, <3>1, <3>2 DEF ServeExports
  <2> HIDE DEF queued
  <2>3. q \in HistoryType /\ q.rev = next
    BY <1>3, <1>0, <2>1 DEF HistoryType
  <2>4. d \in DetailType
    <3>1. next \in Nat
      BY <1>0
    <3> QED
      BY <1>4, <2>1, <3>1 DEF DetailType
  <2> HIDE DEF d
  <2>5. e \in RequestType /\ e.kind = c.kind /\ e.run = c.run /\ e.answer = "ok"
    BY <1>1, <2>4 DEF RequestType
  <2> HIDE DEF q, e
  <2> QED
    BY <1>5, <2>2, <2>3, <2>5
<1>8. ASSUME NEW state \in {"COMPLETED", "FINALIZATION_FAILED"}, EndRetry(c, state)
      PROVE  ResultsInv' /\ results'.listed = results.listed
  <2> DEFINE q == [history[c.run] EXCEPT !.final = state, !.rev = next]
             d == [Detail(c.run) EXCEPT !.final = state, !.rev = next]
             e == IF state = "COMPLETED" THEN [c EXCEPT !.answer = "ok", !.detail = d]
                  ELSE [c EXCEPT !.answer = "failed"]
  <2>1. history' = [history EXCEPT ![c.run] = q] /\ asked' = (asked \ {c}) \cup {e}
    BY <1>2, <1>3, <1>8 DEF EndRetry, HistoryType, next
  <2>2. q \in HistoryType /\ q.rev = next
    BY <1>3, <1>0 DEF HistoryType, Finals
  <2>3. d \in DetailType
    <3>1. next \in Nat /\ state \in Finals
      BY <1>0 DEF Finals
    <3> QED
      BY <1>4, <3>1 DEF DetailType
  <2> HIDE DEF d
  <2>4. e \in RequestType /\ e.kind = c.kind /\ e.run = c.run /\ e.answer # "awaited"
    BY <1>1, <2>3 DEF RequestType
  <2> HIDE DEF q, e
  <2> QED
    BY <1>5, <2>1, <2>2, <2>4
<1> QED
  BY <1>6, <1>7, <1>8

LEMMA ExportEnds ==
  ASSUME ResultsInv, NEW r \in ResultRun, NEW f \in ExportFormat,
         NEW state \in {"READY", "FAILED"}, EndExport(r, f, state)
  PROVE  ResultsInv' /\ results'.listed = results.listed
<1> DEFINE next == history[r].rev + 1
           x == [history[r].exports EXCEPT ![f] = state]
           q == [history[r] EXCEPT !.exports = x, !.rev = next]
<1>1. ResultsTyped /\ history \in [ResultRun -> HistoryType] /\ history[r] \in HistoryType
  BY DEF ResultsInv, ResultsTyped
<1>0. next \in Nat /\ history[r].rev <= next
  BY <1>1 DEF HistoryType
<1>2. history' = [history EXCEPT ![r] = q] /\ UNCHANGED <<results, asked, sent>>
  BY <1>1 DEF EndExport, HistoryType, ExportsType
<1>3. x \in ExportsType
  BY <1>1 DEF HistoryType, ExportsType
<1> HIDE DEF x, next
<1>4. q \in HistoryType /\ history[r].rev <= q.rev
  BY <1>1, <1>3, <1>0 DEF HistoryType
<1> HIDE DEF q
<1>5. /\ history' \in [ResultRun -> HistoryType]
      /\ \A s \in ResultRun : history[s].rev <= history'[s].rev
  BY <1>1, <1>2, <1>4, HistoryGrows
<1>6. ResultsTyped'
  BY <1>1, <1>2, <1>5 DEF ResultsTyped
<1>7. /\ \A s \in ResultRun : /\ results.listed[s] \in Nat /\ history[s].rev \in Nat
                              /\ history'[s].rev \in Nat
      /\ \A c \in asked, s \in ResultRun : c.list[s] \in Nat
  BY <1>1, <1>5 DEF ResultsTyped, ResultsType, HistoryType, RequestType
<1>8. ListIsBehind'
  BY <1>2, <1>5, <1>7 DEF ResultsInv, ListIsBehind
<1> QED
  BY <1>2, <1>6, <1>8 DEF ResultsInv, RequestsAreFormed, OneReading

LEMMA AnswerIsTaken ==
  ASSUME ResultsInv, NEW c \in asked, ReceiveAnswer(c)
  PROVE  ResultsInv' /\ \A r \in ResultRun : results'.listed[r] >= results.listed[r]
<1>1. /\ ResultsTyped /\ c \in RequestType /\ results \in ResultsType
      /\ c.list \in [ResultRun -> Nat] /\ c.detail \in DetailType
      /\ results.listed \in [ResultRun -> Nat]
  BY DEF ResultsInv, ResultsTyped, RequestType, ResultsType
<1>2. /\ asked' = asked \ {c} /\ results' = Taken(results, c)
      /\ UNCHANGED <<history, sent>>
  BY DEF ReceiveAnswer
<1>3. /\ results' \in ResultsType
      /\ c.kind # "list" => /\ results'.listed = results.listed
                            /\ results'.loading = results.loading
      /\ c.kind = "list" => \/ results'.listed = results.listed
                            \/ c.answer = "ok" /\ results'.listed = c.list
  <2>1. CASE c.kind = "list"
    BY <1>1, <1>2, <2>1 DEF Taken, ResultsType
  <2>2. CASE c.kind = "load"
    BY <1>1, <1>2, <2>2 DEF Taken, ResultsType
  <2>3. CASE c.kind = "retry"
    BY <1>1, <1>2, <2>3 DEF Taken, ResultsType
  <2>4. CASE c.kind = "exports"
    BY <1>1, <1>2, <2>4 DEF Taken, ResultsType
  <2> QED
    BY <1>1, <2>1, <2>2, <2>3, <2>4 DEF RequestType
<1>4. ResultsTyped'
  BY <1>1, <1>2, <1>3 DEF ResultsTyped
<1>5. RequestsAreFormed' /\ OneReading'
  BY <1>2, <1>3 DEF ResultsInv, RequestsAreFormed, OneReading
<1>6. /\ \A r \in ResultRun : results'.listed[r] >= results.listed[r]
      /\ \A r \in ResultRun : results'.listed[r] <= history'[r].rev
  BY <1>1, <1>2, <1>3 DEF ResultsInv, ListIsBehind
<1>7. ListIsBehind'
  <2>1. \A d \in asked' : d.kind = "list" => results'.listed = results.listed
    BY <1>2, <1>3 DEF ResultsInv, OneReading
  <2> QED
    BY <1>2, <1>6, <2>1 DEF ResultsInv, ListIsBehind
<1> QED
  BY <1>4, <1>5, <1>6, <1>7 DEF ResultsInv

\* A step of the Results page, from a state in which its invariant holds.
LEMMA ResultsStep ==
  ASSUME ResultsInv, ResultsNext
  PROVE  ResultsInv' /\ \A r \in ResultRun : results'.listed[r] >= results.listed[r]
<1>1. \A r \in ResultRun : results.listed[r] \in Nat
  BY DEF ResultsInv, ResultsTyped, ResultsType
<1>2. CASE \/ LoadResults \/ CloseDetail \/ RetryFinalization
           \/ \E r \in ResultRun : OpenDetail(r)
           \/ \E f \in ExportFormat : PickFormat(f)
           \/ \E formats \in SUBSET ExportFormat : RequestExports(formats)
  <2>1. ResultsInv' /\ results'.listed = results.listed
    BY <1>2, OperatorActs
  <2> QED
    BY <1>1, <2>1
<1>3. ASSUME NEW r \in ResultRun, NEW f \in ExportFormat, NEW state \in {"READY", "FAILED"},
             EndExport(r, f, state)
      PROVE  ResultsInv' /\ \A s \in ResultRun : results'.listed[s] >= results.listed[s]
  <2>1. ResultsInv' /\ results'.listed = results.listed
    BY <1>3, ExportEnds
  <2> QED
    BY <1>1, <2>1
<1>4. ASSUME NEW c \in asked, ServeRead(c) \/ FailCall(c)
      PROVE  ResultsInv' /\ \A s \in ResultRun : results'.listed[s] >= results.listed[s]
  <2>1. ResultsInv' /\ results'.listed = results.listed
    BY <1>4, ReadIsServed
  <2> QED
    BY <1>1, <2>1
<1>5. ASSUME NEW c \in asked,
             ServeRetry(c) \/ ServeExports(c)
               \/ \E state \in {"COMPLETED", "FINALIZATION_FAILED"} : EndRetry(c, state)
      PROVE  ResultsInv' /\ \A s \in ResultRun : results'.listed[s] >= results.listed[s]
  <2>1. ResultsInv' /\ results'.listed = results.listed
    BY <1>5, RunIsChanged
  <2> QED
    BY <1>1, <2>1
<1>6. ASSUME NEW c \in asked, ReceiveAnswer(c)
      PROVE  ResultsInv' /\ \A s \in ResultRun : results'.listed[s] >= results.listed[s]
  BY <1>6, AnswerIsTaken
<1> QED
  BY <1>2, <1>3, <1>4, <1>5, <1>6 DEF ResultsNext

-----------------------------------------------------------------------------
(* The Devices page: the steps.                                            *)

LEMMA StreamStarts == StreamInit => StreamInv
<1>1. SUFFICES ASSUME StreamInit PROVE StreamInv
  OBVIOUS
<1>2. NoDevices \in DevicesType
  BY StateStreamAssumption DEF NoDevices, DevicesType
<1>3. list \in ListType /\ ~list.shown
  BY <1>1, <1>2 DEF StreamInit, NotShown, ListType
<1>4. <<>> \in Seq(EventType) /\ <<>> \in Seq(ReadType) /\ DOMAIN <<>> = {}
  OBVIOUS
<1>5. StreamTyped
  BY <1>1, <1>2, <1>3, <1>4 DEF StreamInit, StreamTyped
<1> QED
  BY <1>3, <1>5 DEF StreamInv, ListCatchesUp

\* Events that are sent while the stream is open are on their way after it.
LEMMA EventsAreSent ==
  ASSUME StreamTyped, NEW events \in Seq(EventType), events # <<>>
  PROVE  /\ Sent(events) \in Seq(EventType)
         /\ stream = "open" => Sent(events) # <<>>
<1>1. wire \in Seq(EventType)
  BY DEF StreamTyped
<1>2. /\ wire \o events \in Seq(EventType) /\ Len(wire \o events) = Len(wire) + Len(events)
      /\ Len(events) \in Nat \ {0} /\ Len(wire) \in Nat
  BY <1>1, ConcatProperties, EmptySeq, LenProperties
<1>3. wire \o events # <<>>
  BY <1>2
<1> QED
  BY <1>1, <1>2, <1>3 DEF Sent

LEMMA RegistryEvents ==
  ASSUME StreamTyped,
         NEW kinds \in Seq({"device.upserted", "device.connectionChanged"}), kinds # <<>>
  PROVE  /\ Events(kinds) \in Seq(EventType) /\ Events(kinds) # <<>>
         /\ eventSeq + Len(kinds) \in Nat
<1>1. /\ Len(kinds) \in Nat \ {0} /\ DOMAIN kinds = 1 .. Len(kinds) /\ eventSeq \in Nat
      /\ \A i \in 1 .. Len(kinds) : kinds[i] \in {"device.upserted", "device.connectionChanged"}
  BY EmptySeq, LenProperties DEF StreamTyped
<1>2. \A i \in 1 .. Len(kinds) : eventSeq + i \in Nat
  BY <1>1
<1>3. \A i \in 1 .. Len(kinds) : Event(kinds[i], eventSeq + i) \in EventType
  BY <1>1, <1>2 DEF Event, EventType
<1>4. Events(kinds) = [i \in 1 .. Len(kinds) |-> Event(kinds[i], eventSeq + i)]
  BY <1>1 DEF Events
<1>5. Events(kinds) \in Seq(EventType) /\ Len(Events(kinds)) = Len(kinds)
  BY <1>1, <1>3, <1>4
<1> QED
  BY <1>1, <1>5

LEMMA RecordGrows ==
  ASSUME StreamTyped, NEW d \in Device, record[d] < MaxChanges
  PROVE  [record EXCEPT ![d] = @ + 1] \in DevicesType
<1>1. record[d] + 1 \in 0 .. MaxChanges
  BY StateStreamAssumption DEF StreamTyped, DevicesType
<1> QED
  BY <1>1 DEF StreamTyped, DevicesType

\* While an event is on its way, or the stream is not open, or the page not
\* shown, nothing is asked of the list.
LEMMA NotAskedYet ==
  ASSUME StreamTyped', stream' = "open" => wire' # <<>> \/ ~list'.shown
  PROVE  StreamInv'
BY DEF StreamInv, ListCatchesUp

LEMMA OneEvent ==
  ASSUME NEW e \in EventType
  PROVE  <<e>> \in Seq(EventType) /\ <<e>> # <<>>
OBVIOUS

LEMMA ServerSends ==
  ASSUME StreamInv, UidChanges \/ OpenStream \/ \E d \in Device : DeviceChanges(d)
  PROVE  StreamInv'
<1>1. StreamTyped /\ eventSeq \in Nat /\ uidSeq + 1 \in Nat
  BY DEF StreamInv, StreamTyped
<1>2. CASE UidChanges
  <2> DEFINE event == Event("uid.updated", uidSeq + 1)
  <2>1. event \in EventType
    BY <1>1 DEF Event, EventType
  <2>2. <<event>> \in Seq(EventType) /\ <<event>> # <<>>
    BY <2>1, OneEvent
  <2>3. wire' \in Seq(EventType) /\ (stream = "open" => wire' # <<>>)
    BY <1>1, <1>2, <2>2, EventsAreSent DEF UidChanges
  <2>4. StreamTyped'
    BY <1>1, <1>2, <2>3 DEF UidChanges, StreamTyped
  <2> QED
    BY <1>2, <2>3, <2>4, NotAskedYet DEF UidChanges
<1>3. CASE OpenStream
  <2>1. Event("snapshot", eventSeq) \in EventType
    BY <1>1 DEF Event, EventType
  <2>2. wire' \in Seq(EventType) /\ wire' # <<>>
    BY <1>3, <2>1 DEF OpenStream
  <2>3. StreamTyped'
    BY <1>1, <1>3, <2>2 DEF OpenStream, StreamTyped
  <2> QED
    BY <2>2, <2>3, NotAskedYet
<1>4. ASSUME NEW d \in Device, DeviceChanges(d)
      PROVE  StreamInv'
  <2>1. PICK kinds \in {<<"device.upserted">>, <<"device.connectionChanged">>,
                        <<"device.upserted", "device.connectionChanged">>} :
          eventSeq' = eventSeq + Len(kinds) /\ wire' = Sent(Events(kinds))
    BY <1>4 DEF DeviceChanges
  <2>2. kinds \in Seq({"device.upserted", "device.connectionChanged"}) /\ kinds # <<>>
    <3>1. CASE kinds = <<"device.upserted">>
      BY <3>1
    <3>2. CASE kinds = <<"device.connectionChanged">>
      BY <3>2
    <3>3. CASE kinds = <<"device.upserted", "device.connectionChanged">>
      BY <3>3
    <3> QED
      BY <2>1, <3>1, <3>2, <3>3
  <2>3. /\ Events(kinds) \in Seq(EventType) /\ Events(kinds) # <<>>
        /\ eventSeq + Len(kinds) \in Nat
    BY <1>1, <2>2, RegistryEvents
  <2>4. wire' \in Seq(EventType) /\ (stream = "open" => wire' # <<>>)
    BY <1>1, <2>1, <2>3, EventsAreSent
  <2>5. record' \in DevicesType
    BY <1>1, <1>4, RecordGrows DEF DeviceChanges
  <2>6. StreamTyped'
    BY <1>1, <1>4, <2>1, <2>3, <2>4, <2>5 DEF DeviceChanges, StreamTyped
  <2> QED
    BY <1>4, <2>4, <2>6, NotAskedYet DEF DeviceChanges
<1> QED
  BY <1>2, <1>3, <1>4

LEMMA StreamIsClosed ==
  ASSUME StreamInv, CloseStream \/ LeaveDevices
  PROVE  StreamInv'
<1>1. StreamTyped
  BY DEF StreamInv
<1>2. CASE CloseStream
  <2>1. PICK n \in 0 .. Len(wire) : wire' = SubSeq(wire, 1, n)
    BY <1>2 DEF CloseStream
  <2>2. \A i \in 1 .. n : wire[i] \in EventType
    BY <1>1, <2>1, LenProperties, ElementOfSeq DEF StreamTyped
  <2>3. wire' \in Seq(EventType)
    BY <2>1, <2>2, SubSeqProperties
  <2>4. StreamTyped'
    BY <1>1, <1>2, <2>3 DEF CloseStream, StreamTyped
  <2> QED
    BY <1>2, <2>4, NotAskedYet DEF CloseStream
<1>3. CASE LeaveDevices
  <2>1. list' \in ListType /\ ~list'.shown
    BY <1>3, StateStreamAssumption DEF LeaveDevices, NotShown, NoDevices, ListType, DevicesType
  <2>2. reads' \in Seq(ReadType) /\ DOMAIN reads' = {}
    BY <1>3 DEF LeaveDevices
  <2>3. StreamTyped'
    BY <1>1, <1>3, <2>1, <2>2 DEF LeaveDevices, StreamTyped
  <2> QED
    BY <2>1, <2>3, NotAskedYet
<1> QED
  BY <1>2, <1>3

\* A request is sent last.
LEMMA RequestIsSent ==
  ASSUME StreamTyped, NEW r \in ReadType, r.kind = "tags" => r.device \in Device
  PROVE  /\ Append(reads, r) \in Seq(ReadType)
         /\ Len(Append(reads, r)) = Len(reads) + 1 /\ Len(reads) \in Nat
         /\ DOMAIN Append(reads, r) = 1 .. (Len(reads) + 1) /\ DOMAIN reads = 1 .. Len(reads)
         /\ \A j \in 1 .. Len(reads) : Append(reads, r)[j] = reads[j]
         /\ Append(reads, r)[Len(reads) + 1] = r
         /\ \A i \in DOMAIN Append(reads, r) :
              Append(reads, r)[i].kind = "tags" => Append(reads, r)[i].device \in Device
<1>1. reads \in Seq(ReadType)
  BY DEF StreamTyped
<1>2. /\ Append(reads, r) \in Seq(ReadType)
      /\ Len(Append(reads, r)) = Len(reads) + 1 /\ Len(reads) \in Nat
      /\ DOMAIN Append(reads, r) = 1 .. (Len(reads) + 1) /\ DOMAIN reads = 1 .. Len(reads)
      /\ \A j \in 1 .. Len(reads) : Append(reads, r)[j] = reads[j]
      /\ Append(reads, r)[Len(reads) + 1] = r
  BY <1>1
<1>3. ASSUME NEW i \in 1 .. (Len(reads) + 1)
      PROVE  i = Len(reads) + 1 \/ i \in 1 .. Len(reads)
  BY <1>2, <1>3
<1> QED
  BY <1>2, <1>3 DEF StreamTyped

\* The list is asked for after everything else.
LEMMA ListIsLoaded ==
  ASSUME StreamTyped, Load(list), UNCHANGED <<record, eventSeq, uidSeq, stream>>,
         wire' \in Seq(EventType)
  PROVE  StreamInv'
<1>1. Read \in ReadType /\ Read.kind = "list" /\ Read.answer = "none" /\ ~Read.overtaken
  BY StateStreamAssumption DEF Read, ReadType, NoDevices, DevicesType
<1>2. reads' = Append(reads, Read)
  BY DEF Load
<1>0. PICK n \in Nat : n = Len(reads) + 1
  BY LenProperties DEF StreamTyped
<1>3. /\ reads' \in Seq(ReadType) /\ DOMAIN reads' = 1 .. n /\ n >= 1
      /\ reads'[n] = Read
      /\ \A i \in DOMAIN reads' : reads'[i].kind = "tags" => reads'[i].device \in Device
  BY <1>0, <1>1, <1>2, RequestIsSent
<1>4. list' \in ListType
  BY DEF Load, StreamTyped, ListType
<1>5. StreamTyped'
  BY <1>3, <1>4 DEF StreamTyped
<1>6. \A j \in 1 .. n : n <= j => j = n
  OBVIOUS
<1>7. AskedAgain(n)' /\ n \in DOMAIN reads'
  BY <1>1, <1>3, <1>6 DEF FreshFrom, AskedAgain
<1> QED
  BY <1>5, <1>7 DEF StreamInv, ListCatchesUp

LEMMA EventIsReceived ==
  ASSUME StreamInv, ReceiveEvent
  PROVE  StreamInv'
<1>1. StreamTyped
  BY DEF StreamInv
<1>2. wire' \in Seq(EventType) /\ Head(wire) \in EventType
  BY <1>1, HeadTailProperties DEF ReceiveEvent, StreamTyped
<1>3. RefreshesOn(Head(wire))
  BY <1>2 DEF RefreshesOn, EventType
<1>4. CASE list.shown
  BY <1>1, <1>2, <1>3, <1>4, ListIsLoaded DEF ReceiveEvent
<1>5. CASE ~list.shown
  <2>1. UNCHANGED <<record, eventSeq, uidSeq, stream, list, reads>>
    BY <1>5 DEF ReceiveEvent
  <2>2. StreamTyped'
    BY <1>1, <1>2, <2>1 DEF StreamTyped
  <2> QED
    BY <1>5, <2>1, <2>2, NotAskedYet
<1> QED
  BY <1>4, <1>5

LEMMA TagsAreSaved ==
  ASSUME StreamInv, NEW d \in Device, SaveTags(d)
  PROVE  StreamInv'
<1> DEFINE r == [Read EXCEPT !.kind = "tags", !.device = d]
           n == Len(reads) + 1
<1>1. StreamTyped
  BY DEF StreamInv
<1>2. r \in ReadType /\ r.kind = "tags" /\ r.device = d /\ r.answer = "none"
  <2>1. Read \in ReadType /\ Read.answer = "none"
    BY StateStreamAssumption DEF Read, ReadType, NoDevices, DevicesType
  <2> QED
    BY <2>1 DEF ReadType
<1>3. reads' = Append(reads, r) /\ UNCHANGED <<record, eventSeq, uidSeq, stream, wire, list>>
  BY DEF SaveTags
<1> HIDE DEF r
<1>4. /\ reads' \in Seq(ReadType) /\ DOMAIN reads' = 1 .. n /\ n \in Nat
      /\ DOMAIN reads = 1 .. Len(reads) /\ Len(reads) \in Nat
      /\ \A j \in 1 .. Len(reads) : reads'[j] = reads[j]
      /\ reads'[n] = r
      /\ \A i \in DOMAIN reads' : reads'[i].kind = "tags" => reads'[i].device \in Device
  BY <1>1, <1>2, <1>3, RequestIsSent
<1>5. StreamTyped'
  BY <1>1, <1>3, <1>4 DEF StreamTyped
<1>6. \A j \in 1 .. n : j = n \/ j \in 1 .. Len(reads)
  BY <1>4
<1>7. \A j \in 1 .. Len(reads) : j \in 1 .. n
  BY <1>4
<1> HIDE DEF n
<1>8. ASSUME NEW i \in DOMAIN reads, AskedAgain(i) PROVE AskedAgain(i)' /\ i \in DOMAIN reads'
  BY <1>2, <1>3, <1>4, <1>6, <1>7, <1>8 DEF FreshFrom, AskedAgain
<1>9. UpToDate => UpToDate'
  BY <1>2, <1>3, <1>4, <1>6 DEF UpToDate
<1> QED
  BY <1>3, <1>5, <1>8, <1>9 DEF StreamInv, ListCatchesUp

\* A request is answered in its place.
LEMMA ReadIsAnswered ==
  ASSUME StreamInv, NEW i \in DOMAIN reads, ServeList(i) \/ FailRead(i)
  PROVE  StreamInv'
<1>1. StreamTyped /\ reads \in Seq(ReadType) /\ reads[i] \in ReadType
  BY ElementOfSeq, LenProperties DEF StreamInv, StreamTyped
<1>2. UNCHANGED <<record, eventSeq, uidSeq, stream, wire, list>>
  BY DEF ServeList, FailRead
<1>3. PICK e \in ReadType :
        /\ reads' = [reads EXCEPT ![i] = e]
        /\ e.kind = reads[i].kind /\ e.device = reads[i].device
        /\ e.overtaken = reads[i].overtaken
        /\ e.answer = "ok" => e.devices = record
  <2>1. CASE ServeList(i)
    <3> DEFINE e == [reads[i] EXCEPT !.answer = "ok", !.devices = record]
    <3>1. e \in ReadType
      BY <1>1 DEF ReadType, StreamTyped
    <3>2. reads' = [reads EXCEPT ![i] = e]
      BY <1>1, <2>1 DEF ServeList, ReadType
    <3>3. e.kind = reads[i].kind /\ e.device = reads[i].device /\ e.devices = record
          /\ e.overtaken = reads[i].overtaken
      BY <1>1 DEF ReadType
    <3> QED
      BY <3>1, <3>2, <3>3
  <2>2. CASE FailRead(i)
    <3> DEFINE e == [reads[i] EXCEPT !.answer = "failed"]
    <3>1. e \in ReadType
      BY <1>1 DEF ReadType
    <3>2. reads' = [reads EXCEPT ![i] = e]
      BY <1>1, <2>2 DEF FailRead, ReadType
    <3>3. e.kind = reads[i].kind /\ e.device = reads[i].device /\ e.answer = "failed"
          /\ e.overtaken = reads[i].overtaken
      BY <1>1 DEF ReadType
    <3> QED
      BY <3>1, <3>2, <3>3
  <2> QED
    BY <2>1, <2>2
<1>4. /\ reads' \in Seq(ReadType) /\ DOMAIN reads' = DOMAIN reads
      /\ \A j \in DOMAIN reads : reads'[j] = IF j = i THEN e ELSE reads[j]
  BY <1>1, <1>3, ExceptSeq, LenProperties
<1>5. StreamTyped'
  BY <1>1, <1>2, <1>3, <1>4 DEF StreamTyped
<1>6. ASSUME NEW j \in DOMAIN reads, AskedAgain(j) PROVE AskedAgain(j)'
  BY <1>2, <1>3, <1>4, <1>6 DEF FreshFrom, AskedAgain
<1>7. UpToDate => UpToDate'
  BY <1>2, <1>3, <1>4 DEF UpToDate
<1> QED
  BY <1>2, <1>4, <1>5, <1>6, <1>7 DEF StreamInv, ListCatchesUp

LEMMA TagsAreServed ==
  ASSUME StreamInv, NEW i \in DOMAIN reads, ServeTags(i)
  PROVE  StreamInv'
<1>1. StreamTyped /\ reads \in Seq(ReadType) /\ reads[i] \in ReadType
  BY ElementOfSeq, LenProperties DEF StreamInv, StreamTyped
<1> DEFINE d == reads[i].device
           after == [record EXCEPT ![d] = @ + 1]
           e == [reads[i] EXCEPT !.answer = "ok", !.devices = after]
           kinds == <<"device.upserted">>
<1>2. d \in Device /\ record[d] < MaxChanges
  BY <1>1 DEF ServeTags, StreamTyped
<1>3. after \in DevicesType
  BY <1>1, <1>2, RecordGrows
<1>4. /\ record' = after /\ eventSeq' = eventSeq + 1 /\ wire' = Sent(Events(kinds))
      /\ UNCHANGED <<uidSeq, stream, list>>
  BY DEF ServeTags
<1>5. reads' = [reads EXCEPT ![i] = e]
  BY <1>1 DEF ServeTags, ReadType
<1>6. kinds \in Seq({"device.upserted", "device.connectionChanged"}) /\ kinds # <<>>
  OBVIOUS
<1> HIDE DEF kinds, after
<1>7. Events(kinds) \in Seq(EventType) /\ Events(kinds) # <<>>
  BY <1>1, <1>6, RegistryEvents
<1>8. wire' \in Seq(EventType) /\ (stream = "open" => wire' # <<>>)
  BY <1>1, <1>4, <1>7, EventsAreSent
<1>9. e \in ReadType /\ e.device = d
  BY <1>1, <1>3 DEF ReadType
<1> HIDE DEF e
<1>10. /\ reads' \in Seq(ReadType) /\ DOMAIN reads' = DOMAIN reads
       /\ \A j \in DOMAIN reads : reads'[j] = IF j = i THEN e ELSE reads[j]
  BY <1>1, <1>5, <1>9, ExceptSeq, LenProperties
<1>11. StreamTyped'
  BY <1>1, <1>2, <1>3, <1>4, <1>8, <1>9, <1>10 DEF StreamTyped
<1> QED
  BY <1>4, <1>8, <1>11, NotAskedYet

\* Without answer i the others stay in their order; those before it are
\* overtaken where it is a list.
LEMMA AnswerLeaves ==
  ASSUME StreamTyped, NEW i \in DOMAIN reads, reads' = Left(i)
  PROVE  /\ reads' \in Seq(ReadType) /\ DOMAIN reads' = 1 .. (Len(reads) - 1)
         /\ \A j \in DOMAIN reads' : \E k \in DOMAIN reads \ {i} :
              /\ k = IF j < i THEN j ELSE j + 1
              /\ reads'[j] = [reads[k] EXCEPT !.overtaken =
                                @ \/ (reads[i].kind = "list" /\ k < i)]
<1> DEFINE Marked(j) ==
             [reads[j] EXCEPT !.overtaken = @ \/ (reads[i].kind = "list" /\ j < i)]
           marked == [j \in DOMAIN reads |-> Marked(j)]
<1>1. reads \in Seq(ReadType) /\ DOMAIN reads = 1 .. Len(reads) /\ Len(reads) \in Nat
  BY LenProperties DEF StreamTyped
<1>2. ASSUME NEW j \in 1 .. Len(reads)
      PROVE  Marked(j) \in ReadType
  <2>1. reads[j] \in ReadType
    BY <1>1, ElementOfSeq
  <2>2. PICK b \in BOOLEAN : b = (reads[j].overtaken \/ (reads[i].kind = "list" /\ j < i))
    OBVIOUS
  <2>3. Marked(j) = [reads[j] EXCEPT !.overtaken = b]
    BY <2>2
  <2> HIDE DEF Marked
  <2> QED BY <2>1, <2>3 DEF ReadType
<1>3. /\ marked \in Seq(ReadType) /\ Len(marked) = Len(reads)
      /\ \A j \in 1 .. Len(reads) : marked[j] = Marked(j)
  BY <1>1, <1>2
<1>4. reads' = SubSeq(marked, 1, i - 1) \o SubSeq(marked, i + 1, Len(marked))
  BY DEF Left
<1>5. i \in 1 .. Len(reads)
  BY <1>1
<1> HIDE DEF marked, Marked
<1>6. /\ SubSeq(marked, 1, i - 1) \in Seq(ReadType) /\ Len(SubSeq(marked, 1, i - 1)) = i - 1
      /\ \A j \in 1 .. (i - 1) : SubSeq(marked, 1, i - 1)[j] = marked[j]
  BY <1>1, <1>3, <1>5
<1>7. /\ SubSeq(marked, i + 1, Len(marked)) \in Seq(ReadType)
      /\ Len(SubSeq(marked, i + 1, Len(marked))) = Len(reads) - i
      /\ \A j \in 1 .. (Len(reads) - i) : SubSeq(marked, i + 1, Len(marked))[j] = marked[i + j]
  BY <1>1, <1>3, <1>5
<1> DEFINE front == SubSeq(marked, 1, i - 1)
           back == SubSeq(marked, i + 1, Len(marked))
<1> HIDE DEF front, back
<1>8. /\ front \o back \in Seq(ReadType) /\ Len(front \o back) = Len(front) + Len(back)
      /\ \A j \in 1 .. (Len(front) + Len(back)) :
           (front \o back)[j] = IF j <= Len(front) THEN front[j] ELSE back[j - Len(front)]
  BY <1>6, <1>7, ConcatProperties DEF front, back
<1>9. Len(front) = i - 1 /\ Len(back) = Len(reads) - i /\ reads' = front \o back
  BY <1>4, <1>6, <1>7 DEF front, back
<1>10. /\ reads' \in Seq(ReadType) /\ DOMAIN reads' = 1 .. (Len(reads) - 1)
       /\ \A j \in 1 .. (Len(reads) - 1) :
            reads'[j] = IF j <= i - 1 THEN front[j] ELSE back[j - (i - 1)]
  <2>1. (i - 1) + (Len(reads) - i) = Len(reads) - 1
    BY <1>1, <1>5
  <2>2. Len(front) + Len(back) = Len(reads) - 1
    BY <1>9, <2>1
  <2>3. reads' \in Seq(ReadType) /\ Len(reads') = Len(reads) - 1
    BY <1>8, <1>9, <2>2
  <2>4. DOMAIN reads' = 1 .. (Len(reads) - 1)
    BY <2>3, LenProperties
  <2>5. \A j \in 1 .. (Len(reads) - 1) :
          reads'[j] = IF j <= i - 1 THEN front[j] ELSE back[j - (i - 1)]
    BY <1>8, <1>9, <2>2
  <2> QED BY <2>3, <2>4, <2>5
<1>11. ASSUME NEW j \in 1 .. (Len(reads) - 1)
       PROVE  \E k \in DOMAIN reads \ {i} :
                k = (IF j < i THEN j ELSE j + 1) /\ reads'[j] = Marked(k)
  <2>1. CASE j < i
    <3>1. j \in 1 .. (i - 1) /\ j \in DOMAIN reads \ {i} /\ j \in 1 .. Len(reads)
      BY <1>1, <1>5, <2>1
    <3>2. reads'[j] = front[j]
      BY <1>1, <1>5, <1>10, <2>1
    <3>3. reads'[j] = Marked(j)
      BY <1>3, <1>6, <3>1, <3>2 DEF front
    <3> QED BY <2>1, <3>1, <3>3
  <2>2. CASE ~(j < i)
    <3>1. /\ j + 1 \in DOMAIN reads \ {i} /\ j + 1 \in 1 .. Len(reads)
          /\ j - (i - 1) \in 1 .. (Len(reads) - i) /\ i + (j - (i - 1)) = j + 1
      BY <1>1, <1>5, <2>2
    <3>2. reads'[j] = back[j - (i - 1)]
      BY <1>1, <1>5, <1>10, <2>2
    <3>3. back[j - (i - 1)] = marked[j + 1]
      BY <1>7, <3>1 DEF back
    <3>4. reads'[j] = Marked(j + 1)
      BY <1>3, <3>1, <3>2, <3>3
    <3> QED BY <2>2, <3>1, <3>4
  <2> QED BY <2>1, <2>2
<1> QED
  BY <1>10, <1>11 DEF Marked

\* What the page makes of answer i.
LEMMA AnswerIsShown ==
  ASSUME StreamTyped, NEW i \in DOMAIN reads, ReceiveRead(i)
  PROVE  /\ list' \in ListType /\ list'.shown = list.shown
         /\ reads[i].overtaken => list'.late
         /\ reads[i].kind = "list" /\ reads[i].answer = "ok" => list'.devices = reads[i].devices
         /\ reads[i].kind = "list" /\ reads[i].answer # "ok" => list'.error
         /\ reads[i].kind = "tags" =>
              \/ list'.error = TRUE
              \/ /\ list'.error = list.error /\ (list.late => list'.late)
                 /\ reads[i].answer = "ok"
                 /\ list'.devices = [list.devices EXCEPT ![reads[i].device] =
                                       reads[i].devices[reads[i].device]]
<1> DEFINE c == reads[i]
           late == c.overtaken \/ (c.kind = "tags" /\ list.late)
<1>1. /\ c \in ReadType /\ list \in ListType /\ (c.kind = "tags" => c.device \in Device)
      /\ late \in BOOLEAN
  BY ElementOfSeq, LenProperties DEF StreamTyped
<1>2. c.answer \in {"ok", "failed"} /\ c.kind \in {"list", "tags"}
  BY <1>1 DEF ReceiveRead, ReadType
<1>3. CASE c.kind = "list" /\ c.answer = "ok"
  <2>1. list' = [list EXCEPT !.devices = c.devices, !.loading = FALSE, !.error = FALSE,
                             !.late = late]
    BY <1>3 DEF ReceiveRead
  <2>2. c.devices \in DevicesType
    BY <1>1 DEF ReadType
  <2> HIDE DEF late
  <2>3. list' \in ListType /\ list'.shown = list.shown /\ list'.devices = c.devices /\ list'.late = late
    BY <1>1, <2>1, <2>2 DEF ListType
  <2> QED BY <1>3, <2>3 DEF late
<1>4. CASE c.kind = "list" /\ c.answer = "failed"
  <2>1. list' = [list EXCEPT !.loading = FALSE, !.error = TRUE, !.late = late]
    BY <1>4 DEF ReceiveRead
  <2> HIDE DEF late
  <2>3. list' \in ListType /\ list'.shown = list.shown /\ list'.error /\ list'.late = late
    BY <1>1, <2>1 DEF ListType
  <2> QED BY <1>4, <2>3 DEF late
<1>5. CASE c.kind = "tags" /\ c.answer = "failed"
  <2>1. list' = [list EXCEPT !.error = TRUE, !.late = late]
    BY <1>5 DEF ReceiveRead
  <2> HIDE DEF late
  <2>3. list' \in ListType /\ list'.shown = list.shown /\ list'.error = TRUE /\ list'.late = late
    BY <1>1, <2>1 DEF ListType
  <2> QED BY <1>5, <2>3 DEF late
<1>6. CASE c.kind = "tags" /\ c.answer = "ok"
  <2> DEFINE shown == [list.devices EXCEPT ![c.device] = c.devices[c.device]]
  <2>1. shown \in DevicesType
    BY <1>1, <1>6 DEF ListType, ReadType, DevicesType
  <2>2. list' = [list EXCEPT !.devices = shown, !.late = late]
    BY <1>1, <1>6 DEF ReceiveRead, ListType
  <2> HIDE DEF shown, late
  <2>3. /\ list' \in ListType /\ list'.shown = list.shown /\ list'.error = list.error
        /\ list'.devices = shown /\ list'.late = late
    BY <1>1, <2>1, <2>2 DEF ListType
  <2> QED BY <1>6, <2>3 DEF shown, late
<1> QED
  BY <1>2, <1>3, <1>4, <1>5, <1>6

LEMMA AnswerIsRead ==
  ASSUME StreamInv, NEW i \in DOMAIN reads, ReceiveRead(i)
  PROVE  StreamInv'
<1>1. /\ StreamTyped /\ reads \in Seq(ReadType) /\ list \in ListType /\ reads[i] \in ReadType
      /\ DOMAIN reads = 1 .. Len(reads) /\ Len(reads) \in Nat
      /\ \A k \in DOMAIN reads : reads[k] \in ReadType
  BY LenProperties, ElementOfSeq DEF StreamInv, StreamTyped
<1>2. reads' = Left(i) /\ UNCHANGED <<record, eventSeq, uidSeq, stream, wire>>
  BY DEF ReceiveRead
<1> DEFINE At(j) == IF j < i THEN j ELSE j + 1
<1>3. /\ reads' \in Seq(ReadType) /\ DOMAIN reads' = 1 .. (Len(reads) - 1)
      /\ \A j \in DOMAIN reads' :
           /\ At(j) \in DOMAIN reads \ {i}
           /\ reads'[j] = [reads[At(j)] EXCEPT !.overtaken =
                             @ \/ (reads[i].kind = "list" /\ At(j) < i)]
  BY <1>1, <1>2, AnswerLeaves
<1>4. \A j \in DOMAIN reads' :
        /\ reads'[j].kind = reads[At(j)].kind /\ reads'[j].device = reads[At(j)].device
        /\ reads'[j].answer = reads[At(j)].answer /\ reads'[j].devices = reads[At(j)].devices
        /\ reads'[j].overtaken =
             (reads[At(j)].overtaken \/ (reads[i].kind = "list" /\ At(j) < i))
  <2>1. ASSUME NEW j \in DOMAIN reads' PROVE reads[At(j)] \in ReadType
    BY <1>1, <1>3
  <2> HIDE DEF At
  <2> QED BY <1>3, <2>1 DEF ReadType
<1>5. /\ list' \in ListType /\ list'.shown = list.shown
      /\ reads[i].overtaken => list'.late
      /\ reads[i].kind = "list" /\ reads[i].answer = "ok" => list'.devices = reads[i].devices
      /\ reads[i].kind = "list" /\ reads[i].answer # "ok" => list'.error
      /\ reads[i].kind = "tags" =>
           \/ list'.error = TRUE
           \/ /\ list'.error = list.error /\ (list.late => list'.late)
              /\ reads[i].answer = "ok"
              /\ list'.devices = [list.devices EXCEPT ![reads[i].device] =
                                    reads[i].devices[reads[i].device]]
  BY <1>1, AnswerIsShown
<1>6. StreamTyped'
  <2>1. \A j \in DOMAIN reads' : reads'[j].kind = "tags" => reads'[j].device \in Device
    <3> HIDE DEF At
    <3> QED BY <1>1, <1>3, <1>4 DEF StreamTyped
  <2> QED BY <1>1, <1>2, <1>3, <1>5, <2>1 DEF StreamTyped
<1>7. ASSUME UpToDate PROVE UpToDate'
  <2>1. \A j \in DOMAIN reads' :
          reads'[j].answer = "ok" /\ ~reads'[j].overtaken => reads'[j].devices = record'
    <3>1. SUFFICES ASSUME NEW j \in DOMAIN reads', reads'[j].answer = "ok", ~reads'[j].overtaken
                   PROVE  reads'[j].devices = record
      BY <1>2
    <3>2. At(j) \in DOMAIN reads
      BY <1>3
    <3>3. /\ reads[At(j)].answer = "ok" /\ ~reads[At(j)].overtaken
          /\ reads'[j].devices = reads[At(j)].devices
      BY <1>4, <3>1
    <3> HIDE DEF At
    <3> QED BY <1>7, <3>2, <3>3 DEF UpToDate
  <2>2. reads[i].answer = "ok" /\ ~reads[i].overtaken => reads[i].devices = record
    BY <1>7 DEF UpToDate
  <2>3. CASE reads[i].kind = "list"
    BY <1>2, <1>5, <2>1, <2>2, <2>3 DEF UpToDate
  <2>4. CASE reads[i].kind = "tags"
    <3>1. [record EXCEPT ![reads[i].device] = record[reads[i].device]] = record
      BY <1>1 DEF StreamTyped, DevicesType
    <3>2. list'.devices = record \/ list'.error \/ list'.late
      BY <1>5, <1>7, <2>2, <2>4, <3>1 DEF UpToDate
    <3> QED BY <1>2, <2>1, <3>2 DEF UpToDate
  <2> QED BY <1>1, <2>3, <2>4 DEF ReadType
\* The list read again arrives, or one that was sent after it.
<1>8. ASSUME NEW k \in DOMAIN reads, AskedAgain(k), k <= i, reads[i].kind = "list",
             ~reads[i].overtaken
      PROVE  UpToDate'
  <2>1. reads[i].answer = "ok" => reads[i].devices = record
    BY <1>8 DEF AskedAgain, FreshFrom
  <2>2. list'.devices = record \/ list'.error \/ list'.late
    BY <1>5, <1>8, <2>1
  <2>3. ASSUME NEW j \in DOMAIN reads', reads'[j].answer = "ok", ~reads'[j].overtaken
        PROVE  reads'[j].devices = record
    <3>1. At(j) \in DOMAIN reads \ {i} /\ ~(At(j) < i)
      BY <1>3, <1>4, <1>8, <2>3
    <3>2. k <= At(j)
      <4> HIDE DEF At
      <4> QED BY <1>1, <1>8, <3>1
    <3>3. reads[At(j)].answer = "ok" /\ reads'[j].devices = reads[At(j)].devices
      BY <1>4, <2>3
    <3> HIDE DEF At
    <3> QED BY <1>8, <3>1, <3>2, <3>3 DEF AskedAgain, FreshFrom
  <2> QED BY <1>2, <2>2, <2>3 DEF UpToDate
\* Another answer arrives, and does not overtake it.
<1>9. ASSUME NEW k \in DOMAIN reads, AskedAgain(k), k # i, ~(reads[i].kind = "list" /\ k < i)
      PROVE  \E m \in DOMAIN reads' : AskedAgain(m)'
  <2>1. PICK m \in DOMAIN reads' : At(m) = k
    <3>1. CASE k < i
      <4>1. k \in DOMAIN reads' /\ At(k) = k
        BY <1>1, <1>3, <3>1
      <4> QED BY <4>1
    <3>2. CASE ~(k < i)
      <4>1. k - 1 \in DOMAIN reads' /\ At(k - 1) = k
        BY <1>1, <1>3, <1>9, <3>2
      <4> QED BY <4>1
    <3> QED BY <3>1, <3>2
  <2>2. reads'[m].kind = "list" /\ ~reads'[m].overtaken
    <3> HIDE DEF At
    <3> QED BY <1>4, <1>9, <2>1 DEF AskedAgain
  <2>3. ASSUME NEW j \in DOMAIN reads', m <= j, reads'[j].answer = "ok"
        PROVE  reads'[j].devices = record
    <3>1. At(j) \in DOMAIN reads /\ k <= At(j)
      BY <1>1, <1>3, <2>1, <2>3
    <3>2. reads[At(j)].answer = "ok" /\ reads'[j].devices = reads[At(j)].devices
      BY <1>4, <2>3
    <3> HIDE DEF At
    <3> QED BY <1>9, <3>1, <3>2 DEF AskedAgain, FreshFrom
  <2> QED BY <1>2, <2>2, <2>3 DEF AskedAgain, FreshFrom
\* An overtaken list arrives after it.
<1>10. ASSUME NEW k \in DOMAIN reads, AskedAgain(k), k < i, reads[i].overtaken,
              reads[i].kind = "list"
       PROVE  UpToDate'
  <2>1. list'.late
    BY <1>5, <1>10
  <2>3. ASSUME NEW j \in DOMAIN reads', reads'[j].answer = "ok", ~reads'[j].overtaken
        PROVE  reads'[j].devices = record
    <3>1. At(j) \in DOMAIN reads \ {i} /\ ~(At(j) < i)
      BY <1>3, <1>4, <1>10, <2>3
    <3>2. k <= At(j)
      <4> HIDE DEF At
      <4> QED BY <1>1, <1>10, <3>1
    <3>3. reads[At(j)].answer = "ok" /\ reads'[j].devices = reads[At(j)].devices
      BY <1>4, <2>3
    <3> HIDE DEF At
    <3> QED BY <1>10, <3>1, <3>2, <3>3 DEF AskedAgain, FreshFrom
  <2> QED BY <1>2, <2>1, <2>3 DEF UpToDate
<1>11. ListCatchesUp'
  <2>1. SUFFICES ASSUME list'.shown, stream' = "open", wire' = <<>>
                 PROVE  UpToDate' \/ \E m \in DOMAIN reads' : AskedAgain(m)'
    BY DEF ListCatchesUp
  <2>2. UpToDate \/ \E k \in DOMAIN reads : AskedAgain(k)
    BY <1>2, <1>5, <2>1 DEF StreamInv, ListCatchesUp
  <2>3. ASSUME NEW k \in DOMAIN reads, AskedAgain(k)
        PROVE  UpToDate' \/ \E m \in DOMAIN reads' : AskedAgain(m)'
    <3>1. CASE k = i
      <4>1. reads[i].kind = "list" /\ ~reads[i].overtaken /\ k <= i
        BY <1>1, <2>3, <3>1 DEF AskedAgain
      <4> QED BY <1>8, <2>3, <4>1
    <3>2. CASE k # i /\ ~(reads[i].kind = "list" /\ k < i)
      BY <1>9, <2>3, <3>2
    <3>3. CASE reads[i].kind = "list" /\ k < i
      <4>1. k <= i
        BY <1>1, <3>3
      <4> QED BY <1>8, <1>10, <2>3, <3>3, <4>1
    <3> QED BY <3>1, <3>2, <3>3
  <2> QED BY <1>7, <2>2, <2>3
<1> QED BY <1>6, <1>11 DEF StreamInv

\* A step of the Devices page, from a state in which its invariant holds.
LEMMA StreamStep ==
  ASSUME StreamInv, StreamNext
  PROVE  StreamInv'
<1>1. CASE UidChanges \/ OpenStream \/ \E d \in Device : DeviceChanges(d)
  BY <1>1, ServerSends
<1>2. CASE CloseStream \/ LeaveDevices
  BY <1>2, StreamIsClosed
<1>3. CASE ReceiveEvent
  BY <1>3, EventIsReceived
<1>4. CASE ShowDevices
  <2>1. StreamTyped /\ wire' \in Seq(EventType)
    BY <1>4 DEF StreamInv, StreamTyped, ShowDevices
  <2> QED
    BY <1>4, <2>1, ListIsLoaded DEF ShowDevices
<1>5. ASSUME NEW d \in Device, SaveTags(d) PROVE StreamInv'
  BY <1>5, TagsAreSaved
<1>6. ASSUME NEW i \in DOMAIN reads, ServeList(i) \/ ServeTags(i) \/ FailRead(i) PROVE StreamInv'
  BY <1>6, ReadIsAnswered, TagsAreServed
<1>7. ASSUME NEW i \in DOMAIN reads, ReceiveRead(i) PROVE StreamInv'
  BY <1>7, AnswerIsRead
<1> QED
  BY <1>1, <1>2, <1>3, <1>4, <1>5, <1>6, <1>7 DEF StreamNext

-----------------------------------------------------------------------------
(* The live view: the steps.                                               *)

LEMMA LiveStarts == LiveInit => LiveInv
<1>1. SUFFICES ASSUME LiveInit PROVE LiveInv
  OBVIOUS
<1>2. /\ <<>> \in Seq(ProviderType) /\ <<>> \in Seq(SocketType)
      /\ Len(<<>>) = 0 /\ DOMAIN <<>> = {}
  OBVIOUS
<1>3. view \in ViewType /\ view.socket = 0 /\ view.status = "idle"
  BY <1>1 DEF LiveInit, ViewType
<1>4. LiveTyped /\ MapSound
  <2>1. 0 \in 0 .. MaxProviders /\ 0 <= 0
    BY LiveViewAssumption
  <2>2. /\ providers \in [ViewSerial -> 0 .. MaxProviders]
        /\ \A s \in ViewSerial : providers[s] = 0
    BY <1>1, <2>1 DEF LiveInit
  <2>3. /\ isOnline \in [ViewSerial -> BOOLEAN] /\ closing \in BOOLEAN
        /\ drawing = {} /\ prov = <<>> /\ socket = <<>>
    BY <1>1 DEF LiveInit
  <2>4. LiveTyped
    BY <1>2, <1>3, <2>2, <2>3 DEF LiveTyped
  <2> QED
    BY <1>2, <2>1, <2>2, <2>3, <2>4 DEF MapSound
<1>5. ProvidersSound
  BY <1>1, <1>2 DEF LiveInit, ProvidersSound, Created
<1>6. ViewSound
  BY <1>1, <1>2, <1>3 DEF LiveInit, ViewSound, PictureIsOfTheSerial
<1> QED
  BY <1>4, <1>5, <1>6 DEF LiveInv

\* What the steps of the server may do to providers and sockets: the browser's
\* side is left alone, and sockets and providers stay what they are.
ServerMoves ==
  /\ UNCHANGED <<view, drawing>>
  /\ isOnline' \in [ViewSerial -> BOOLEAN] /\ closing' \in BOOLEAN
  /\ providers' \in [ViewSerial -> 0 .. MaxProviders]
  /\ prov' \in Seq(ProviderType) /\ Len(prov) <= Len(prov')
  /\ \A s \in ViewSerial : providers'[s] <= Len(prov')
  /\ socket' \in Seq(SocketType) /\ Len(socket') = Len(socket)
  /\ \A k \in Opened : socket'[k].serial = socket[k].serial
  /\ \A p \in DOMAIN prov' : ProviderSound(prov'[p])

LEMMA ServerKeepsTheView ==
  ASSUME LiveInv, ServerMoves
  PROVE  LiveInv'
<1>1. /\ LiveTyped /\ socket \in Seq(SocketType) /\ socket' \in Seq(SocketType)
      /\ view \in ViewType /\ Len(socket') = Len(socket) /\ UNCHANGED <<view, drawing>>
  BY DEF LiveInv, LiveTyped, ServerMoves
<1>2. DOMAIN socket' = DOMAIN socket /\ DOMAIN socket = 1 .. Len(socket) /\ Len(socket) \in Nat
  BY <1>1, LenProperties
<1>3. LiveTyped'
  BY <1>1, <1>2 DEF LiveTyped, ServerMoves, Opened
<1>4. ProvidersSound'
  BY <1>2 DEF ServerMoves, ProvidersSound, ProviderSound, Created, Opened
<1>5. ViewSound'
  <2>1. view.socket # 0 => view.socket \in Opened
    BY <1>2 DEF LiveInv, ViewSound, Opened
  <2> QED
    BY <1>1, <2>1 DEF LiveInv, ViewSound, PictureIsOfTheSerial, ServerMoves
<1>6. MapSound'
  BY DEF ServerMoves, MapSound
<1> QED
  BY <1>3, <1>4, <1>5, <1>6 DEF LiveInv

LEMMA Indices ==
  ASSUME LiveInv
  PROVE  /\ LiveTyped /\ prov \in Seq(ProviderType) /\ socket \in Seq(SocketType)
         /\ Created = 1 .. Len(prov) /\ Len(prov) \in Nat
         /\ Opened = 1 .. Len(socket) /\ Len(socket) \in Nat
         /\ \A p \in Created : prov[p] \in ProviderType /\ ProviderSound(prov[p])
         /\ \A k \in Opened : socket[k] \in SocketType
BY LenProperties, ElementOfSeq DEF LiveInv, LiveTyped, ProvidersSound, Created, Opened

\* One provider is changed, and at most one socket keeps its serial.
LEMMA ProviderMoves ==
  ASSUME LiveInv, NEW p \in Created, NEW v \in ProviderType, ProviderSound(v),
         prov' = [prov EXCEPT ![p] = v], UNCHANGED <<view, drawing, closing>>,
         isOnline' \in [ViewSerial -> BOOLEAN],
         providers' \in [ViewSerial -> 0 .. MaxProviders],
         \A s \in ViewSerial : providers'[s] <= Len(prov),
         socket' \in Seq(SocketType), Len(socket') = Len(socket),
         \A k \in Opened : socket'[k].serial = socket[k].serial
  PROVE  LiveInv'
<1>1. LiveTyped /\ Created = 1 .. Len(prov) /\ prov \in Seq(ProviderType)
  BY Indices
<1>2. /\ prov' \in Seq(ProviderType) /\ Len(prov') = Len(prov) /\ Len(prov) \in Nat
      /\ \A q \in Created : prov'[q] = IF q = p THEN v ELSE prov[q]
  BY <1>1, ExceptSeq, LenProperties
<1>3. DOMAIN prov' = Created
  BY <1>1, <1>2, LenProperties
<1>4. \A q \in DOMAIN prov' : ProviderSound(prov'[q])
  BY <1>2, <1>3 DEF LiveInv, ProvidersSound
<1>5. ServerMoves
  BY <1>1, <1>2, <1>4 DEF ServerMoves, LiveTyped
<1> QED
  BY <1>5, ServerKeepsTheView

LEMMA SocketsStay ==
  ASSUME LiveInv, UNCHANGED socket
  PROVE  /\ socket' \in Seq(SocketType) /\ Len(socket') = Len(socket)
         /\ \A k \in Opened : socket'[k].serial = socket[k].serial
BY DEF LiveInv, LiveTyped

\* A socket whose phase or provider changes.
LEMMA SocketMoves ==
  ASSUME LiveInv, NEW k, NEW e \in SocketType, k \in Opened => e.serial = socket[k].serial,
         socket' = [socket EXCEPT ![k] = e]
  PROVE  /\ socket' \in Seq(SocketType) /\ Len(socket') = Len(socket)
         /\ \A j \in Opened : socket'[j].serial = socket[j].serial
<1>1. socket \in Seq(SocketType) /\ Opened = 1 .. Len(socket)
  BY Indices
<1>2. CASE k \in Opened
  BY <1>1, <1>2, ExceptSeq
<1>3. CASE k \notin Opened
  <2>1. socket' = socket
    BY <1>1, <1>3 DEF Opened
  <2> QED
    BY <1>1, <2>1
<1> QED
  BY <1>2, <1>3

LEMMA PhaseMoves ==
  ASSUME LiveInv, NEW k \in Opened, NEW phase \in {"awaiting", "subscribed", "closed"},
         \/ socket' = [socket EXCEPT ![k].phase = phase]
         \/ \E p \in Created : socket' = [socket EXCEPT ![k].phase = phase, ![k].provider = p]
  PROVE  /\ socket' \in Seq(SocketType) /\ Len(socket') = Len(socket)
         /\ \A j \in Opened : socket'[j].serial = socket[j].serial
<1>1. /\ socket \in Seq(SocketType) /\ socket[k] \in SocketType
      /\ Created = 1 .. Len(prov) /\ Len(prov) \in Nat
  BY Indices
<1>2. CASE socket' = [socket EXCEPT ![k].phase = phase]
  <2> DEFINE e == [socket[k] EXCEPT !.phase = phase]
  <2>1. e \in SocketType /\ e.serial = socket[k].serial
    BY <1>1 DEF SocketType
  <2>2. socket' = [socket EXCEPT ![k] = e]
    BY <1>1, <1>2
  <2> HIDE DEF e
  <2> QED
    BY <2>1, <2>2, SocketMoves
<1>3. ASSUME NEW p \in Created, socket' = [socket EXCEPT ![k].phase = phase, ![k].provider = p]
      PROVE  /\ socket' \in Seq(SocketType) /\ Len(socket') = Len(socket)
             /\ \A j \in Opened : socket'[j].serial = socket[j].serial
  <2> DEFINE e == [socket[k] EXCEPT !.phase = phase, !.provider = p]
  <2>1. p \in Nat
    BY <1>1
  <2>2. e \in SocketType /\ e.serial = socket[k].serial
    BY <1>1, <2>1 DEF SocketType
  <2>3. socket' = [socket EXCEPT ![k] = e]
    BY <1>1, <1>3 DEF Opened
  <2> HIDE DEF e
  <2> QED
    BY <2>2, <2>3, SocketMoves
<1> QED
  BY <1>2, <1>3

LEMMA StoppedIsSound ==
  ASSUME NEW v \in ProviderType, ProviderSound(v)
  PROVE  Stopped(v) \in ProviderType /\ ProviderSound(Stopped(v))
<1>1. CASE v.active = "primary"
  BY <1>1 DEF Stopped, TransportClosed, ProviderType, ProviderSound
<1>2. CASE v.active = "fallback"
  BY <1>2 DEF Stopped, ProviderType, ProviderSound
<1>3. CASE v.active = "none"
  BY <1>3 DEF Stopped, ProviderType, ProviderSound
<1> QED
  BY <1>1, <1>2, <1>3 DEF ProviderType

LEMMA DeviceComes ==
  ASSUME LiveInv, NEW s \in ViewSerial, DeviceOnline(s)
  PROVE  LiveInv'
<1> DEFINE v == NewProvider(s)
<1>1. /\ LiveTyped /\ prov \in Seq(ProviderType) /\ Len(prov) \in Nat
      /\ Created = 1 .. Len(prov)
  BY Indices
<1>2. v \in ProviderType /\ ProviderSound(v)
  BY DEF NewProvider, ProviderType, ProviderSound
<1>3. /\ prov' = Append(prov, v) /\ providers' = [providers EXCEPT ![s] = Len(prov) + 1]
      /\ isOnline' = [isOnline EXCEPT ![s] = TRUE] /\ UNCHANGED <<closing, socket, view, drawing>>
      /\ Len(prov) < MaxProviders
  BY DEF DeviceOnline
<1> HIDE DEF v
<1>4. /\ prov' \in Seq(ProviderType) /\ Len(prov') = Len(prov) + 1
      /\ \A q \in 1 .. Len(prov) : prov'[q] = prov[q]
      /\ prov'[Len(prov) + 1] = v
      /\ DOMAIN prov' = 1 .. (Len(prov) + 1)
  BY <1>1, <1>2, <1>3
<1>5. \A q \in 1 .. (Len(prov) + 1) : q = Len(prov) + 1 \/ q \in 1 .. Len(prov)
  BY <1>1
<1>6. \A q \in DOMAIN prov' : ProviderSound(prov'[q])
  BY <1>1, <1>2, <1>4, <1>5 DEF LiveInv, ProvidersSound
<1>7. /\ providers' \in [ViewSerial -> 0 .. MaxProviders]
      /\ \A t \in ViewSerial : providers'[t] <= Len(prov')
  <2>1. Len(prov) + 1 \in 0 .. MaxProviders
    BY <1>1, <1>3, LiveViewAssumption
  <2>2. \A t \in ViewSerial : providers[t] <= Len(prov) + 1
    BY <1>1, LiveViewAssumption DEF LiveInv, MapSound, LiveTyped
  <2> QED
    BY <1>1, <1>3, <1>4, <2>1, <2>2 DEF LiveTyped
<1>8. ServerMoves
  <2>1. /\ socket' \in Seq(SocketType) /\ Len(socket') = Len(socket)
        /\ \A k \in Opened : socket'[k].serial = socket[k].serial
    BY <1>3, SocketsStay
  <2>2. isOnline' \in [ViewSerial -> BOOLEAN] /\ closing' \in BOOLEAN
    BY <1>1, <1>3 DEF LiveTyped
  <2>3. Len(prov) <= Len(prov')
    BY <1>1, <1>4
  <2> QED
    BY <1>3, <1>4, <1>6, <1>7, <2>1, <2>2, <2>3 DEF ServerMoves
<1> QED
  BY <1>8, ServerKeepsTheView

LEMMA DeviceLeaves ==
  ASSUME LiveInv, NEW s \in ViewSerial, DeviceLeft(s)
  PROVE  LiveInv'
<1>1. /\ LiveTyped /\ prov \in Seq(ProviderType) /\ Len(prov) \in Nat
      /\ Created = 1 .. Len(prov)
  BY Indices
<1>2. /\ prov' = [prov EXCEPT ![providers[s]] = Stopped(prov[providers[s]])]
      /\ providers' = [providers EXCEPT ![s] = 0]
      /\ isOnline' = [isOnline EXCEPT ![s] = FALSE] /\ UNCHANGED <<closing, socket, view, drawing>>
  BY <1>1 DEF DeviceLeft
<1>3. /\ isOnline' \in [ViewSerial -> BOOLEAN] /\ closing' \in BOOLEAN
      /\ providers' \in [ViewSerial -> 0 .. MaxProviders]
      /\ \A t \in ViewSerial : providers'[t] <= Len(prov)
  BY <1>1, <1>2, LiveViewAssumption DEF LiveTyped, LiveInv, MapSound
<1>4. /\ socket' \in Seq(SocketType) /\ Len(socket') = Len(socket)
      /\ \A k \in Opened : socket'[k].serial = socket[k].serial
  BY <1>2, SocketsStay
<1>5. CASE providers[s] \in Created
  <2> DEFINE v == Stopped(prov[providers[s]])
  <2>1. v \in ProviderType /\ ProviderSound(v)
    BY <1>1, <1>5, Indices, StoppedIsSound
  <2>2. prov' = [prov EXCEPT ![providers[s]] = v]
    BY <1>2
  <2> HIDE DEF v
  <2> QED
    BY <1>2, <1>3, <1>4, <1>5, <2>1, <2>2, ProviderMoves
<1>6. CASE providers[s] \notin Created
  <2>1. prov' = prov
    BY <1>1, <1>2, <1>6 DEF Created
  <2>2. ServerMoves
    <3>1. /\ prov' \in Seq(ProviderType) /\ Len(prov) <= Len(prov')
          /\ \A t \in ViewSerial : providers'[t] <= Len(prov')
      BY <1>1, <1>3, <2>1
    <3>2. \A p \in DOMAIN prov' : ProviderSound(prov'[p])
      BY <2>1 DEF LiveInv, ProvidersSound, Created
    <3> QED
      BY <1>2, <1>3, <1>4, <3>1, <3>2 DEF ServerMoves
  <2> QED
    BY <2>2, ServerKeepsTheView
<1> QED
  BY <1>5, <1>6

LEMMA ViewsAreClosed ==
  ASSUME LiveInv, CloseViews
  PROVE  LiveInv'
<1>1. /\ LiveTyped /\ prov \in Seq(ProviderType) /\ Len(prov) \in Nat
      /\ Created = 1 .. Len(prov)
  BY Indices
<1>2. /\ prov' = [p \in Created |-> IF \E s \in ViewSerial : providers[s] = p
                                    THEN Stopped(prov[p]) ELSE prov[p]]
      /\ closing' = TRUE /\ providers' = [s \in ViewSerial |-> 0]
      /\ UNCHANGED <<isOnline, socket, view, drawing>>
  BY DEF CloseViews
<1>3. \A p \in Created : prov'[p] \in ProviderType /\ ProviderSound(prov'[p])
  <2>1. TAKE p \in Created
  <2>2. prov[p] \in ProviderType /\ ProviderSound(prov[p])
    BY Indices
  <2>3. Stopped(prov[p]) \in ProviderType /\ ProviderSound(Stopped(prov[p]))
    BY <2>2, StoppedIsSound
  <2>4. prov'[p] = Stopped(prov[p]) \/ prov'[p] = prov[p]
    BY <1>2
  <2> QED
    BY <2>2, <2>3, <2>4
<1>4. DOMAIN prov' = 1 .. Len(prov)
  BY <1>1, <1>2
<1>5. prov' = [p \in 1 .. Len(prov) |-> prov'[p]]
  BY <1>1, <1>2
<1>6. prov' \in Seq(ProviderType) /\ Len(prov') = Len(prov)
  <2>1. prov' \in [1 .. Len(prov) -> ProviderType]
    BY <1>1, <1>3, <1>5
  <2> QED
    BY <1>1, <2>1
<1>7. /\ isOnline' \in [ViewSerial -> BOOLEAN] /\ closing' \in BOOLEAN
      /\ providers' \in [ViewSerial -> 0 .. MaxProviders]
      /\ \A t \in ViewSerial : providers'[t] <= Len(prov')
  BY <1>1, <1>2, <1>6, LiveViewAssumption DEF LiveTyped
<1>8. /\ socket' \in Seq(SocketType) /\ Len(socket') = Len(socket)
      /\ \A k \in Opened : socket'[k].serial = socket[k].serial
  BY <1>2, SocketsStay
<1>9. \A p \in DOMAIN prov' : ProviderSound(prov'[p])
  BY <1>1, <1>3, <1>4
<1>10. Len(prov) <= Len(prov')
  BY <1>1, <1>6
<1>11. ServerMoves
  BY <1>2, <1>6, <1>7, <1>8, <1>9, <1>10 DEF ServerMoves
<1> QED
  BY <1>11, ServerKeepsTheView

\* A step of the server at one provider, after which the provider is v.
LEMMA ProviderIs ==
  ASSUME LiveInv, NEW p \in Created, NEW v \in ProviderType, ProviderSound(v),
         prov' = [prov EXCEPT ![p] = v],
         UNCHANGED <<isOnline, closing, providers, view, drawing>>,
         socket' \in Seq(SocketType), Len(socket') = Len(socket),
         \A k \in Opened : socket'[k].serial = socket[k].serial
  PROVE  LiveInv'
<1>1. /\ isOnline' \in [ViewSerial -> BOOLEAN]
      /\ providers' \in [ViewSerial -> 0 .. MaxProviders]
      /\ \A s \in ViewSerial : providers'[s] <= Len(prov)
  BY DEF LiveInv, LiveTyped, MapSound
<1> QED
  BY <1>1, ProviderMoves

LEMMA SocketIsServed ==
  ASSUME LiveInv, NEW k \in Opened, ServeSocket(k)
  PROVE  LiveInv'
<1> DEFINE p == providers[socket[k].serial]
<1>1. /\ LiveTyped /\ prov \in Seq(ProviderType) /\ Len(prov) \in Nat
      /\ Created = 1 .. Len(prov) /\ Opened = 1 .. Len(socket) /\ Len(socket) \in Nat
      /\ socket[k] \in SocketType
  BY Indices
<1>2. p \in 0 .. MaxProviders /\ p <= Len(prov)
  BY <1>1 DEF LiveTyped, SocketType, LiveInv, MapSound
<1>3. UNCHANGED <<isOnline, closing, providers, view, drawing>>
  BY DEF ServeSocket
<1>0. p # 0 => p \in Created
  BY <1>1, <1>2, LiveViewAssumption
<1>4. CASE Refused(k) /\ UNCHANGED prov
  <2>1. /\ socket' \in Seq(SocketType) /\ Len(socket') = Len(socket)
        /\ \A j \in Opened : socket'[j].serial = socket[j].serial
    BY <1>4, PhaseMoves DEF Refused
  <2>2. ServerMoves
    <3>1. /\ prov' \in Seq(ProviderType) /\ Len(prov) <= Len(prov')
          /\ \A s \in ViewSerial : providers'[s] <= Len(prov')
      BY <1>1, <1>3, <1>4 DEF LiveInv, MapSound
    <3>2. \A q \in DOMAIN prov' : ProviderSound(prov'[q])
      BY <1>4 DEF LiveInv, ProvidersSound, Created
    <3>3. /\ isOnline' \in [ViewSerial -> BOOLEAN] /\ closing' \in BOOLEAN
          /\ providers' \in [ViewSerial -> 0 .. MaxProviders]
      BY <1>1, <1>3 DEF LiveTyped
    <3> QED
      BY <1>3, <2>1, <3>1, <3>2, <3>3 DEF ServerMoves
  <2> QED
    BY <2>2, ServerKeepsTheView
<1>5. CASE /\ p # 0
           /\ prov[p].active # "none" /\ StateOf(prov[p]) \in {"READY", "DEGRADED"}
           /\ prov' = [prov EXCEPT ![p].listeners = @ \cup {k}, ![p].fed = @ \cup {k}]
           /\ socket' = [socket EXCEPT ![k].phase = "subscribed", ![k].provider = p]
  <2>1. p \in Created
    BY <1>0, <1>5
  <2>2. prov[p] \in ProviderType /\ ProviderSound(prov[p])
    BY <2>1, Indices
  <2>3. /\ socket' \in Seq(SocketType) /\ Len(socket') = Len(socket)
        /\ \A j \in Opened : socket'[j].serial = socket[j].serial
    BY <1>5, <2>1, PhaseMoves
  <2> DEFINE v == [prov[p] EXCEPT !.listeners = prov[p].listeners \cup {k},
                                  !.fed = prov[p].fed \cup {k}]
  <2>4. prov' = [prov EXCEPT ![p] = v]
    BY <1>5, <2>1, <2>2 DEF Created, ProviderType
  <2> HIDE DEF p
  <2>5. v \in ProviderType /\ ProviderSound(v)
    <3>1. k \in Nat
      BY <1>1
    <3>2. v \in ProviderType
      BY <2>2, <3>1 DEF ProviderType
    <3> QED
      BY <2>2, <3>2 DEF ProviderType, ProviderSound
  <2> HIDE DEF v
  <2> QED
    BY <1>3, <2>1, <2>3, <2>4, <2>5, ProviderIs
<1>6. CASE /\ p # 0
           /\ ~(prov[p].active # "none" /\ StateOf(prov[p]) \in {"READY", "DEGRADED"})
           /\ prov' = [prov EXCEPT ![p].state = "STARTING", ![p].step = "primary",
                                   ![p].caller = k, ![p].tango = "STARTING"]
           /\ socket' = [socket EXCEPT ![k].phase = "awaiting", ![k].provider = p]
  <2>1. p \in Created
    BY <1>0, <1>6
  <2>2. prov[p] \in ProviderType /\ ProviderSound(prov[p])
    BY <2>1, Indices
  <2>3. /\ socket' \in Seq(SocketType) /\ Len(socket') = Len(socket)
        /\ \A j \in Opened : socket'[j].serial = socket[j].serial
    BY <1>6, <2>1, PhaseMoves
  <2> DEFINE v == [prov[p] EXCEPT !.state = "STARTING", !.step = "primary", !.caller = k,
                                  !.tango = "STARTING"]
  <2>4. prov' = [prov EXCEPT ![p] = v]
    BY <1>6, <2>1, <2>2 DEF Created, ProviderType
  <2>5. prov[p].shots # "DEGRADED"
    BY <1>6, <2>2 DEF ProviderSound, StateOf
  <2> HIDE DEF p
  <2>6. v \in ProviderType
    <3>1. k \in Nat
      BY <1>1
    <3> QED
      BY <2>2, <3>1 DEF ProviderType
  <2>7. ProviderSound(v)
    BY <2>2, <2>5 DEF ProviderSound, ProviderType
  <2> HIDE DEF v
  <2> QED
    BY <1>3, <2>1, <2>3, <2>4, <2>6, <2>7, ProviderIs
<1> QED
  BY <1>4, <1>5, <1>6 DEF ServeSocket

LEMMA SocketEnded ==
  ASSUME LiveInv, NEW k \in Opened, SocketEnds(k)
  PROVE  LiveInv'
<1> DEFINE p == socket[k].provider
<1>1. /\ LiveTyped /\ prov \in Seq(ProviderType) /\ Len(prov) \in Nat
      /\ Created = 1 .. Len(prov)
  BY Indices
<1>2. /\ prov' = [prov EXCEPT ![p].listeners = @ \ {k}, ![p].fed = @ \ {k}]
      /\ UNCHANGED <<isOnline, closing, providers, view, drawing>>
      /\ socket' = [socket EXCEPT ![k].phase = "closed"]
  BY DEF SocketEnds
<1>3. /\ socket' \in Seq(SocketType) /\ Len(socket') = Len(socket)
      /\ \A j \in Opened : socket'[j].serial = socket[j].serial
  BY <1>2, PhaseMoves
<1>4. CASE p \in Created
  <2>1. prov[p] \in ProviderType /\ ProviderSound(prov[p])
    BY <1>4, Indices
  <2> DEFINE v == [prov[p] EXCEPT !.listeners = prov[p].listeners \ {k},
                                  !.fed = prov[p].fed \ {k}]
  <2>2. prov' = [prov EXCEPT ![p] = v]
    BY <1>2, <1>4, <2>1 DEF Created, ProviderType
  <2> HIDE DEF p
  <2>3. v \in ProviderType
    BY <2>1 DEF ProviderType
  <2>4. ProviderSound(v)
    BY <2>1 DEF ProviderSound, ProviderType
  <2> HIDE DEF v
  <2> QED
    BY <1>2, <1>3, <1>4, <2>2, <2>3, <2>4, ProviderIs
<1>5. CASE p \notin Created
  <2>1. prov' = prov
    BY <1>1, <1>2, <1>5 DEF Created
  <2>2. ServerMoves
    <3>1. /\ prov' \in Seq(ProviderType) /\ Len(prov) <= Len(prov')
          /\ \A s \in ViewSerial : providers'[s] <= Len(prov')
      <4>1. Len(prov) <= Len(prov)
        BY <1>1
      <4> QED
        BY <1>1, <1>2, <2>1, <4>1 DEF LiveInv, MapSound
    <3>2. \A q \in DOMAIN prov' : ProviderSound(prov'[q])
      BY <2>1 DEF LiveInv, ProvidersSound, Created
    <3>3. /\ isOnline' \in [ViewSerial -> BOOLEAN] /\ closing' \in BOOLEAN
          /\ providers' \in [ViewSerial -> 0 .. MaxProviders]
      BY <1>1, <1>2 DEF LiveTyped
    <3> QED
      BY <1>2, <1>3, <3>1, <3>2, <3>3 DEF ServerMoves
  <2> QED
    BY <2>2, ServerKeepsTheView
<1> QED
  BY <1>4, <1>5

\* The provider after each step of its start, and when its stream ends.
LEMMA StepsAreSound ==
  ASSUME NEW v \in ProviderType, ProviderSound(v)
  PROVE  /\ v.step = "primary" =>
              /\ [v EXCEPT !.transport = "running"] \in ProviderType
              /\ ProviderSound([v EXCEPT !.transport = "running"])
         /\ v.transport = "running" /\ v.step # "primary" =>
              /\ [v EXCEPT !.transport = "ended", !.tango = "ERROR"] \in ProviderType
              /\ ProviderSound([v EXCEPT !.transport = "ended", !.tango = "ERROR"])
         /\ v.step = "fallback" =>
              /\ [v EXCEPT !.shots = "STOPPED", !.active = "none", !.state = "ERROR",
                           !.step = "idle", !.caller = 0] \in ProviderType
              /\ ProviderSound([v EXCEPT !.shots = "STOPPED", !.active = "none",
                                         !.state = "ERROR", !.step = "idle", !.caller = 0])
BY DEF ProviderType, ProviderSound

LEMMA FailingIsSound ==
  ASSUME NEW v \in ProviderType, ProviderSound(v), v.step = "primary"
  PROVE  /\ TransportClosed([v EXCEPT !.tango = "STOPPED", !.step = "fallback",
                                      !.shots = "STARTING"]) \in ProviderType
         /\ ProviderSound(TransportClosed([v EXCEPT !.tango = "STOPPED", !.step = "fallback",
                                                    !.shots = "STARTING"]))
BY DEF TransportClosed, ProviderType, ProviderSound

LEMMA ActivatingIsSound ==
  ASSUME NEW v \in ProviderType, ProviderSound(v), NEW which \in {"primary", "fallback"},
         v.step = which
  PROVE  LET w == IF which = "primary" THEN [v EXCEPT !.tango = "READY"]
                  ELSE [v EXCEPT !.shots = "DEGRADED"]
         IN Activated(w, which, w.caller) \in ProviderType
            /\ ProviderSound(Activated(w, which, w.caller))
<1>1. v.caller \in Opened /\ v.caller \in Nat
  BY DEF ProviderSound, ProviderType
<1>2. v.listeners \cup {v.caller} \in SUBSET Nat
  BY <1>1 DEF ProviderType
<1>3. CASE which = "primary"
  <2> DEFINE w == [v EXCEPT !.tango = "READY"]
             a == [w EXCEPT !.active = "primary", !.step = "idle", !.caller = 0,
                            !.state = "READY", !.listeners = v.listeners \cup {v.caller},
                            !.fed = v.listeners \cup {v.caller}]
  <2>1. w \in ProviderType /\ w.caller = v.caller /\ w.listeners = v.listeners
    BY DEF ProviderType
  <2>2. Activated(w, "primary", w.caller) = a
    BY <2>1 DEF Activated, ProviderType
  <2>5. 0 \in Nat
    OBVIOUS
  <2> HIDE DEF w
  <2>3. a \in ProviderType
    BY <1>2, <2>1, <2>5 DEF ProviderType
  <2>4. ProviderSound(a)
    BY <1>1, <1>3, <2>1 DEF ProviderSound, ProviderType, w
  <2>6. Activated(w, which, w.caller) \in ProviderType
          /\ ProviderSound(Activated(w, which, w.caller))
    BY <1>3, <2>2, <2>3, <2>4
  <2> QED
    BY <1>3, <2>6 DEF w
<1>4. CASE which = "fallback"
  <2> DEFINE w == [v EXCEPT !.shots = "DEGRADED"]
             a == [w EXCEPT !.active = "fallback", !.step = "idle", !.caller = 0,
                            !.state = "DEGRADED", !.listeners = v.listeners \cup {v.caller},
                            !.fed = v.listeners \cup {v.caller}]
  <2>1. w \in ProviderType /\ w.caller = v.caller /\ w.listeners = v.listeners
    BY DEF ProviderType
  <2>2. Activated(w, "fallback", w.caller) = a
    BY <2>1 DEF Activated, ProviderType
  <2>5. 0 \in Nat
    OBVIOUS
  <2> HIDE DEF w
  <2>3. a \in ProviderType
    BY <1>2, <2>1, <2>5 DEF ProviderType
  <2>4. ProviderSound(a)
    BY <1>1, <1>4, <2>1 DEF ProviderSound, ProviderType, w
  <2>6. Activated(w, which, w.caller) \in ProviderType
          /\ ProviderSound(Activated(w, which, w.caller))
    BY <1>4, <2>2, <2>3, <2>4
  <2> QED
    BY <1>4, <2>6 DEF w
<1> QED
  BY <1>3, <1>4

LEMMA ProviderWorks ==
  ASSUME LiveInv, NEW p \in Created,
         \/ PrimaryOpens(p) \/ PrimaryReady(p) \/ PrimaryFails(p)
         \/ FallbackReady(p) \/ FallbackFails(p) \/ StreamEnds(p)
  PROVE  LiveInv'
<1>1. /\ LiveTyped /\ prov[p] \in ProviderType /\ ProviderSound(prov[p])
      /\ prov \in Seq(ProviderType) /\ Created = 1 .. Len(prov)
  BY Indices
<1>2. UNCHANGED <<isOnline, closing, providers, view, drawing>>
  BY DEF PrimaryOpens, PrimaryReady, PrimaryFails, FallbackReady, FallbackFails, StreamEnds
<1>3. prov[p].step # "idle" => prov[p].caller \in Opened
  BY <1>1 DEF ProviderSound
<1>4. /\ socket' \in Seq(SocketType) /\ Len(socket') = Len(socket)
      /\ \A k \in Opened : socket'[k].serial = socket[k].serial
  <2>1. CASE PrimaryOpens(p) \/ PrimaryFails(p) \/ StreamEnds(p)
    <3>1. UNCHANGED socket
      BY <2>1 DEF PrimaryOpens, PrimaryFails, StreamEnds
    <3> QED
      BY <3>1, SocketsStay
  <2>2. CASE PrimaryReady(p) \/ FallbackReady(p) \/ FallbackFails(p)
    <3> DEFINE k == prov[p].caller
    <3>1. k \in Opened /\ (Subscribed(k) \/ Refused(k))
      BY <1>3, <2>2 DEF PrimaryReady, FallbackReady, FallbackFails
    <3> HIDE DEF k
    <3> QED
      BY <3>1, PhaseMoves DEF Subscribed, Refused
  <2> QED
    BY <2>1, <2>2
<1>5. PICK v \in ProviderType : ProviderSound(v) /\ prov' = [prov EXCEPT ![p] = v]
  <2> DEFINE u == prov[p]
  <2>0. u \in ProviderType /\ ProviderSound(u)
    BY <1>1
  <2>1. CASE PrimaryOpens(p)
    <3>1. prov' = [prov EXCEPT ![p] = [u EXCEPT !.transport = "running"]] /\ u.step = "primary"
      BY <1>1, <2>1 DEF PrimaryOpens, Created
    <3> HIDE DEF u
    <3> QED
      BY <2>0, <3>1, StepsAreSound
  <2>2. CASE StreamEnds(p)
    <3>1. /\ prov' = [prov EXCEPT ![p] = [u EXCEPT !.transport = "ended", !.tango = "ERROR"]]
          /\ u.transport = "running" /\ u.step # "primary"
      BY <1>1, <2>2 DEF StreamEnds, Created
    <3> HIDE DEF u
    <3> QED
      BY <2>0, <3>1, StepsAreSound
  <2>3. CASE FallbackFails(p)
    <3>1. /\ prov' = [prov EXCEPT ![p] = [u EXCEPT !.shots = "STOPPED", !.active = "none",
                                           !.state = "ERROR", !.step = "idle", !.caller = 0]]
          /\ u.step = "fallback"
      BY <1>1, <2>3 DEF FallbackFails, Created
    <3> HIDE DEF u
    <3> QED
      BY <2>0, <3>1, StepsAreSound
  <2>4. CASE PrimaryFails(p)
    <3>1. /\ prov' = [prov EXCEPT ![p] = TransportClosed([u EXCEPT !.tango = "STOPPED",
                                          !.step = "fallback", !.shots = "STARTING"])]
          /\ u.step = "primary"
      BY <1>1, <2>4 DEF PrimaryFails, Created
    <3> HIDE DEF u
    <3> QED
      BY <2>0, <3>1, FailingIsSound
  <2>5. CASE PrimaryReady(p)
    <3> DEFINE w == [u EXCEPT !.tango = "READY"]
    <3>1. u.step = "primary" /\ prov' = [prov EXCEPT ![p] = Activated(w, "primary", w.caller)]
      BY <1>1, <2>5 DEF PrimaryReady, ProviderType
    <3> HIDE DEF u
    <3>2. /\ Activated(w, "primary", w.caller) \in ProviderType
          /\ ProviderSound(Activated(w, "primary", w.caller))
      BY <2>0, <3>1, ActivatingIsSound
    <3> QED
      BY <3>1, <3>2
  <2>6. CASE FallbackReady(p)
    <3> DEFINE w == [u EXCEPT !.shots = "DEGRADED"]
    <3>1. u.step = "fallback" /\ prov' = [prov EXCEPT ![p] = Activated(w, "fallback", w.caller)]
      BY <1>1, <2>6 DEF FallbackReady, ProviderType
    <3> HIDE DEF u
    <3>2. /\ Activated(w, "fallback", w.caller) \in ProviderType
          /\ ProviderSound(Activated(w, "fallback", w.caller))
      BY <2>0, <3>1, ActivatingIsSound
    <3> QED
      BY <3>1, <3>2
  <2> QED
    BY <2>1, <2>2, <2>3, <2>4, <2>5, <2>6
<1> QED
  BY <1>2, <1>4, <1>5, ProviderIs

\* What the steps of the viewport leave alone.
ServerWaits == UNCHANGED <<isOnline, closing, providers, prov>>

\* The sockets opened so far stay, one may come, and what is decoded is of them.
LEMMA ViewportMoves ==
  ASSUME LiveInv, ServerWaits, view' \in ViewType,
         socket' \in Seq(SocketType), Len(socket) <= Len(socket'),
         drawing' \subseteq [socket : DOMAIN socket', kind : {"jpeg", "h264"}],
         ViewSound'
  PROVE  LiveInv'
<1>1. /\ LiveTyped /\ Opened = 1 .. Len(socket) /\ Len(socket) \in Nat
  BY Indices
<1>2. Opened \subseteq DOMAIN socket' /\ DOMAIN socket' = Opened'
  <2>1. DOMAIN socket' = 1 .. Len(socket') /\ Len(socket') \in Nat
    BY LenProperties
  <2> QED
    BY <1>1, <2>1 DEF Opened
<1>3. LiveTyped'
  BY <1>1, <1>2 DEF LiveTyped, ServerWaits
<1>4. ProvidersSound'
  BY <1>2 DEF LiveInv, ProvidersSound, ProviderSound, Created, ServerWaits
<1>5. MapSound'
  BY DEF LiveInv, MapSound, ServerWaits
<1> QED
  BY <1>3, <1>4, <1>5 DEF LiveInv

LEMMA ViewIsOpened ==
  ASSUME LiveInv, NEW s \in ViewSerial, Reopen(s)
  PROVE  LiveInv'
<1> DEFINE old == view.socket
           after == [k \in Opened |-> IF k = old
                       THEN [socket[k] EXCEPT !.gone = TRUE,
                               !.goneEarly = socket[k].phase \in {"dialled", "awaiting"}]
                       ELSE socket[k]]
           fresh == [serial |-> s, phase |-> "dialled", provider |-> 0,
                     gone |-> FALSE, goneEarly |-> FALSE]
<1>1. /\ LiveTyped /\ Opened = 1 .. Len(socket) /\ Len(socket) \in Nat
      /\ view \in ViewType
      /\ \A k \in Opened : socket[k] \in SocketType
  BY Indices DEF LiveTyped
<1>2. fresh \in SocketType /\ fresh.serial = s
  BY DEF SocketType
<1>3. after \in Seq(SocketType) /\ Len(after) = Len(socket)
  <2>1. \A k \in Opened : after[k] \in SocketType
    <3>1. TAKE k \in Opened
    <3>2. CASE k = old
      <4> DEFINE early == socket[k].phase \in {"dialled", "awaiting"}
      <4>1. early \in BOOLEAN /\ socket[k] \in SocketType
        BY <1>1
      <4>2. after[k] = [socket[k] EXCEPT !.gone = TRUE, !.goneEarly = early]
        BY <3>2
      <4> HIDE DEF early, after
      <4> QED
        BY <4>1, <4>2 DEF SocketType
    <3>3. CASE k # old
      BY <1>1, <3>3
    <3> QED
      BY <3>2, <3>3
  <2>2. after \in [1 .. Len(socket) -> SocketType]
    BY <1>1, <2>1
  <2> HIDE DEF after
  <2> QED
    BY <1>1, <2>2
<1>4. /\ socket' = Append(after, fresh)
      /\ view' = [view EXCEPT !.serial = s, !.socket = Len(socket) + 1, !.status = "connecting",
                              !.afterError = view.status = "error"]
      /\ drawing' = DecoderClosed(drawing) /\ ServerWaits
  BY DEF Reopen, ServerWaits
<1> HIDE DEF after, fresh
<1>5. /\ socket' \in Seq(SocketType) /\ Len(socket') = Len(socket) + 1
      /\ socket'[Len(socket) + 1] = fresh
  <2>1. socket' \in Seq(SocketType) /\ Len(socket') = Len(after) + 1
        /\ socket'[Len(after) + 1] = fresh
    BY <1>2, <1>3, <1>4, AppendProperties
  <2> QED
    BY <1>3, <2>1
<1>6. Len(socket) <= Len(socket') /\ Len(socket) + 1 \in Nat /\ Len(socket) + 1 # 0
  BY <1>1, <1>5
<1>7. view' \in ViewType /\ view'.serial = s /\ view'.socket = Len(socket) + 1
      /\ view'.status = "connecting"
  <2>1. (view.status = "error") \in BOOLEAN
    OBVIOUS
  <2> QED
    BY <1>1, <1>4, <1>6, <2>1 DEF ViewType
<1>8. Opened \subseteq DOMAIN socket'
  <2>1. DOMAIN socket' = 1 .. (Len(socket) + 1)
    BY <1>5, LenProperties
  <2> QED
    BY <1>1, <2>1
<1>9. drawing' \subseteq [socket : DOMAIN socket', kind : {"jpeg", "h264"}]
  BY <1>1, <1>4, <1>8 DEF LiveTyped, DecoderClosed
<1>10. ViewSound'
  BY <1>2, <1>5, <1>6, <1>7 DEF ViewSound, PictureIsOfTheSerial
<1> QED
  BY <1>4, <1>5, <1>6, <1>7, <1>9, <1>10, ViewportMoves

LEMMA ViewSerialIsKnown ==
  ASSUME LiveInv, view.status # "idle"
  PROVE  view.serial \in ViewSerial /\ view.socket \in Opened
<1>1. /\ Opened = 1 .. Len(socket) /\ Len(socket) \in Nat
      /\ \A k \in Opened : socket[k] \in SocketType
  BY Indices
<1>2. view.socket \in Opened /\ view.serial = socket[view.socket].serial
  BY <1>1 DEF LiveInv, ViewSound
<1> QED
  BY <1>1, <1>2 DEF SocketType

LEMMA ViewFailed ==
  ASSUME LiveInv, view.socket # 0, ViewFails
  PROVE  view' \in ViewType /\ drawing' \subseteq drawing /\ (UNCHANGED socket => ViewSound')
<1>1. view \in ViewType /\ view' = [view EXCEPT !.status = "error"]
  BY DEF LiveInv, LiveTyped, ViewFails
<1>2. /\ view' \in ViewType /\ view'.status = "error" /\ view'.socket = view.socket
      /\ view'.serial = view.serial
  BY <1>1 DEF ViewType
<1> QED
  BY <1>2 DEF ViewFails, DecoderClosed, LiveInv, ViewSound, PictureIsOfTheSerial

LEMMA FrameComes ==
  ASSUME LiveInv, NEW p \in Created, NEW k \in Opened, Frame(p, k)
  PROVE  LiveInv'
<1>1. /\ LiveTyped /\ Opened = 1 .. Len(socket) /\ Len(socket) \in Nat /\ ViewSound
      /\ drawing \subseteq [socket : Opened, kind : {"jpeg", "h264"}]
      /\ socket \in Seq(SocketType) /\ view \in ViewType
  BY Indices DEF LiveTyped, LiveInv
<1>2. ServerWaits /\ UNCHANGED socket /\ Len(socket) <= Len(socket')
  BY <1>1 DEF Frame, ServerWaits
<1>3. CASE /\ drawing' = drawing \cup
                {Decoded(k, IF prov[p].active = "primary" THEN "h264" ELSE "jpeg")}
           /\ UNCHANGED view
  <2>1. ViewSound'
    BY <1>1, <1>2, <1>3 DEF ViewSound, PictureIsOfTheSerial
  <2>2. drawing' \subseteq [socket : DOMAIN socket', kind : {"jpeg", "h264"}]
    BY <1>1, <1>2, <1>3 DEF Decoded, Opened
  <2>3. view' \in ViewType /\ socket' \in Seq(SocketType)
    BY <1>1, <1>2, <1>3
  <2> QED
    BY <1>2, <2>1, <2>2, <2>3, ViewportMoves
<1>4. CASE ViewFails
  <2>1. view.socket # 0
    BY <1>1 DEF ViewSound
  <2>2. view' \in ViewType /\ drawing' \subseteq drawing /\ ViewSound'
    BY <1>2, <1>4, <2>1, ViewFailed
  <2>3. /\ drawing' \subseteq [socket : DOMAIN socket', kind : {"jpeg", "h264"}]
        /\ socket' \in Seq(SocketType)
    BY <1>1, <1>2, <2>2 DEF Opened
  <2> QED
    BY <1>2, <2>2, <2>3, ViewportMoves
<1> QED
  BY <1>3, <1>4 DEF Frame

LEMMA PictureIsDrawn ==
  ASSUME LiveInv, NEW d \in drawing, Draw(d)
  PROVE  LiveInv'
<1>1. /\ LiveTyped /\ Opened = 1 .. Len(socket) /\ Len(socket) \in Nat /\ ViewSound
      /\ drawing \subseteq [socket : Opened, kind : {"jpeg", "h264"}]
      /\ socket \in Seq(SocketType) /\ view \in ViewType
      /\ \A k \in Opened : socket[k] \in SocketType
  BY Indices DEF LiveTyped, LiveInv
<1>2. ServerWaits /\ UNCHANGED socket /\ Len(socket) <= Len(socket')
  BY <1>1 DEF Draw, ServerWaits
<1>3. d.socket \in Opened /\ socket[d.socket].serial \in ViewSerial /\ d.socket # 0
  BY <1>1 DEF SocketType
<1>4. /\ drawing' \subseteq [socket : DOMAIN socket', kind : {"jpeg", "h264"}]
      /\ socket' \in Seq(SocketType)
  BY <1>1, <1>2 DEF Draw, Opened
<1>5. CASE NotCancelled(d)
  <2> DEFINE status == IF d.kind = "jpeg" THEN "degraded" ELSE "ready"
  <2>1. view' = [view EXCEPT !.picture = socket[d.socket].serial, !.status = status]
    BY <1>5 DEF Draw
  <2>2. status \in {"idle", "connecting", "ready", "degraded", "error"}
    OBVIOUS
  <2> HIDE DEF status
  <2>3. /\ view' \in ViewType /\ view'.picture = socket[d.socket].serial
        /\ view'.serial = view.serial /\ view'.socket = view.socket
    BY <1>1, <1>3, <2>1, <2>2 DEF ViewType
  <2>4. d.socket = view.socket
    BY <1>5 DEF NotCancelled
  <2>5. ViewSound'
    BY <1>1, <1>2, <1>3, <2>3, <2>4 DEF ViewSound, PictureIsOfTheSerial
  <2> QED
    BY <1>2, <1>4, <2>3, <2>5, ViewportMoves
<1>6. CASE ~NotCancelled(d)
  <2>1. UNCHANGED view
    BY <1>6 DEF Draw
  <2>2. ViewSound' /\ view' \in ViewType
    BY <1>1, <1>2, <2>1 DEF ViewSound, PictureIsOfTheSerial
  <2> QED
    BY <1>2, <1>4, <2>2, ViewportMoves
<1> QED
  BY <1>5, <1>6

LEMMA ChannelClosed ==
  ASSUME LiveInv, NEW k \in Opened, ChannelCloses(k)
  PROVE  LiveInv'
<1>1. /\ LiveTyped /\ Opened = 1 .. Len(socket) /\ Len(socket) \in Nat /\ ViewSound
      /\ socket \in Seq(SocketType) /\ view \in ViewType /\ socket[k] \in SocketType
      /\ drawing \subseteq [socket : Opened, kind : {"jpeg", "h264"}]
  BY Indices DEF LiveTyped, LiveInv
<1> DEFINE e == [socket[k] EXCEPT !.gone = TRUE]
<1>2. e \in SocketType /\ e.serial = socket[k].serial
  BY <1>1 DEF SocketType
<1>3. socket' = [socket EXCEPT ![k] = e] /\ ServerWaits /\ UNCHANGED drawing
  BY <1>1 DEF ChannelCloses, ServerWaits
<1> HIDE DEF e
<1>4. /\ socket' \in Seq(SocketType) /\ Len(socket') = Len(socket)
      /\ \A j \in Opened : socket'[j].serial = socket[j].serial
  BY <1>2, <1>3, SocketMoves
<1>5. Len(socket) <= Len(socket') /\ DOMAIN socket' = Opened
  BY <1>1, <1>4, LenProperties
<1>6. drawing' \subseteq [socket : DOMAIN socket', kind : {"jpeg", "h264"}]
  BY <1>1, <1>3, <1>5
<1>7. /\ view' \in ViewType /\ view'.serial = view.serial /\ view'.socket = view.socket
      /\ view'.picture = view.picture
      /\ \/ view'.status = "error" /\ view.socket = k
         \/ view'.status = view.status
  BY <1>1 DEF ChannelCloses, ViewType
<1>8. view.socket # 0 => view.socket \in Opened
  BY <1>1 DEF ViewSound
<1>9. ViewSound'
  BY <1>1, <1>4, <1>7, <1>8 DEF ViewSound, PictureIsOfTheSerial
<1> QED
  BY <1>3, <1>4, <1>5, <1>6, <1>7, <1>9, ViewportMoves

\* A step of the live view, from a state in which its invariant holds.
LEMMA LiveStep ==
  ASSUME LiveInv, LiveNext
  PROVE  LiveInv'
<1>1. ASSUME NEW s \in ViewSerial, DeviceOnline(s) \/ DeviceLeft(s) \/ ShowSerial(s)
      PROVE  LiveInv'
  BY <1>1, DeviceComes, DeviceLeaves, ViewIsOpened DEF ShowSerial
<1>2. CASE CloseViews
  BY <1>2, ViewsAreClosed
<1>3. CASE RetryView
  <2>1. Reopen(view.serial) /\ view.serial \in ViewSerial
    BY <1>3, ViewSerialIsKnown DEF RetryView
  <2> QED
    BY <2>1, ViewIsOpened
<1>4. ASSUME NEW k \in Opened, ServeSocket(k) \/ SocketEnds(k) \/ ChannelCloses(k)
      PROVE  LiveInv'
  BY <1>4, SocketIsServed, SocketEnded, ChannelClosed
<1>5. ASSUME NEW p \in Created,
             \/ PrimaryOpens(p) \/ PrimaryReady(p) \/ PrimaryFails(p)
             \/ FallbackReady(p) \/ FallbackFails(p) \/ StreamEnds(p)
             \/ \E k \in Opened : Frame(p, k)
      PROVE  LiveInv'
  BY <1>5, ProviderWorks, FrameComes
<1>6. ASSUME NEW d \in drawing, Draw(d) PROVE LiveInv'
  BY <1>6, PictureIsDrawn
<1> QED
  BY <1>1, <1>2, <1>3, <1>4, <1>5, <1>6 DEF LiveNext

\* What the invariant says is what the run checks.
LEMMA LiveInvSuffices == LiveInv => ShownIsLive
<1>1. SUFFICES ASSUME LiveInv PROVE ShownIsLive
  OBVIOUS
<1>2. LiveTyped /\ \A p \in Created : prov[p] \in ProviderType /\ ProviderSound(prov[p])
  BY <1>1, Indices
<1>3. \A k \in Opened : socket[k] \in SocketType
  BY <1>1, Indices
<1>4. LiveTypeOK
  BY <1>2, <1>3 DEF LiveTypeOK, LiveTyped, ProviderType, ProviderSound, SocketType, ViewType
<1>5. PictureIsOfTheSerial /\ FallbackLeavesNoServer
  BY <1>1, <1>2 DEF LiveInv, ViewSound, FallbackLeavesNoServer, ProviderSound
<1> QED
  BY <1>4, <1>5 DEF ShownIsLive

-----------------------------------------------------------------------------
(* The Sessions page: copies of a run, and what changes it.                *)

LEMMA RanksAreNumbers == \A state : StateRank(state) \in Nat
BY DEF StateRank

LEMMA NotOlderIsReflexive ==
  ASSUME NEW v, v.epoch \in Nat
  PROVE  NotOlder(v, v)
BY RanksAreNumbers DEF NotOlder

LEMMA NotOlderIsTransitive ==
  ASSUME NEW u, NEW v, NEW w, u.epoch \in Nat, v.epoch \in Nat, w.epoch \in Nat,
         NotOlder(u, v), NotOlder(v, w)
  PROVE  NotOlder(u, w)
<1>1. /\ StateRank(u.state) \in Nat /\ StateRank(v.state) \in Nat /\ StateRank(w.state) \in Nat
  BY RanksAreNumbers
<1>2. w.epoch > u.epoch \/ w.epoch = u.epoch
  BY DEF NotOlder
<1>3. ASSUME w.epoch = u.epoch
      PROVE  /\ StateRank(w.state) >= StateRank(u.state)
             /\ u.out \subseteq w.out
  <2>1. /\ v.epoch = u.epoch
    BY <1>3 DEF NotOlder
  <2>2. /\ StateRank(v.state) >= StateRank(u.state) /\ u.out \subseteq v.out
        /\ StateRank(w.state) >= StateRank(v.state) /\ v.out \subseteq w.out
    BY <1>3, <2>1 DEF NotOlder
  <2>3. StateRank(w.state) >= StateRank(u.state)
    BY <1>1, <2>2
  <2> QED
    BY <2>2, <2>3
<1> QED
  BY <1>2, <1>3 DEF NotOlder

\* A change of one run: it stays a run, and is not older than it was.
Newer(q, s) ==
  /\ s \in RunType /\ RunSound(s)
  /\ NotOlder(q, s) /\ q.log <= s.log

LEMMA Ranks ==
  /\ StateRank("CREATED") = 1 /\ StateRank("PREFLIGHT") = 2 /\ StateRank("RUNNING") = 3
  /\ StateRank("PAUSED") = 4 /\ StateRank("FINISHED") = 5
BY DEF StateRank

LEMMA RunsAreTyped ==
  ASSUME NEW q \in RunType
  PROVE  /\ q.epoch \in Nat /\ q.epoch \in 1 .. MaxEpoch /\ q.log \in Nat /\ q.log \in 0 .. MaxLog
         /\ q.state \in RunStates /\ q.leader \in RunMember
         /\ q.members \in SUBSET RunMember /\ q.out \in SUBSET RunMember
BY SessionConsoleAssumption DEF RunType

LEMMA StateMovesOn ==
  ASSUME NEW q \in RunType, RunSound(q), NEW state \in RunStates,
         StateRank(q.state) <= StateRank(state)
  PROVE  Newer(q, [q EXCEPT !.state = state])
<1> DEFINE s == [q EXCEPT !.state = state]
<1>1. s \in RunType /\ s.state = state /\ s.epoch = q.epoch /\ s.out = q.out /\ s.log = q.log
      /\ s.leader = q.leader /\ s.members = q.members
  BY DEF RunType
<1>2. q.epoch \in Nat /\ q.log \in Nat /\ StateRank(q.state) \in Nat /\ StateRank(state) \in Nat
  BY RunsAreTyped, RanksAreNumbers
<1> HIDE DEF s
<1>3. NotOlder(q, s)
  BY <1>1, <1>2 DEF NotOlder
<1>4. q.log <= s.log
  BY <1>1, <1>2
<1>5. RunSound(s)
  BY <1>1 DEF RunSound
<1> QED
  BY <1>1, <1>3, <1>4, <1>5 DEF Newer, s

LEMMA EpochMovesOn ==
  ASSUME NEW q \in RunType, q.epoch < MaxEpoch,
         NEW members \in SUBSET RunMember, NEW leader \in members
  PROVE  Newer(q, NextEpoch(q, members, leader))
<1> DEFINE s == [q EXCEPT !.state = "RUNNING", !.epoch = q.epoch + 1, !.members = members,
                          !.out = {}, !.leader = leader]
<1>1. q.epoch + 1 \in 1 .. MaxEpoch /\ q.epoch \in Nat /\ q.log \in Nat
  BY RunsAreTyped, SessionConsoleAssumption
<1>2. NextEpoch(q, members, leader) = s
  BY DEF NextEpoch, RunType
<1> DEFINE next == q.epoch + 1
<1>3. next \in 1 .. MaxEpoch /\ next > q.epoch
  BY <1>1
<1>4. s = [q EXCEPT !.state = "RUNNING", !.epoch = next, !.members = members,
                    !.out = {}, !.leader = leader]
  OBVIOUS
<1> HIDE DEF next, s
<1>5. s \in RunType /\ s.epoch = next /\ s.log = q.log /\ s.members = members /\ s.out = {}
      /\ s.leader = leader
  BY <1>3, <1>4 DEF RunType, RunStates
<1>6. NotOlder(q, s) /\ RunSound(s)
  BY <1>3, <1>5 DEF NotOlder, RunSound
<1>7. q.log <= s.log
  BY <1>1, <1>5
<1> QED
  BY <1>2, <1>5, <1>6, <1>7 DEF Newer

LEMMA LogMovesOn ==
  ASSUME NEW q \in RunType, RunSound(q), q.log < MaxLog
  PROVE  Newer(q, [q EXCEPT !.log = @ + 1])
<1> DEFINE next == q.log + 1
           s == [q EXCEPT !.log = next]
<1>1. next \in 0 .. MaxLog /\ q.epoch \in Nat /\ q.log <= next
  BY RunsAreTyped, SessionConsoleAssumption
<1> HIDE DEF next
<1>2. s \in RunType /\ s.state = q.state /\ s.epoch = q.epoch /\ s.out = q.out /\ s.log = next
      /\ s.leader = q.leader /\ s.members = q.members
  BY <1>1 DEF RunType
<1>3. [q EXCEPT !.log = @ + 1] = s
  BY DEF next, RunType
<1> HIDE DEF s
<1>4. NotOlder(q, s) /\ RunSound(s)
  BY <1>1, <1>2, RanksAreNumbers DEF NotOlder, RunSound
<1> QED
  BY <1>1, <1>2, <1>3, <1>4 DEF Newer

LEMMA MemberGoesOut ==
  ASSUME NEW q \in RunType, RunSound(q), NEW m \in q.members \ (q.out \cup {q.leader})
  PROVE  Newer(q, [q EXCEPT !.out = @ \cup {m}])
<1> DEFINE s == [q EXCEPT !.out = q.out \cup {m}]
<1>1. q.epoch \in Nat /\ q.log \in Nat /\ q.out \cup {m} \in SUBSET RunMember
  BY RunsAreTyped
<1>2. s \in RunType /\ s.state = q.state /\ s.epoch = q.epoch /\ s.out = q.out \cup {m}
      /\ s.log = q.log /\ s.leader = q.leader /\ s.members = q.members
  BY <1>1 DEF RunType
<1>3. [q EXCEPT !.out = @ \cup {m}] = s
  BY DEF RunType
<1> HIDE DEF s
<1>4. NotOlder(q, s) /\ RunSound(s)
  BY <1>1, <1>2, RanksAreNumbers DEF NotOlder, RunSound
<1>5. q.log <= s.log
  BY <1>1, <1>2
<1> QED
  BY <1>2, <1>3, <1>4, <1>5 DEF Newer

LEMMA SameIsNewer ==
  ASSUME NEW q \in RunType, RunSound(q)
  PROVE  Newer(q, q)
BY RunsAreTyped, NotOlderIsReflexive DEF Newer

\* A request the routes accept makes the run newer.
LEMMA AfterIsNewer ==
  ASSUME NEW q \in RunType, RunSound(q), NEW request \in RequestNames,
         NEW m \in RunMember \cup {"none"}, Accepts(q, request, m)
  PROVE  Newer(q, After(q, request, m))
<1>1. CASE request = "preflight"
  <2>1. After(q, request, m) = [q EXCEPT !.state = "PREFLIGHT"] /\ q.state = "CREATED"
    BY <1>1 DEF After, Accepts
  <2>2. StateRank(q.state) <= StateRank("PREFLIGHT") /\ "PREFLIGHT" \in RunStates
    BY <2>1, Ranks DEF RunStates
  <2> QED
    BY <2>1, <2>2, StateMovesOn
<1>2. CASE request = "start"
  <2>1. After(q, request, m) = [q EXCEPT !.state = "RUNNING"] /\ q.state = "PREFLIGHT"
    BY <1>2 DEF After, Accepts
  <2>2. StateRank(q.state) <= StateRank("RUNNING") /\ "RUNNING" \in RunStates
    BY <2>1, Ranks DEF RunStates
  <2> QED
    BY <2>1, <2>2, StateMovesOn
<1>3. CASE request = "pause"
  <2>1. After(q, request, m) = [q EXCEPT !.state = "PAUSED"] /\ q.state = "RUNNING"
    BY <1>3 DEF After, Accepts
  <2>2. StateRank(q.state) <= StateRank("PAUSED") /\ "PAUSED" \in RunStates
    BY <2>1, Ranks DEF RunStates
  <2> QED
    BY <2>1, <2>2, StateMovesOn
<1>4. CASE request = "resume"
  <2> DEFINE members == q.members \ q.out
  <2>1. After(q, request, m) = NextEpoch(q, members, q.leader) /\ q.epoch < MaxEpoch
    BY <1>4 DEF After, Accepts
  <2>2. members \in SUBSET RunMember /\ q.leader \in members
    BY RunsAreTyped DEF RunSound
  <2> HIDE DEF members
  <2> QED
    BY <2>1, <2>2, EpochMovesOn
<1>5. CASE request = "promote"
  <2> DEFINE members == q.members \ q.out
  <2>1. After(q, request, m) = NextEpoch(q, members, m) /\ q.epoch < MaxEpoch
    BY <1>5 DEF After, Accepts
  <2>2. members \in SUBSET RunMember /\ m \in members
    BY <1>5, RunsAreTyped DEF Accepts
  <2> HIDE DEF members
  <2> QED
    BY <2>1, <2>2, EpochMovesOn
<1>6. CASE request = "rejoin"
  <2> DEFINE members == (q.members \ q.out) \cup {m}
  <2>1. After(q, request, m) = NextEpoch(q, members, q.leader) /\ q.epoch < MaxEpoch
    BY <1>6 DEF After, Accepts
  <2>2. members \in SUBSET RunMember /\ q.leader \in members
    BY <1>6, RunsAreTyped DEF Accepts, RunSound
  <2> HIDE DEF members
  <2> QED
    BY <2>1, <2>2, EpochMovesOn
<1>7. CASE request \in {"retry", "skip"}
  <2>1. After(q, request, m) = [q EXCEPT !.log = @ + 1] /\ q.log < MaxLog
    BY <1>7 DEF After, Accepts
  <2> QED
    BY <2>1, LogMovesOn
<1>8. CASE request \in {"create", "refresh", "actions", "devices"}
  <2>1. After(q, request, m) = q
    BY <1>8 DEF After
  <2> QED
    BY <2>1, SameIsNewer
<1> QED
  BY <1>1, <1>2, <1>3, <1>4, <1>5, <1>6, <1>7, <1>8 DEF RequestNames, Handler

\* What a step does to the runs: some are newer, and there may be more.
RunsMove ==
  /\ runs' \in Seq(RunType) /\ Len(runs) <= Len(runs')
  /\ \A r \in DOMAIN runs : NotOlder(runs[r], runs'[r]) /\ runs[r].log <= runs'[r].log
  /\ \A r \in DOMAIN runs' : RunSound(runs'[r])

LEMMA RunIndices ==
  ASSUME ConsoleInv
  PROVE  /\ ConsoleTyped /\ runs \in Seq(RunType)
         /\ DOMAIN runs = 1 .. Len(runs) /\ Len(runs) \in Nat
         /\ \A r \in DOMAIN runs : runs[r] \in RunType /\ RunSound(runs[r])
BY LenProperties, ElementOfSeq DEF ConsoleInv, ConsoleTyped

LEMMA OneRunMoves ==
  ASSUME ConsoleInv, NEW r \in DOMAIN runs, NEW q, Newer(runs[r], q),
         runs' = [runs EXCEPT ![r] = q]
  PROVE  RunsMove /\ Len(runs') = Len(runs) /\ runs'[r] = q
<1>1. /\ runs \in Seq(RunType) /\ DOMAIN runs = 1 .. Len(runs) /\ Len(runs) \in Nat
      /\ \A s \in DOMAIN runs : runs[s] \in RunType /\ RunSound(runs[s])
  BY RunIndices
<1>2. q \in RunType
  BY DEF Newer
<1>3. /\ runs' \in Seq(RunType) /\ Len(runs') = Len(runs)
      /\ \A s \in DOMAIN runs : runs'[s] = IF s = r THEN q ELSE runs[s]
  BY <1>1, <1>2, ExceptSeq
<1>4. DOMAIN runs' = DOMAIN runs /\ Len(runs) <= Len(runs')
  BY <1>1, <1>3
<1>5. \A s \in DOMAIN runs : Newer(runs[s], runs'[s])
  <2>1. TAKE s \in DOMAIN runs
  <2>2. CASE s = r
    BY <1>3, <2>2
  <2>3. CASE s # r
    BY <1>1, <1>3, <2>3, SameIsNewer
  <2> QED
    BY <2>2, <2>3
<1> QED
  BY <1>3, <1>4, <1>5 DEF RunsMove, Newer

LEMMA RunsStay ==
  ASSUME ConsoleInv, UNCHANGED runs
  PROVE  RunsMove
<1>1. /\ runs \in Seq(RunType) /\ Len(runs) \in Nat
      /\ \A s \in DOMAIN runs : runs[s] \in RunType /\ RunSound(runs[s])
  BY RunIndices
<1>2. \A s \in DOMAIN runs : Newer(runs[s], runs[s])
  BY <1>1, SameIsNewer
<1> QED
  BY <1>1, <1>2 DEF RunsMove, Newer

LEMMA RunIsCreated ==
  ASSUME ConsoleInv, runs' = Append(runs, NewRun)
  PROVE  /\ RunsMove /\ Len(runs') = Len(runs) + 1 /\ runs'[Len(runs) + 1] = NewRun
         /\ DOMAIN runs' = 1 .. (Len(runs) + 1) /\ NewRun \in RunType
<1>1. /\ runs \in Seq(RunType) /\ DOMAIN runs = 1 .. Len(runs) /\ Len(runs) \in Nat
      /\ \A s \in DOMAIN runs : runs[s] \in RunType /\ RunSound(runs[s])
  BY RunIndices
<1>2. NewRun \in RunType /\ RunSound(NewRun)
  <2>1. 1 \in 1 .. MaxEpoch /\ 0 \in 0 .. MaxLog
    BY SessionConsoleAssumption
  <2> QED
    BY <2>1, SessionConsoleAssumption DEF NewRun, RunType, RunStates, RunSound
<1>3. /\ runs' \in Seq(RunType) /\ Len(runs') = Len(runs) + 1
      /\ \A s \in 1 .. Len(runs) : runs'[s] = runs[s]
      /\ runs'[Len(runs) + 1] = NewRun
      /\ DOMAIN runs' = 1 .. (Len(runs) + 1)
  BY <1>1, <1>2
<1>4. Len(runs) <= Len(runs') /\ \A s \in 1 .. (Len(runs) + 1) : s = Len(runs) + 1 \/ s \in 1 .. Len(runs)
  BY <1>1, <1>3
<1>5. \A s \in DOMAIN runs : Newer(runs[s], runs'[s])
  BY <1>1, <1>3, SameIsNewer
<1>6. \A s \in DOMAIN runs' : RunSound(runs'[s])
  BY <1>1, <1>2, <1>3, <1>4
<1> QED
  BY <1>2, <1>3, <1>4, <1>5, <1>6 DEF RunsMove, Newer

LEMMA RequestMovesRuns ==
  ASSUME ConsoleInv, NEW request \in RequestNames, NEW r, NEW m \in RunMember \cup {"none"},
         Accepted(request, r, m), request \notin {"create", "devices"} => r \in DOMAIN runs,
         runs' = RunsAfter(request, r, m)
  PROVE  /\ RunsMove
         /\ request = "create" => runs' = Append(runs, NewRun)
<1>1. CASE request = "create"
  BY <1>1, RunIsCreated DEF RunsAfter
<1>2. CASE request = "devices"
  BY <1>2, RunsStay DEF RunsAfter
<1>3. CASE request \notin {"create", "devices"}
  <2>1. runs[r] \in RunType /\ RunSound(runs[r])
    BY <1>3, RunIndices
  <2>2. Accepts(runs[r], request, m) /\ runs' = [runs EXCEPT ![r] = After(runs[r], request, m)]
    BY <1>3 DEF Accepted, RunsAfter
  <2>3. Newer(runs[r], After(runs[r], request, m))
    BY <2>1, <2>2, AfterIsNewer
  <2> QED
    BY <1>3, <2>2, <2>3, OneRunMoves
<1> QED
  BY <1>1, <1>2, <1>3

LEMMA ServerMovesRuns ==
  ASSUME ConsoleInv, NEW r \in DOMAIN runs, ServerChanges(r)
  PROVE  RunsMove
<1>1. runs[r] \in RunType /\ RunSound(runs[r])
  BY RunIndices
<1>2. CASE runs[r].state = "RUNNING" /\ runs' = [runs EXCEPT ![r].state = "PAUSED"]
  <2>1. StateRank(runs[r].state) <= StateRank("PAUSED") /\ "PAUSED" \in RunStates
    BY <1>2, Ranks DEF RunStates
  <2>2. Newer(runs[r], [runs[r] EXCEPT !.state = "PAUSED"])
    BY <1>1, <2>1, StateMovesOn
  <2> QED
    BY <1>2, <2>2, OneRunMoves
<1>3. CASE runs[r].log < MaxLog /\ runs' = [runs EXCEPT ![r].log = @ + 1]
  <2>1. Newer(runs[r], [runs[r] EXCEPT !.log = @ + 1])
    BY <1>1, <1>3, LogMovesOn
  <2>2. runs' = [runs EXCEPT ![r] = [runs[r] EXCEPT !.log = @ + 1]]
    BY <1>1, <1>3 DEF RunType
  <2> QED
    BY <2>1, <2>2, OneRunMoves
<1>4. ASSUME NEW m \in runs[r].members \ (runs[r].out \cup {runs[r].leader}),
             runs' = [runs EXCEPT ![r].out = @ \cup {m}]
      PROVE  RunsMove
  <2>1. Newer(runs[r], [runs[r] EXCEPT !.out = @ \cup {m}])
    BY <1>1, <1>4, MemberGoesOut
  <2>2. runs' = [runs EXCEPT ![r] = [runs[r] EXCEPT !.out = @ \cup {m}]]
    BY <1>1, <1>4 DEF RunType
  <2> QED
    BY <2>1, <2>2, OneRunMoves
<1>5. CASE runs[r].state \in {"RUNNING", "PAUSED"} /\ runs' = [runs EXCEPT ![r].state = "FINISHED"]
  <2>1. StateRank(runs[r].state) <= StateRank("FINISHED") /\ "FINISHED" \in RunStates
    BY <1>5, Ranks DEF RunStates
  <2>2. Newer(runs[r], [runs[r] EXCEPT !.state = "FINISHED"])
    BY <1>1, <2>1, StateMovesOn
  <2> QED
    BY <1>5, <2>2, OneRunMoves
<1> QED
  BY <1>2, <1>3, <1>4, <1>5 DEF ServerChanges

-----------------------------------------------------------------------------
(* The Sessions page: the steps.                                           *)

\* What the property asks of a step.
ViewMovesOn ==
  page.session.run # 0 /\ page'.session.run = page.session.run
    => NotOlder(page.session, page'.session) /\ page'.log >= page.log

LEMMA PageTyped ==
  ASSUME ConsoleInv
  PROVE  /\ page \in PageType /\ page.session \in SessionType /\ page.log \in Nat
         /\ page.session.epoch \in Nat /\ page.session.run \in Nat
         /\ call \in [Handler -> CallType]
BY DEF ConsoleInv, ConsoleTyped, PageType, SessionType

LEMMA PageStays ==
  ASSUME ConsoleInv, UNCHANGED page
  PROVE  ViewMovesOn
BY PageTyped, NotOlderIsReflexive DEF ViewMovesOn

LEMMA NothingTyped ==
  /\ NoSession \in SessionType /\ NoCall \in CallType
  /\ NoSession.run = 0 /\ NoCall.at = "idle" /\ NoCall.answer = "none"
  /\ FreshPage \in PageType /\ FreshPage.session.run = 0 /\ FreshPage.log = 0
  /\ FreshPage.session.state = "none"
<1>1. NoSession \in SessionType /\ NoSession.run = 0 /\ NoSession.state = "none"
  BY DEF NoSession, SessionType
<1>2. NoCall \in CallType /\ NoCall.at = "idle" /\ NoCall.answer = "none"
  BY <1>1 DEF NoCall, CallType
<1> QED
  BY <1>1, <1>2 DEF FreshPage, PageType

\* A copy of a run stays a copy of it.
LEMMA CopyStays ==
  ASSUME ConsoleInv, RunsMove, NEW v, v.epoch \in Nat, CopyOfRun(v)
  PROVE  /\ v.run \in DOMAIN runs' /\ NotOlder(v, runs'[v.run])
         /\ runs[v.run].log <= runs'[v.run].log
<1>1. /\ DOMAIN runs = 1 .. Len(runs) /\ Len(runs) \in Nat /\ runs' \in Seq(RunType)
      /\ \A r \in DOMAIN runs : runs[r] \in RunType
  BY RunIndices DEF RunsMove
<1>2. DOMAIN runs' = 1 .. Len(runs') /\ Len(runs') \in Nat /\ Len(runs) <= Len(runs')
  BY <1>1, LenProperties DEF RunsMove
<1>3. v.run \in DOMAIN runs /\ NotOlder(v, runs[v.run])
  BY DEF CopyOfRun
<1>4. v.run \in DOMAIN runs'
  BY <1>1, <1>2, <1>3
<1>5. runs[v.run] \in RunType /\ runs'[v.run] \in RunType
  BY <1>1, <1>2, <1>3, <1>4, ElementOfSeq
<1>6. runs[v.run].epoch \in Nat /\ runs'[v.run].epoch \in Nat
  BY <1>5, RunsAreTyped
<1>7. NotOlder(runs[v.run], runs'[v.run]) /\ runs[v.run].log <= runs'[v.run].log
  BY <1>3 DEF RunsMove
<1> QED
  BY <1>3, <1>4, <1>6, <1>7, NotOlderIsTransitive

LEMMA LogsAreNumbers ==
  ASSUME ConsoleInv, RunsMove
  PROVE  /\ \A r \in DOMAIN runs : runs[r].log \in Nat /\ r \in DOMAIN runs' /\ r # 0
         /\ \A r \in DOMAIN runs' : runs'[r].log \in Nat /\ runs'[r] \in RunType /\ r # 0
<1>1. /\ DOMAIN runs = 1 .. Len(runs) /\ Len(runs) \in Nat /\ runs' \in Seq(RunType)
      /\ \A r \in DOMAIN runs : runs[r] \in RunType
  BY RunIndices DEF RunsMove
<1>2. DOMAIN runs' = 1 .. Len(runs') /\ Len(runs') \in Nat /\ Len(runs) <= Len(runs')
  BY <1>1, LenProperties DEF RunsMove
<1>3. \A r \in DOMAIN runs' : runs'[r] \in RunType
  BY <1>1, <1>2, ElementOfSeq
<1>4. \A r \in 1 .. Len(runs) : r \in 1 .. Len(runs') /\ r # 0
  BY <1>1, <1>2
<1>5. \A r \in 1 .. Len(runs') : r # 0
  BY <1>2
<1> QED
  BY <1>1, <1>2, <1>3, <1>4, <1>5, RunsAreTyped

LEMMA PageIsKept ==
  ASSUME ConsoleInv, RunsMove, UNCHANGED page
  PROVE  PageSound'
<1> DEFINE v == page.session
<1>1. page.log \in Nat /\ v.epoch \in Nat /\ PageSound
  BY PageTyped DEF ConsoleInv
<1>2. CASE v.run # 0
  <2>1. CopyOfRun(v) /\ page.log <= runs[v.run].log /\ v.run \in DOMAIN runs
    BY <1>1, <1>2 DEF PageSound, CopyOfRun
  <2> HIDE DEF v
  <2>2. /\ v.run \in DOMAIN runs' /\ NotOlder(v, runs'[v.run])
        /\ runs[v.run].log <= runs'[v.run].log
    BY <1>1, <2>1, CopyStays
  <2>3. runs[v.run].log \in Nat /\ runs'[v.run].log \in Nat
    BY <2>1, <2>2, LogsAreNumbers
  <2>4. page.log <= runs'[v.run].log
    BY <1>1, <2>1, <2>2, <2>3
  <2> QED
    BY <1>2, <2>2, <2>4 DEF PageSound, CopyOfRun, v
<1>3. CASE v.run = 0
  BY <1>1, <1>3 DEF PageSound
<1> QED
  BY <1>2, <1>3

LEMMA CallIsKept ==
  ASSUME ConsoleInv, RunsMove, UNCHANGED page, NEW c \in CallType, CallSound(c)
  PROVE  CallSound(c)'
<1>1. /\ page.log \in Nat /\ page.session.epoch \in Nat /\ PageSound
      /\ c.view.epoch \in Nat /\ c.log \in Nat
  BY PageTyped DEF ConsoleInv, CallType, SessionType
<1>2. ASSUME c.answer = "ok", c.at \notin {"devices", "retry", "skip", "actions"}
      PROVE  /\ c.view.run = c.shown /\ c.view.run # 0 /\ CopyOfRun(c.view)'
             /\ page.session.run # 0 => NotOlder(page.session, c.view)
  <2> DEFINE v == c.view
  <2>1. v.run = c.shown /\ v.run # 0 /\ CopyOfRun(v) /\ v.epoch \in Nat
        /\ (page.session.run # 0 => NotOlder(page.session, v))
    BY <1>1, <1>2 DEF CallSound
  <2> HIDE DEF v
  <2>2. v.run \in DOMAIN runs' /\ NotOlder(v, runs'[v.run])
    BY <2>1, CopyStays
  <2> QED
    BY <2>1, <2>2 DEF CopyOfRun, v
<1>3. ASSUME c.answer = "ok", c.at = "actions"
      PROVE  page.log <= c.log /\ c.log <= runs'[c.shown].log
  <2>1. /\ page.session.run # 0 /\ c.shown = page.session.run
        /\ page.log <= c.log /\ c.log <= runs[c.shown].log
    BY <1>3 DEF CallSound, AboutRun
  <2>2. c.shown \in DOMAIN runs
    BY <1>1, <2>1 DEF PageSound, CopyOfRun
  <2>3. /\ runs[c.shown].log \in Nat /\ runs'[c.shown].log \in Nat
        /\ runs[c.shown].log <= runs'[c.shown].log
    BY <2>2, LogsAreNumbers DEF RunsMove
  <2> QED
    BY <1>1, <2>1, <2>3
<1> QED
  BY <1>2, <1>3 DEF CallSound

LEMMA AdriftIsKept ==
  ASSUME ConsoleInv, RunsMove, NEW a \in adrift
  PROVE  a.request = "create" \/ a.run \in DOMAIN runs'
BY LogsAreNumbers DEF ConsoleInv, AdriftSound

LEMMA RunsKeepTheirShape ==
  ASSUME ConsoleInv, RunsMove
  PROVE  runs' \in Seq(RunType) /\ \A r \in DOMAIN runs' : RunSound(runs'[r])
BY DEF RunsMove

\* The server or the network moves: the page stays, the call of one handler
\* may change, but no handler starts.
LEMMA CallChanges ==
  ASSUME ConsoleInv, RunsMove, UNCHANGED <<page, visits>>, lost' \in Nat,
         adrift' \subseteq AdriftType,
         \A a \in adrift' : a.request = "create" \/ a.run \in DOMAIN runs',
         NEW h \in Handler, NEW c \in CallType, call' = [call EXCEPT ![h] = c],
         CallSound(c)', c.at # "idle" => call[h].at # "idle"
  PROVE  ConsoleInv' /\ ViewMovesOn
<1>1. ConsoleTyped /\ call \in [Handler -> CallType]
  BY DEF ConsoleInv, ConsoleTyped
<1>2. /\ call' \in [Handler -> CallType]
      /\ \A g \in Handler : call'[g] = IF g = h THEN c ELSE call[g]
  BY <1>1
<1>3. ConsoleTyped'
  BY <1>1, <1>2, RunsKeepTheirShape DEF ConsoleTyped
<1>4. ASSUME NEW g \in Handler PROVE CallSound(call[g])'
  <2>1. PICK e \in CallType : e = call'[g] /\ CallSound(e)'
    <3>1. CASE g = h
      BY <1>2, <3>1
    <3>2. CASE g # h
      <4>1. PICK e \in CallType : e = call[g] /\ CallSound(e)
        BY <1>1 DEF ConsoleInv
      <4>2. CallSound(e)'
        BY <4>1, CallIsKept
      <4>3. call'[g] = e
        BY <1>2, <3>2, <4>1
      <4> QED
        BY <4>2, <4>3
    <3> QED
      BY <3>1, <3>2
  <2> QED
    BY <2>1 DEF CallSound, CopyOfRun
<1>5. \A f, g \in Handler : call'[f].at # "idle" /\ call'[g].at # "idle" => f = g
  BY <1>2 DEF ConsoleInv
<1>6. AdriftSound'
  BY DEF AdriftSound
<1> QED
  BY <1>3, <1>4, <1>5, <1>6, PageIsKept, PageStays, RunsKeepTheirShape DEF ConsoleInv

LEMMA NoCallChanges ==
  ASSUME ConsoleInv, RunsMove, UNCHANGED <<page, call, lost, visits>>,
         adrift' \subseteq AdriftType,
         \A a \in adrift' : a.request = "create" \/ a.run \in DOMAIN runs'
  PROVE  ConsoleInv' /\ ViewMovesOn
<1>1. PICK h \in Handler : TRUE
  BY DEF Handler
<1>2. call \in [Handler -> CallType] /\ lost \in Nat /\ CallSound(call[h])
  BY DEF ConsoleInv, ConsoleTyped
<1>3. PICK c \in CallType : c = call[h]
  BY <1>2
<1>4. CallSound(c)'
  BY <1>2, <1>3, CallIsKept
<1>5. call' = [call EXCEPT ![h] = c]
  BY <1>2, <1>3
<1>6. lost' \in Nat
  BY <1>2
<1> QED
  BY <1>3, <1>4, <1>5, <1>6, CallChanges

LEMMA AwaitedCall ==
  ASSUME ConsoleInv, NEW h \in Handler
  PROVE  /\ call[h] \in CallType /\ CallSound(call[h])
         /\ call[h].at # "idle" => call[h].at \in RequestNames
         /\ AboutRun(call[h].at) => call[h].shown \in DOMAIN runs
         /\ \A c \in CallType : /\ [call EXCEPT ![h] = c] \in [Handler -> CallType]
                                /\ [call EXCEPT ![h] = c][h] = c
<1>1. call \in [Handler -> CallType] /\ CallSound(call[h]) /\ PageSound
  BY DEF ConsoleInv, ConsoleTyped
<1>2. call[h] \in CallType
  BY <1>1
<1>3. AboutRun(call[h].at) => call[h].shown \in DOMAIN runs
  BY <1>1 DEF CallSound, PageSound, CopyOfRun
<1> QED
  BY <1>1, <1>2, <1>3 DEF CallType

\* A request takes effect on the runs as they are.
LEMMA EffectMovesRuns ==
  ASSUME ConsoleInv, NEW h \in Handler, call[h].at # "idle",
         Accepted(call[h].at, call[h].shown, call[h].target),
         runs' = RunsAfter(call[h].at, call[h].shown, call[h].target)
  PROVE  RunsMove /\ (call[h].at = "create" => runs' = Append(runs, NewRun))
<1> DEFINE request == call[h].at
           r == call[h].shown
           m == call[h].target
<1>1. request \in RequestNames /\ m \in RunMember \cup {"none"}
  BY AwaitedCall DEF CallType
<1>2. request \notin {"create", "devices"} => r \in DOMAIN runs
  BY AwaitedCall DEF AboutRun
<1>3. Accepted(request, r, m) /\ runs' = RunsAfter(request, r, m)
  OBVIOUS
<1> HIDE DEF request, r, m
<1>4. RunsMove /\ (request = "create" => runs' = Append(runs, NewRun))
  BY <1>1, <1>2, <1>3, RequestMovesRuns
<1> QED
  BY <1>4 DEF request

\* A call that failed, or returned, is sound.
LEMMA QuietCallIsSound ==
  ASSUME ConsoleInv, NEW c \in CallType, CallSound(c)
  PROVE  LET f == [c EXCEPT !.answer = "failed"]
         IN c.at # "idle" => f \in CallType /\ CallSound(f) /\ f.at = c.at
<1> DEFINE f == [c EXCEPT !.answer = "failed"]
<1>1. f \in CallType /\ f.at = c.at /\ f.shown = c.shown /\ f.answer = "failed"
  BY DEF CallType
<1> HIDE DEF f
<1>2. c.at # "idle" => CallSound(f)
  BY <1>1 DEF CallSound
<1> QED
  BY <1>1, <1>2 DEF f

LEMMA CallFails ==
  ASSUME ConsoleInv, NEW h \in Handler, RunsMove, UNCHANGED <<page, visits, adrift>>,
         lost' \in Nat, call[h].at # "idle", call' = [call EXCEPT ![h].answer = "failed"]
  PROVE  ConsoleInv' /\ ViewMovesOn
<1>1. PICK c \in CallType : c = call[h] /\ CallSound(c)
  BY AwaitedCall
<1> DEFINE f == [c EXCEPT !.answer = "failed"]
<1>2. f \in CallType /\ CallSound(f) /\ f.at = c.at
  BY <1>1, QuietCallIsSound
<1>3. call' = [call EXCEPT ![h] = f]
  BY <1>1
<1> HIDE DEF f
<1>4. PICK e \in CallType : e = f /\ CallSound(e) /\ e.at = c.at
  BY <1>2
<1>5. CallSound(e)'
  BY <1>4, CallIsKept
<1>6. /\ adrift' \subseteq AdriftType
      /\ \A a \in adrift' : a.request = "create" \/ a.run \in DOMAIN runs'
  BY AdriftIsKept DEF ConsoleInv, ConsoleTyped
<1> QED
  BY <1>1, <1>3, <1>4, <1>5, <1>6, CallChanges

LEMMA ViewIsTyped ==
  ASSUME NEW r \in Nat, NEW q \in RunType
  PROVE  /\ ViewOf(r, q) \in SessionType /\ ViewOf(r, q).run = r
         /\ NotOlder(ViewOf(r, q), q)
         /\ \A s : NotOlder(s, q) => NotOlder(s, ViewOf(r, q))
<1>1. /\ q.epoch \in Nat /\ q.state \in RunStates /\ q.leader \in RunMember
      /\ q.members \in SUBSET RunMember /\ q.out \in SUBSET RunMember
  BY RunsAreTyped
<1>2. /\ ViewOf(r, q) \in SessionType /\ ViewOf(r, q).run = r /\ ViewOf(r, q).epoch = q.epoch
      /\ ViewOf(r, q).state = q.state /\ ViewOf(r, q).out = q.out
  BY <1>1 DEF ViewOf, SessionType
<1> QED
  BY <1>1, <1>2, RanksAreNumbers DEF NotOlder

LEMMA Handled ==
  ASSUME ConsoleInv, NEW h \in Handler, Handle(h)
  PROVE  ConsoleInv' /\ ViewMovesOn
<1>1. PICK c \in CallType : c = call[h] /\ CallSound(c)
  BY AwaitedCall
<1>2. /\ c.at # "idle" /\ c.answer = "none" /\ c.at \in RequestNames
      /\ UNCHANGED <<page, adrift, lost, visits>>
      /\ AboutRun(c.at) => c.shown \in DOMAIN runs
  BY <1>1, AwaitedCall DEF Handle, Awaiting
<1>3. RunsMove /\ (c.at = "create" => runs' = Append(runs, NewRun))
  BY <1>1, <1>2, EffectMovesRuns DEF Handle
<1>4. /\ adrift' \subseteq AdriftType /\ lost' \in Nat
      /\ \A a \in adrift' : a.request = "create" \/ a.run \in DOMAIN runs'
  BY <1>2, <1>3, AdriftIsKept DEF ConsoleInv, ConsoleTyped
<1>5. CASE c.at = "devices"
  <2> DEFINE e == [c EXCEPT !.answer = "ok"]
  <2>1. e \in CallType /\ e.at = "devices"
    BY <1>5 DEF CallType
  <2>2. call' = [call EXCEPT ![h] = e]
    BY <1>1, <1>5 DEF Handle
  <2> HIDE DEF e
  <2>3. PICK d \in CallType : d = e /\ d.at = "devices"
    BY <2>1
  <2>4. CallSound(d)'
    BY <2>3 DEF CallSound, AboutRun
  <2> QED
    BY <1>1, <1>2, <1>3, <1>4, <2>2, <2>3, <2>4, CallChanges
<1>6. CASE c.at # "devices"
  <2>1. PICK r \in Nat : r = IF c.at = "create" THEN Len(runs) + 1 ELSE c.shown
    BY RunIndices DEF CallType
  <2>2. r \in DOMAIN runs' /\ runs'[r] \in RunType
    <3>1. CASE c.at = "create"
      BY <1>3, <2>1, <3>1, RunIsCreated, RunIndices
    <3>2. CASE c.at # "create"
      BY <1>2, <1>3, <1>6, <2>1, <3>2, LogsAreNumbers DEF AboutRun
    <3> QED
      BY <3>1, <3>2
  <2>3. PICK q \in RunType : q = runs'[r]
    BY <2>2
  <2>4. q.log \in Nat
    BY RunsAreTyped
  <2> DEFINE e == [c EXCEPT !.answer = "ok", !.shown = r, !.view = ViewOf(r, q), !.log = q.log]
  <2>5. call' = [call EXCEPT ![h] = e]
    BY <1>1, <1>6, <2>1, <2>3 DEF Handle
  <2>6. ViewOf(r, q) \in SessionType
    BY ViewIsTyped
  <2>7. e \in CallType
    BY <2>4, <2>6 DEF CallType
  <2>8. /\ e.at = c.at /\ e.answer = "ok" /\ e.shown = r /\ e.view = ViewOf(r, q)
        /\ e.log = q.log
    BY DEF CallType
  <2> HIDE DEF e
  <2>9. PICK d \in CallType :
          /\ d = e /\ d.at = c.at /\ d.answer = "ok" /\ d.shown = r /\ d.view = ViewOf(r, q)
          /\ d.log = q.log
    BY <2>7, <2>8
  <2>10. PICK v \in SessionType :
           /\ v = ViewOf(r, q) /\ v.run = r /\ NotOlder(v, q)
           /\ \A s : NotOlder(s, q) => NotOlder(s, v)
    BY ViewIsTyped
  <2>11. r # 0
    BY <1>3, <2>2, LogsAreNumbers
  <2>12. /\ AboutRun(c.at) => page.session.run # 0 /\ c.shown = page.session.run /\ r = c.shown
         /\ c.at = "create" => page.session.run = 0
    BY <1>1, <2>1 DEF CallSound, AboutRun
  <2>13. AboutRun(c.at) => NotOlder(page.session, q) /\ page.log <= q.log
    <3>1. SUFFICES ASSUME AboutRun(c.at) PROVE NotOlder(page.session, q) /\ page.log <= q.log
      OBVIOUS
    <3>2. PageSound' /\ page.session.run = r
      BY <1>2, <1>3, <2>12, <3>1, PageIsKept
    <3> QED
      BY <1>2, <2>3, <2>11, <3>2 DEF PageSound, CopyOfRun
  <2>14. CallSound(d)'
    <3>1. c.at \notin {"idle", "devices"}
      BY <1>2, <1>6
    <3>2. AboutRun(c.at) \/ c.at = "create"
      BY <3>1 DEF AboutRun
    <3>3. v.run \in DOMAIN runs' /\ NotOlder(v, runs'[v.run])
      BY <2>2, <2>3, <2>10
    <3>4. page.session.run # 0 => NotOlder(page.session, v)
      BY <2>10, <2>12, <2>13, <3>2
    <3>5. c.at = "actions" => page.log <= q.log /\ q.log <= runs'[r].log
      BY <2>3, <2>4, <2>13 DEF AboutRun
    <3> QED
      BY <1>2, <2>9, <2>10, <2>11, <2>12, <3>1, <3>3, <3>4, <3>5 DEF CallSound, CopyOfRun
  <2> QED
    BY <1>1, <1>2, <1>3, <1>4, <2>5, <2>9, <2>14, CallChanges
<1> QED
  BY <1>5, <1>6

LEMMA HandlerReturns ==
  ASSUME ConsoleInv, NEW h \in Handler, ReceiveError(h)
  PROVE  ConsoleInv' /\ ViewMovesOn
<1>1. /\ call' = [call EXCEPT ![h] = NoCall] /\ UNCHANGED <<runs, page, adrift, lost, visits>>
      /\ RunsMove
  BY RunsStay DEF ReceiveError
<1>2. PICK c \in CallType : c = NoCall /\ c.at = "idle" /\ c.answer = "none"
  BY NothingTyped
<1>3. CallSound(c)'
  BY <1>2 DEF CallSound, AboutRun
<1>4. /\ adrift' \subseteq AdriftType /\ lost' \in Nat
      /\ \A a \in adrift' : a.request = "create" \/ a.run \in DOMAIN runs'
  BY <1>1, AdriftIsKept DEF ConsoleInv, ConsoleTyped
<1> QED
  BY <1>1, <1>2, <1>3, <1>4, CallChanges

LEMMA HandleAndLost ==
  ASSUME ConsoleInv, NEW h \in Handler, HandleAndLose(h) \/ Refuse(h)
  PROVE  ConsoleInv' /\ ViewMovesOn
<1>1. call[h].at # "idle" /\ call' = [call EXCEPT ![h].answer = "failed"]
  BY DEF HandleAndLose, Refuse, Awaiting
<1>2. UNCHANGED <<page, visits, adrift>> /\ lost' \in Nat
  BY DEF HandleAndLose, Refuse, ConsoleInv, ConsoleTyped
<1>3. RunsMove
  BY <1>1, EffectMovesRuns, RunsStay DEF HandleAndLose, Refuse
<1> QED
  BY <1>1, <1>2, <1>3, CallFails

LEMMA AdriftMoves ==
  ASSUME ConsoleInv, NEW a \in adrift, HandleAdrift(a) \/ AdriftFails(a)
  PROVE  ConsoleInv' /\ ViewMovesOn
<1>1. /\ a \in AdriftType /\ adrift \subseteq AdriftType
      /\ a.request = "create" \/ a.run \in DOMAIN runs
  BY DEF ConsoleInv, ConsoleTyped, AdriftSound
<1>2. CASE AdriftFails(a)
  <2>1. RunsMove /\ UNCHANGED <<page, call, lost, visits>> /\ adrift' \subseteq adrift
    BY <1>2, RunsStay DEF AdriftFails
  <2> QED
    BY <1>1, <2>1, AdriftIsKept, NoCallChanges
<1>3. CASE HandleAdrift(a)
  <2> DEFINE r == IF a.request = "create" THEN Len(runs) + 1 ELSE a.run
             next == CASE a.request = "create" -> {"preflight"}
                       [] a.request = "preflight" -> {"start"}
                       [] OTHER -> {}
  <2>1. /\ Accepted(a.request, a.run, a.target)
        /\ runs' = RunsAfter(a.request, a.run, a.target)
        /\ adrift' = (adrift \ {a}) \cup [request : next, run : {r}, target : {a.target}]
        /\ UNCHANGED <<page, call, lost, visits>>
    BY <1>3 DEF HandleAdrift
  <2>2. next \subseteq RequestNames /\ (next # {} => a.request \in {"create", "preflight"})
    BY DEF RequestNames
  <2>3. a.request \in RequestNames /\ a.target \in RunMember \cup {"none"} /\ a.run \in Nat
    BY <1>1 DEF AdriftType
  <2>4. RunsMove /\ (a.request = "create" => runs' = Append(runs, NewRun))
    BY <1>1, <2>1, <2>3, RequestMovesRuns
  <2>5. r \in Nat /\ r \in DOMAIN runs'
    <3>1. CASE a.request = "create"
      BY <2>4, <3>1, RunIsCreated, RunIndices
    <3>2. CASE a.request # "create"
      BY <1>1, <2>3, <2>4, <3>2, LogsAreNumbers
    <3> QED
      BY <3>1, <3>2
  <2> HIDE DEF r, next
  <2>6. \A b \in [request : next, run : {r}, target : {a.target}] :
          b \in AdriftType /\ b.run \in DOMAIN runs'
    BY <2>2, <2>3, <2>5 DEF AdriftType
  <2>7. /\ adrift' \subseteq AdriftType
        /\ \A b \in adrift' : b.request = "create" \/ b.run \in DOMAIN runs'
    BY <1>1, <2>1, <2>4, <2>6, AdriftIsKept
  <2> QED
    BY <2>1, <2>4, <2>7, NoCallChanges
<1> QED
  BY <1>2, <1>3

LEMMA ServerChanged ==
  ASSUME ConsoleInv, NEW r \in DOMAIN runs, ServerChanges(r)
  PROVE  ConsoleInv' /\ ViewMovesOn
<1>1. RunsMove /\ UNCHANGED <<page, call, adrift, lost, visits>>
  BY ServerMovesRuns DEF ServerChanges
<1>2. /\ adrift' \subseteq AdriftType
      /\ \A a \in adrift' : a.request = "create" \/ a.run \in DOMAIN runs'
  BY <1>1, AdriftIsKept DEF ConsoleInv, ConsoleTyped
<1> QED
  BY <1>1, <1>2, NoCallChanges

\* Calls that are not under way ask nothing of the page.
LEMMA IdleIsSound ==
  ASSUME NEW c, c.at = "idle", c.answer = "none"
  PROVE  CallSound(c)'
BY DEF CallSound, AboutRun

LEMMA Clicked ==
  ASSUME ConsoleInv, NEW h \in Handler, NEW m \in RunMember \cup {"none"}, Click(h, m)
  PROVE  ConsoleInv' /\ ViewMovesOn
<1> DEFINE e == [at |-> h, shown |-> page.session.run, epoch |-> page.session.epoch,
                 target |-> m, answer |-> "none", view |-> NoSession, log |-> 0]
<1>1. ConsoleTyped /\ call \in [Handler -> CallType] /\ PageSound
  BY DEF ConsoleInv, ConsoleTyped
<1>2. /\ UNCHANGED <<runs, page, adrift, lost, visits>> /\ call' = [call EXCEPT ![h] = e]
      /\ Offered(h, m)
  BY DEF Click
<1>3. e \in CallType /\ e.at = h /\ e.shown = page.session.run /\ e.answer = "none"
  BY PageTyped, NothingTyped DEF CallType, RequestNames
<1> HIDE DEF e
<1>4. /\ call' \in [Handler -> CallType]
      /\ \A g \in Handler : call'[g] = IF g = h THEN e ELSE call[g]
  BY <1>1, <1>2, <1>3
<1>5. \A g \in Handler : call[g].at = "idle" /\ call[g].answer = "none"
  BY DEF Click, isBusy, Counted, ConsoleInv, CallSound
<1>6. h \notin {"create", "devices"} => page.session.run # 0
  <2>1. page.session.state # "none" => page.session.run # 0
    <3>1. SUFFICES ASSUME page.session.run = 0 PROVE page.session.state = "none"
      OBVIOUS
    <3> QED
      BY <1>1, <3>1 DEF PageSound
  <2> QED
    BY <1>2, <2>1 DEF Offered, MemberOffered, RunOffered, ActionOffered, Handler
<1>7. h = "create" => page.session.run = 0
  BY <1>2 DEF Offered, MemberOffered, RunOffered, ActionOffered
<1>8. ASSUME NEW g \in Handler PROVE CallSound(call[g])'
  <2>1. CASE g = h
    <3>1. PICK d \in CallType : /\ d = call'[g] /\ d.at = h /\ d.shown = page.session.run
                                /\ d.answer = "none"
      BY <1>3, <1>4, <2>1
    <3>2. CallSound(d)'
      BY <1>2, <1>6, <1>7, <3>1 DEF CallSound, AboutRun, Handler
    <3> QED
      BY <3>1, <3>2 DEF CallSound, CopyOfRun
  <2>2. CASE g # h
    <3>1. PICK d \in CallType : d = call'[g] /\ d.at = "idle" /\ d.answer = "none"
      BY <1>1, <1>4, <1>5, <2>2
    <3> QED
      BY <3>1 DEF CallSound, AboutRun
  <2> QED
    BY <2>1, <2>2
<1>9. \A f, g \in Handler : call'[f].at # "idle" /\ call'[g].at # "idle" => f = g
  BY <1>4, <1>5
<1>10. ConsoleTyped'
  BY <1>1, <1>2, <1>4 DEF ConsoleTyped
<1>11. RunsMove
  BY <1>2, RunsStay
<1>12. AdriftSound'
  BY <1>2, <1>11, AdriftIsKept DEF AdriftSound
<1> QED
  BY <1>2, <1>8, <1>9, <1>10, <1>11, <1>12, PageIsKept, PageStays, RunsKeepTheirShape
  DEF ConsoleInv

LEMMA Received ==
  ASSUME ConsoleInv, NEW h \in Handler, Receive(h)
  PROVE  ConsoleInv' /\ ViewMovesOn
<1>1. PICK c \in CallType : c = call[h] /\ CallSound(c) /\ c.answer = "ok"
  BY AwaitedCall DEF Receive
<1>2. /\ c.at # "idle" /\ PageSound /\ ConsoleTyped /\ call \in [Handler -> CallType]
      /\ c.at \in RequestNames /\ c.view \in SessionType /\ c.log \in Nat /\ c.shown \in Nat
  BY <1>1 DEF CallSound, ConsoleInv, ConsoleTyped, CallType
<1>3. PICK next \in RequestNames \cup {"idle"} :
        /\ next = NextRequest(c.at) /\ next \notin {"create", "devices"}
        /\ c.at = "create" => next = "preflight"
  BY DEF NextRequest, RequestNames, Handler
<1>4. RunsMove /\ UNCHANGED <<runs, adrift, lost, visits>>
  BY RunsStay DEF Receive
<1>5. /\ page' = CASE c.at \in {"devices", "retry", "skip"} -> page
                   [] c.at = "actions" -> [page EXCEPT !.log = c.log]
                   [] OTHER -> [page EXCEPT !.session = c.view]
      /\ call' = [call EXCEPT ![h] =
                    IF next = "idle" THEN NoCall
                    ELSE [c EXCEPT !.at = next, !.answer = "none",
                                   !.view = NoSession, !.log = 0]]
  BY <1>1, <1>3 DEF Receive
<1>6. /\ page \in PageType /\ page.session \in SessionType /\ page.log \in Nat
      /\ page.session.epoch \in Nat
  BY PageTyped
\* what the page holds now
<1>7. /\ page' \in PageType /\ PageSound' /\ ViewMovesOn
      /\ c.at # "devices" => page'.session.run # 0 /\ c.shown = page'.session.run
  <2>1. CASE c.at \in {"devices", "retry", "skip"}
    <3>1. page' = page
      BY <1>5, <2>1
    <3> QED
      BY <1>1, <1>4, <1>6, <2>1, <3>1, PageIsKept, PageStays DEF CallSound, AboutRun
  <2>2. CASE c.at = "actions"
    <3>1. page' = [page EXCEPT !.log = c.log]
      BY <1>5, <2>2
    <3>2. page' \in PageType /\ page'.session = page.session /\ page'.log = c.log
      BY <1>2, <1>6, <3>1 DEF PageType
    <3>3. /\ page.session.run # 0 /\ c.shown = page.session.run
          /\ page.log <= c.log /\ c.log <= runs[c.shown].log
      BY <1>1, <2>2 DEF CallSound, AboutRun
    <3>4. PageSound'
      BY <1>2, <1>4, <3>2, <3>3 DEF PageSound, CopyOfRun
    <3>5. ViewMovesOn
      BY <1>2, <1>6, <3>2, <3>3, NotOlderIsReflexive DEF ViewMovesOn
    <3> QED
      BY <3>2, <3>3, <3>4, <3>5
  <2>3. CASE c.at \notin {"devices", "retry", "skip", "actions"}
    <3>1. page' = [page EXCEPT !.session = c.view]
      BY <1>5, <2>3
    <3>2. page' \in PageType /\ page'.session = c.view /\ page'.log = page.log
      BY <1>2, <1>6, <3>1 DEF PageType
    <3>3. /\ c.view.run = c.shown /\ c.view.run # 0 /\ CopyOfRun(c.view)
          /\ page.session.run # 0 => NotOlder(page.session, c.view)
          /\ AboutRun(c.at) => page.session.run # 0 /\ c.shown = page.session.run
          /\ c.at = "create" => page.session.run = 0
      BY <1>1, <2>3 DEF CallSound
    <3>4. AboutRun(c.at) \/ c.at = "create"
      BY <1>2, <2>3 DEF AboutRun
    <3>5. c.view.run \in DOMAIN runs /\ runs[c.view.run].log \in Nat
      BY <1>4, <3>3, LogsAreNumbers DEF CopyOfRun
    <3>6. page.log <= runs[c.view.run].log
      <4>1. CASE page.session.run # 0
        BY <1>2, <3>3, <3>4, <4>1 DEF PageSound
      <4>2. CASE page.session.run = 0
        <5>1. page.log = 0
          BY <1>2, <4>2 DEF PageSound
        <5> QED
          BY <3>5, <5>1
      <4> QED
        BY <4>1, <4>2
    <3>7. PageSound'
      BY <1>4, <3>2, <3>3, <3>6 DEF PageSound, CopyOfRun
    <3>8. ViewMovesOn
      BY <1>6, <3>2, <3>3 DEF ViewMovesOn
    <3> QED
      BY <3>2, <3>3, <3>7, <3>8
  <2> QED
    BY <2>1, <2>2, <2>3
<1>8. PICK e \in CallType :
        /\ call' = [call EXCEPT ![h] = e] /\ e.answer = "none" /\ e.at = next
        /\ next # "idle" => e.shown = c.shown
  <2>1. CASE next = "idle"
    BY <1>5, <2>1, NothingTyped
  <2>2. CASE next # "idle"
    <3> DEFINE d == [c EXCEPT !.at = next, !.answer = "none", !.view = NoSession, !.log = 0]
    <3>1. d \in CallType /\ d.answer = "none" /\ d.at = next /\ d.shown = c.shown
      BY NothingTyped DEF CallType
    <3>2. call' = [call EXCEPT ![h] = d]
      BY <1>5, <2>2
    <3> HIDE DEF d
    <3> QED
      BY <3>1, <3>2
  <2> QED
    BY <2>1, <2>2
<1>9. /\ call' \in [Handler -> CallType]
      /\ \A g \in Handler : call'[g] = IF g = h THEN e ELSE call[g]
  BY <1>2, <1>8
<1>10. \A g \in Handler : g # h => call[g].at = "idle" /\ call[g].answer = "none"
  BY <1>1, <1>2 DEF ConsoleInv, CallSound
<1>11. ASSUME NEW g \in Handler PROVE CallSound(call[g])'
  <2>1. CASE g = h
    <3>1. PICK d \in CallType : /\ d = call'[g] /\ d.at = next /\ d.answer = "none"
                                /\ next # "idle" => d.shown = c.shown
      BY <1>8, <1>9, <2>1
    <3>2. next # "idle" => c.at # "devices"
      BY <1>3 DEF NextRequest
    <3>3. CallSound(d)'
      BY <1>3, <1>7, <3>1, <3>2 DEF CallSound, AboutRun
    <3> QED
      BY <3>1, <3>3 DEF CallSound, CopyOfRun
  <2>2. CASE g # h
    <3>1. PICK d \in CallType : d = call'[g] /\ d.at = "idle" /\ d.answer = "none"
      BY <1>2, <1>9, <1>10, <2>2
    <3> QED
      BY <3>1 DEF CallSound, AboutRun
  <2> QED
    BY <2>1, <2>2
<1>12. \A f, g \in Handler : call'[f].at # "idle" /\ call'[g].at # "idle" => f = g
  BY <1>9, <1>10
<1>13. ConsoleTyped'
  BY <1>2, <1>4, <1>7, <1>9 DEF ConsoleTyped
<1>14. AdriftSound'
  BY <1>4, AdriftIsKept DEF AdriftSound
<1> QED
  BY <1>4, <1>7, <1>11, <1>12, <1>13, <1>14, RunsKeepTheirShape DEF ConsoleInv

\* What a handler leaves under way is about a run that exists.
LEMMA UnderwayIsSound ==
  ASSUME ConsoleInv, NEW h \in Handler, NEW a \in Underway(h)
  PROVE  a \in AdriftType /\ (a.request = "create" \/ a.run \in DOMAIN runs)
<1>1. PICK c \in CallType : /\ c = call[h] /\ CallSound(c)
                            /\ AboutRun(c.at) => c.shown \in DOMAIN runs
  BY AwaitedCall
<1>2. PICK request : request = IF c.answer = "none" THEN c.at ELSE NextRequest(c.at)
  OBVIOUS
<1>3. /\ c.answer # "failed" /\ request \notin {"idle", "devices", "actions", "refresh"}
      /\ a = [request |-> request, run |-> c.shown, target |-> c.target]
  BY <1>1, <1>2 DEF Underway
<1>4. request \in RequestNames
  BY <1>2, <1>3 DEF NextRequest, RequestNames, Handler, CallType
<1>5. c.shown \in Nat /\ c.target \in RunMember \cup {"none"} /\ c.answer \in {"none", "ok", "failed"}
  BY DEF CallType
<1>6. request = "create" \/ c.shown \in DOMAIN runs
  <2>1. CASE c.answer = "none"
    BY <1>1, <1>2, <1>3, <2>1 DEF AboutRun
  <2>2. CASE c.answer = "ok"
    <3>1. c.at \in {"create", "preflight"}
      BY <1>2, <1>3, <2>2 DEF NextRequest
    <3> QED
      BY <1>1, <2>2, <3>1 DEF CallSound, CopyOfRun
  <2> QED
    BY <1>3, <1>5, <2>1, <2>2
<1> QED
  BY <1>3, <1>4, <1>5, <1>6 DEF AdriftType

LEMMA FreshCallsAreSound ==
  /\ FreshCalls \in [Handler -> CallType]
  /\ \A h \in Handler : /\ FreshCalls[h].answer = "none"
                        /\ FreshCalls[h].at \in {"idle", "devices"}
                        /\ FreshCalls[h].at = "devices" => h = "devices"
<1>1. [NoCall EXCEPT !.at = "devices"] \in CallType
  BY NothingTyped DEF CallType, RequestNames, Handler
<1>2. [NoCall EXCEPT !.at = "devices"].at = "devices" /\ [NoCall EXCEPT !.at = "devices"].answer = "none"
  BY NothingTyped DEF CallType
<1> QED
  BY <1>1, <1>2, NothingTyped DEF FreshCalls

LEMMA FreshPageIsSound ==
  ASSUME page' = FreshPage, call' = FreshCalls
  PROVE  /\ PageSound' /\ \A h \in Handler : CallSound(call[h])'
         /\ \A f, g \in Handler : call'[f].at # "idle" /\ call'[g].at # "idle" => f = g
<1>1. PageSound'
  BY NothingTyped DEF PageSound
<1>2. ASSUME NEW h \in Handler PROVE CallSound(call[h])'
  <2>1. PICK d \in CallType : d = call'[h] /\ d.answer = "none" /\ d.at \in {"idle", "devices"}
    BY FreshCallsAreSound
  <2> QED
    BY <2>1 DEF CallSound, AboutRun
<1> QED
  BY <1>1, <1>2, FreshCallsAreSound

LEMMA PageIsLeft ==
  ASSUME ConsoleInv, LeavePage
  PROVE  ConsoleInv' /\ ViewMovesOn
<1>1. /\ page' = FreshPage /\ call' = FreshCalls /\ UNCHANGED <<runs, lost>>
      /\ adrift' = adrift \cup UNION {Underway(h) : h \in Handler}
      /\ ConsoleTyped /\ visits' \in 1 .. MaxVisits /\ RunsMove
  BY SessionConsoleAssumption, RunsStay DEF LeavePage, ConsoleInv, ConsoleTyped
<1>2. \A a \in adrift' : a \in AdriftType /\ (a.request = "create" \/ a.run \in DOMAIN runs)
  BY <1>1, UnderwayIsSound DEF ConsoleInv, ConsoleTyped, AdriftSound
<1>3. ConsoleTyped'
  BY <1>1, <1>2, NothingTyped, FreshCallsAreSound DEF ConsoleTyped
<1>4. AdriftSound'
  BY <1>1, <1>2 DEF AdriftSound
<1>5. ViewMovesOn
  BY <1>1, NothingTyped DEF ViewMovesOn
<1> QED
  BY <1>1, <1>3, <1>4, <1>5, FreshPageIsSound, RunsKeepTheirShape DEF ConsoleInv

LEMMA ConsoleStarts == ConsoleInit => ConsoleInv
<1>1. SUFFICES ASSUME ConsoleInit PROVE ConsoleInv
  OBVIOUS
<1>2. /\ runs = <<>> /\ page = FreshPage /\ call = FreshCalls /\ adrift = {} /\ lost = 0
      /\ visits = 1
  BY <1>1 DEF ConsoleInit
<1>3. runs \in Seq(RunType) /\ DOMAIN runs = {} /\ 1 \in 1 .. MaxVisits
  BY <1>2, SessionConsoleAssumption
<1>4. ConsoleTyped
  BY <1>2, <1>3, NothingTyped, FreshCallsAreSound DEF ConsoleTyped
<1>5. PageSound /\ AdriftSound
  BY <1>2, NothingTyped DEF PageSound, AdriftSound
<1>6. \A h \in Handler : CallSound(call[h])
  BY <1>2, FreshCallsAreSound DEF CallSound, AboutRun
<1>7. \A f, g \in Handler : call[f].at # "idle" /\ call[g].at # "idle" => f = g
  BY <1>2, FreshCallsAreSound
<1> QED
  BY <1>3, <1>4, <1>5, <1>6, <1>7 DEF ConsoleInv

\* A step of the Sessions page, from a state in which its invariant holds.
LEMMA ConsoleStep ==
  ASSUME ConsoleInv, ConsoleNext
  PROVE  ConsoleInv' /\ ViewMovesOn
<1>1. ASSUME NEW h \in Handler, Handle(h) \/ HandleAndLose(h) \/ Refuse(h)
                                \/ Receive(h) \/ ReceiveError(h)
      PROVE  ConsoleInv' /\ ViewMovesOn
  BY <1>1, Handled, HandleAndLost, Received, HandlerReturns
<1>2. ASSUME NEW h \in Handler, NEW m \in RunMember \cup {"none"}, Click(h, m)
      PROVE  ConsoleInv' /\ ViewMovesOn
  BY <1>2, Clicked
<1>3. ASSUME NEW a \in adrift, HandleAdrift(a) \/ AdriftFails(a)
      PROVE  ConsoleInv' /\ ViewMovesOn
  BY <1>3, AdriftMoves
<1>4. ASSUME NEW r \in DOMAIN runs, ServerChanges(r)
      PROVE  ConsoleInv' /\ ViewMovesOn
  BY <1>4, ServerChanged
<1>5. CASE LeavePage
  BY <1>5, PageIsLeft
<1> QED
  BY <1>1, <1>2, <1>3, <1>4, <1>5 DEF ConsoleNext

-----------------------------------------------------------------------------
(* What the invariants say is what the run checks.                         *)

LEMMA ConsoleInvSuffices == ConsoleInv => ConsoleTypeOK
<1>1. SUFFICES ASSUME ConsoleInv PROVE ConsoleTypeOK
  OBVIOUS
<1>2. /\ ConsoleTyped /\ runs \in Seq(RunType)
      /\ DOMAIN runs = 1 .. Len(runs) /\ Len(runs) \in Nat
      /\ \A r \in DOMAIN runs : runs[r] \in RunType /\ RunSound(runs[r])
  BY <1>1, RunIndices
<1>3. \A r \in DOMAIN runs :
        /\ runs[r].state \in {"CREATED", "PREFLIGHT", "RUNNING", "PAUSED", "FINISHED"}
        /\ runs[r].leader \in runs[r].members
        /\ runs[r].out \subseteq runs[r].members
        /\ runs[r].epoch \in 1 .. MaxEpoch
  BY <1>2, RunsAreTyped DEF RunSound, RunStates
<1>4. page.session.run \in 0 .. Len(runs) /\ page.log \in 0 .. MaxLog
  <2>1. PageSound /\ page.log \in Nat
    BY <1>1, PageTyped DEF ConsoleInv
  <2>2. CASE page.session.run = 0
    <3>1. page.log = 0 /\ 0 \in 0 .. MaxLog /\ 0 \in 0 .. Len(runs)
      BY <1>2, <2>1, <2>2, SessionConsoleAssumption DEF PageSound
    <3> QED
      BY <2>2, <3>1
  <2>3. CASE page.session.run # 0
    <3>1. page.session.run \in DOMAIN runs /\ page.log <= runs[page.session.run].log
      BY <2>1, <2>3 DEF PageSound, CopyOfRun
    <3>2. runs[page.session.run].log \in 0 .. MaxLog
      BY <1>2, <3>1, RunsAreTyped
    <3>3. page.log \in 0 .. MaxLog
      BY <2>1, <3>1, <3>2, SessionConsoleAssumption
    <3>4. page.session.run \in 0 .. Len(runs)
      BY <1>2, <3>1
    <3> QED
      BY <3>3, <3>4
  <2> QED
    BY <2>2, <2>3
<1>5. \A h \in Handler : call[h].answer \in {"none", "ok", "failed"}
  BY <1>2 DEF ConsoleTyped, CallType
<1>6. visits \in 1 .. MaxVisits
  BY <1>2 DEF ConsoleTyped
<1> QED
  BY <1>3, <1>4, <1>5, <1>6 DEF ConsoleTypeOK

LEMMA ResultsInvSuffices == ResultsInv => ResultsTypeOK
BY DEF ResultsInv, ResultsTyped, ResultsTypeOK, HistoryType, Finals, ResultsType, RequestType

LEMMA CleanupInvSuffices == CleanupInv => CleanupConsoleTypeOK
BY DEF CleanupInv, CleanupTyped, CleanupConsoleTypeOK, PanelType, DialogType, SavingType

LEMMA StreamInvSuffices == StreamInv => StreamTypeOK /\ SettledListIsCurrent
<1>1. SUFFICES ASSUME StreamInv PROVE StreamTypeOK /\ SettledListIsCurrent
  OBVIOUS
<1>2. StreamTyped /\ list \in ListType
  BY <1>1 DEF StreamInv, StreamTyped
<1>3. \A i \in DOMAIN reads : reads[i] \in ReadType
  BY <1>2, LenProperties, ElementOfSeq DEF StreamTyped
<1>4. StreamTypeOK
  BY <1>2, <1>3 DEF StreamTyped, StreamTypeOK, DevicesType, ListType, ReadType
<1>5. SettledListIsCurrent
  <2>1. SUFFICES ASSUME list.shown, stream = "open", wire = <<>>, reads = <<>>, ~list.error,
                        ~list.late
                 PROVE  list.devices = record
    BY DEF SettledListIsCurrent
  <2>2. DOMAIN reads = {}
    BY <2>1
  <2> QED
    BY <1>1, <2>1, <2>2 DEF StreamInv, ListCatchesUp, UpToDate
<1> QED
  BY <1>4, <1>5

-----------------------------------------------------------------------------
(* The specification: one of the five moves, the others keep what they are. *)

LEMMA PagesStart == ConsolePartsInit => PagesInv
BY ConsoleStarts, ResultsStart, CleanupStarts, StreamStarts, LiveStarts
DEF ConsolePartsInit, PagesInv

LEMMA OthersStay ==
  /\ ConsoleInv /\ UNCHANGED consoleVars => ConsoleInv'
  /\ ResultsInv /\ UNCHANGED resultVars => ResultsInv'
  /\ CleanupInv /\ UNCHANGED cleanupConsoleVars => CleanupInv'
  /\ StreamInv /\ UNCHANGED streamVars => StreamInv'
  /\ LiveInv /\ UNCHANGED liveVars => LiveInv'
<1>1. ConsoleInv /\ UNCHANGED consoleVars => ConsoleInv'
  BY DEF ConsoleInv, ConsoleTyped, PageSound, CallSound, CopyOfRun, AdriftSound, consoleVars
<1>2. ResultsInv /\ UNCHANGED resultVars => ResultsInv'
  BY DEF ResultsInv, ResultsTyped, RequestsAreFormed, OneReading, ListIsBehind, resultVars
<1>3. CleanupInv /\ UNCHANGED cleanupConsoleVars => CleanupInv'
  BY DEF CleanupInv, CleanupTyped, cleanupConsoleVars
<1>4. StreamInv /\ UNCHANGED streamVars => StreamInv'
  BY DEF StreamInv, StreamTyped, ListCatchesUp, UpToDate, AskedAgain, FreshFrom, streamVars
<1>5. LiveInv /\ UNCHANGED liveVars => LiveInv'
  BY DEF LiveInv, LiveTyped, ProvidersSound, ProviderSound, Created, Opened, ViewSound,
         PictureIsOfTheSerial, MapSound, liveVars
<1> QED
  BY <1>1, <1>2, <1>3, <1>4, <1>5

LEMMA PagesStep ==
  ASSUME PagesInv, [ConsolePartsNext]_consolePartsVars
  PROVE  /\ PagesInv'
         /\ UNCHANGED consoleVars \/ ViewMovesOn
         /\ \/ UNCHANGED resultVars
            \/ \A r \in ResultRun : results'.listed[r] >= results.listed[r]
         /\ UNCHANGED cleanupConsoleVars \/ remaining \ remaining' \subseteq wanted
<1>1. CASE ConsoleNext /\ UNCHANGED <<resultVars, cleanupConsoleVars, streamVars, liveVars>>
  BY <1>1, ConsoleStep, OthersStay DEF PagesInv
<1>2. CASE ResultsNext /\ UNCHANGED <<consoleVars, cleanupConsoleVars, streamVars, liveVars>>
  BY <1>2, ResultsStep, OthersStay DEF PagesInv
<1>3. CASE CleanupConsoleNext /\ UNCHANGED <<consoleVars, resultVars, streamVars, liveVars>>
  BY <1>3, CleanupStep, OthersStay DEF PagesInv
<1>4. CASE StreamNext /\ UNCHANGED <<consoleVars, resultVars, cleanupConsoleVars, liveVars>>
  BY <1>4, StreamStep, OthersStay DEF PagesInv
<1>5. CASE LiveNext /\ UNCHANGED <<consoleVars, resultVars, cleanupConsoleVars, streamVars>>
  BY <1>5, LiveStep, OthersStay DEF PagesInv
<1>6. CASE UNCHANGED consolePartsVars
  BY <1>6, OthersStay DEF PagesInv, consolePartsVars
<1> QED
  BY <1>1, <1>2, <1>3, <1>4, <1>5, <1>6 DEF ConsolePartsNext

LEMMA PagesInvHolds == ConsolePartsSpec => []PagesInv
<1>1. ConsolePartsInit => PagesInv
  BY PagesStart
<1>2. PagesInv /\ [ConsolePartsNext]_consolePartsVars => PagesInv'
  BY PagesStep
<1> QED
  BY <1>1, <1>2, PTL DEF ConsolePartsSpec

-----------------------------------------------------------------------------
\* While the viewport says that it shows a device, the picture is of the device
\* it is set to, however late pictures of an earlier one are decoded, and a
\* provider takes screenshots only after its scrcpy transport is closed
\* (VideoViewport.tsx, failover-provider.ts).
THEOREM ShownHolds == ConsolePartsSpec => []ShownIsLive
<1>1. PagesInv => ShownIsLive
  BY LiveInvSuffices DEF PagesInv
<1> QED
  BY <1>1, PagesInvHolds, PTL

\* The pages hold what they can hold, and the list of devices, once every event
\* was received and every request answered, in whatever order, is the registry's
\* unless the answer applied last was one that a list asked for later had
\* overtaken (DevicesPage.tsx).
THEOREM PagesHold == ConsolePartsSpec => []PagesAtRestAreCurrent
<1>1. PagesInv => PagesAtRestAreCurrent
  BY ConsoleInvSuffices, ResultsInvSuffices, CleanupInvSuffices, StreamInvSuffices
  DEF PagesInv, PagesAtRestAreCurrent
<1> QED
  BY <1>1, PagesInvHolds, PTL

\* While it shows a run, the Sessions page never replaces its copy of the run,
\* nor of the action log, by an older one, although answers arrive in any
\* order: one handler is busy at a time (SessionsPage.tsx, isBusy).
THEOREM ViewHolds == ConsolePartsSpec => ViewNeverGoesBack
<1>1. ASSUME PagesInv, [ConsolePartsNext]_consolePartsVars
      PROVE  [page.session.run # 0 /\ page'.session.run = page.session.run
                => /\ NotOlder(page.session, page'.session)
                   /\ page'.log >= page.log]_consoleVars
  BY <1>1, PagesStep DEF ViewMovesOn
<1> QED
  BY <1>1, PagesInvHolds, PTL DEF ConsolePartsSpec, ViewNeverGoesBack

\* The list of results never goes back to what a run was before: one reading of
\* the history is under way at a time (ResultsPage.tsx, loading).
THEOREM ListHolds == ConsolePartsSpec => ListNeverGoesBack
<1>1. ASSUME PagesInv, [ConsolePartsNext]_consolePartsVars
      PROVE  [\A r \in ResultRun : results'.listed[r] >= results.listed[r]]_resultVars
  BY <1>1, PagesStep
<1> QED
  BY <1>1, PagesInvHolds, PTL DEF ConsolePartsSpec, ListNeverGoesBack

\* A cleanup deletes only runs the operator ticked and did not untick himself,
\* whatever previews arrive between the table, the dialog and the execution
\* (CleanupPreviewPanel.tsx, CleanupDialog.tsx).
THEOREM DeletesHold == ConsolePartsSpec => DeletesOnlyWhatWasSelected
<1>1. ASSUME PagesInv, [ConsolePartsNext]_consolePartsVars
      PROVE  [remaining \ remaining' \subseteq wanted]_cleanupConsoleVars
  BY <1>1, PagesStep
<1> QED
  BY <1>1, PagesInvHolds, PTL DEF ConsolePartsSpec, DeletesOnlyWhatWasSelected

=============================================================================
