------------------------------ MODULE SelfCheck ------------------------------
(***************************************************************************)
(* The environment self-check: default-probes.ts looks each tool up and    *)
(* runs it, the classifiers under probes/ judge what was seen,             *)
(* run-diagnostic.ts takes the worst, publish-diagnostic.ts writes a JSON  *)
(* and an HTML file, and cli/self-check.ts turns it into an exit code.     *)
(* The machine is an input: Init chooses it, and it does not change while  *)
(* the check runs.  Versions are compared as equal, different or absent.   *)
(***************************************************************************)
EXTENDS Naturals, FiniteSets, Sequences

Tool == {"node", "java", "adb", "appium", "uiautomator2", "bundletool",
         "scrcpy"}
Probe == Tool \cup {"drive", "unity", "ports"}

\* Where default-probes.ts looks: a trusted project copy, Unity's own copy,
\* and the PATH, which is reported and never run.
LooksInUnity == {"java", "adb"}
LooksOnPath == {"node", "java", "adb", "scrcpy"}

\* appium and bundletool are run by another tool.
RunBy == [appium |-> "node", bundletool |-> "java"]

Place == {"local", "unity", "path"}

\* What the version command does.
Behaviour == {"expected", "other", "silent", "fails", "hangs", "refuses"}

VARIABLES
  machine,      \* where the tools are and how they behave
  diagnostic,   \* the result of each probe, or {} before the check
  files,        \* the files of this publication on the disk
  report,       \* "none", "json", "html", "jsonDone", "done", "undo", "failed"
  exitCode      \* none yet: 1

selfCheckVars == <<machine, diagnostic, files, report, exitCode>>

InOrder == [at |-> {"local"}, does |-> "expected"]

--------------------------------------------------------------------------
(* tool-resolver.ts *)

Eligible(t) == {"local"} \cup (IF t \in LooksInUnity THEN {"unity"} ELSE {})

\* Mutant: what the PATH offers is run as well.
ResolvedOnPath(t) ==
  machine.tool[t].at \cap (Eligible(t) \cup
    IF t \in LooksOnPath THEN {"path"} ELSE {}) # {}

Resolved(t) == machine.tool[t].at \cap Eligible(t) # {}

\* diagnosticResolutionFacts, asked only where nothing was selected.
SeenOnPath(t) == t \in LooksOnPath /\ "path" \in machine.tool[t].at

--------------------------------------------------------------------------
(* default-probes.ts and process-runner.ts: the snapshot of a tool *)

\* runCommand: a run that throws reads as one without an exit code.
Command(b) ==
  CASE b = "expected" -> [exit |-> "zero", timedOut |-> FALSE, version |-> "same"]
    [] b = "other"    -> [exit |-> "zero", timedOut |-> FALSE, version |-> "differs"]
    [] b = "silent"   -> [exit |-> "zero", timedOut |-> FALSE, version |-> "none"]
    [] b = "fails"    -> [exit |-> "other", timedOut |-> FALSE, version |-> "none"]
    [] b = "hangs"    -> [exit |-> "none", timedOut |-> TRUE, version |-> "none"]
    [] b = "refuses"  -> [exit |-> "none", timedOut |-> FALSE, version |-> "none"]

\* package.json of the driver is read, not run: there is a version or not.
PackageVersion(b) ==
  IF b \in {"expected", "other"} THEN Command(b)
  ELSE [exit |-> "none", timedOut |-> FALSE, version |-> "none"]

Snapshot(t) ==
  IF t = "uiautomator2" THEN PackageVersion(machine.tool[t].does)
  ELSE IF t \in DOMAIN RunBy /\ ~Resolved(RunBy[t])
  THEN [exit |-> "none", timedOut |-> FALSE, version |-> "none"]
  ELSE Command(machine.tool[t].does)

--------------------------------------------------------------------------
(* The classifiers: node is needed by the server itself, the rest degrade. *)

Missing(t) == IF SeenOnPath(t) THEN "PATH_UNRESOLVED" ELSE "NOT_FOUND"

\* classifyVersionedRuntime, classifyNpmTool, scrcpy and bundletool: the
\* first thing that is wrong, in this order.
FirstError(t) ==
  LET s == Snapshot(t)
  IN  IF ~Resolved(t) THEN {Missing(t)}
      ELSE IF s.timedOut THEN {"COMMAND_TIMEOUT"}
      ELSE IF s.exit # "zero" \/ s.version = "none" THEN {"UNUSABLE_RUNTIME"}
      ELSE IF s.version = "differs" THEN {"VERSION_MISMATCH"}
      ELSE {}

\* adb says everything that is wrong, its devices included.
AdbVersionErrors(s) ==
  IF s.timedOut THEN {"COMMAND_TIMEOUT"}
  ELSE IF s.exit # "zero"
       THEN {"VERSION_COMMAND_FAILED", "DEVICE_LIST_FAILED"}
       ELSE IF s.version = "none" THEN {"VERSION_UNAVAILABLE"}
       ELSE IF s.version = "differs" THEN {"VERSION_MISMATCH"} ELSE {}

DeviceStateErrors(states) ==
  (IF states = {} THEN {"NO_DEVICE"}
   ELSE IF "device" \notin states THEN {"NO_ONLINE_DEVICE"} ELSE {})
  \cup {e \in {"UNAUTHORIZED", "OFFLINE", "NO_PERMISSIONS"} : e \in states}
  \cup (IF "recovery" \in states THEN {"DEVICE_STATE_UNAVAILABLE"} ELSE {})

\* Nothing is listed by an adb that does not run.
ListedStates ==
  IF Snapshot("adb").exit = "zero" THEN machine.devices ELSE {}

AdbErrors ==
  IF ~Resolved("adb") THEN {Missing("adb")}
  ELSE AdbVersionErrors(Snapshot("adb")) \cup DeviceStateErrors(ListedStates)

\* collectWindowsDriveSnapshot and classifyDriveSnapshot; free space in GiB.
DriveErrors ==
  IF ~machine.drive.exists THEN {"DRIVE_NOT_FOUND"}
  ELSE (IF machine.drive.free < 5 THEN {"FREE_SPACE_CRITICAL"}
        ELSE IF machine.drive.free < 20 THEN {"FREE_SPACE_LOW"} ELSE {})
       \cup (IF machine.drive.writable THEN {} ELSE {"DATA_ROOT_UNWRITABLE"})

\* The version of the editor is read by PowerShell and counts for nothing
\* when that fails; every Android module has to be there.
UnityErrors ==
  LET s == Command(machine.unity.does)
  IN  IF ~machine.unity.exists THEN {"NOT_FOUND"}
      ELSE (IF s.version = "none" THEN {"VERSION_UNAVAILABLE"}
            ELSE IF s.version = "differs" THEN {"VERSION_MISMATCH"} ELSE {})
           \cup (IF machine.unity.modules THEN {}
                 ELSE {"ANDROID_MODULE_MISSING"})

PortErrors == IF machine.portFree THEN {} ELSE {"PORT_OCCUPIED"}

\* collectProbe: a probe that throws counts as one that found the worst.
ErrorsOf(p) ==
  IF p \in machine.broken THEN {"PROBE_COLLECTION_FAILED"}
  ELSE CASE p = "adb" -> AdbErrors
         [] p = "drive" -> DriveErrors
         [] p = "unity" -> UnityErrors
         [] p = "ports" -> PortErrors
         [] OTHER -> FirstError(p)

\* Otherwise only the server's own runtime and its disk can be fatal.
SeverityOf(p, errors) ==
  IF errors = {} THEN "HEALTHY"
  ELSE IF p \in machine.broken \cup {"node"} \/ (p = "drive" /\ errors # {"FREE_SPACE_LOW"})
       THEN "FATAL" ELSE "DEGRADED"

--------------------------------------------------------------------------
(* run-diagnostic.ts *)

Rank == [HEALTHY |-> 0, DEGRADED |-> 1, FATAL |-> 2]

Worst(severities) ==
  CHOOSE s \in severities : \A o \in severities : Rank[o] <= Rank[s]

Overall == Worst({diagnostic[p] : p \in Probe})

RunDiagnostic ==
  /\ report = "none"
  /\ diagnostic' = [p \in Probe |-> SeverityOf(p, ErrorsOf(p))]
  /\ report' = "json"
  /\ UNCHANGED <<machine, files, exitCode>>

--------------------------------------------------------------------------
(* publish-diagnostic.ts: two partial files, then two renames.  Any of the *)
(* four may fail; then every one of the four names is removed, and each of *)
(* the removals may fail as well.                                          *)

PublishSteps == <<"json", "html", "jsonDone", "done">>

Written(step) ==
  CASE step = "json" -> files \cup {"json.partial"}
    [] step = "html" -> files \cup {"html.partial"}
    [] step = "jsonDone" -> (files \ {"json.partial"}) \cup {"json"}
    [] step = "done" -> (files \ {"html.partial"}) \cup {"html"}

PublishStep ==
  \E k \in 1..4 :
    /\ report = PublishSteps[k]
    /\ \/ /\ files' = Written(report)
          /\ report' = IF k = 4 THEN "published" ELSE PublishSteps[k + 1]
       \/ report' = "undo" /\ UNCHANGED files
    /\ UNCHANGED <<machine, diagnostic, exitCode>>

\* Mutant: what was renamed already is not taken back.
CleanedUpPartials == {"json.partial", "html.partial"}

\* Which files the clean-up names: both partials, and what was renamed.
CleanedUp == {"json.partial", "html.partial", "json", "html"}

PublishUndo ==
  /\ report = "undo"
  /\ \E stuck \in SUBSET (files \cap CleanedUp) :
       /\ files' = (files \ CleanedUp) \cup stuck
       /\ report' = IF stuck = {} THEN "failed" ELSE "failedDirty"
  /\ UNCHANGED <<machine, diagnostic, exitCode>>

(***************************************************************************)
(* cli/self-check.ts: a check that throws exits like a fatal one.          *)
(***************************************************************************)
SelfCheckExit ==
  /\ exitCode = 1 /\ report \in {"published", "failed", "failedDirty"}
  /\ exitCode' = IF report # "published" THEN 3
                 ELSE [HEALTHY |-> 0, DEGRADED |-> 2, FATAL |-> 3][Overall]
  /\ UNCHANGED <<machine, diagnostic, files, report>>

SelfCheckNext == RunDiagnostic \/ PublishStep \/ PublishUndo \/ SelfCheckExit

--------------------------------------------------------------------------
(* The machines: one tool, or two of which one runs the other, deviate in   *)
(* any way they can, or one of the other parts does.                        *)
OddTools == {{t} : t \in Tool} \cup {{t, RunBy[t]} : t \in DOMAIN RunBy}

Deviation == [at : SUBSET Place, does : Behaviour]

Plain == [drive |-> [exists |-> TRUE, free |-> 20, writable |-> TRUE],
          unity |-> [exists |-> TRUE, does |-> "expected", modules |-> TRUE],
          portFree |-> TRUE, devices |-> {"device"}, broken |-> {}]

OddPart ==
  {[Plain EXCEPT !.drive = d] :
     d \in [exists : BOOLEAN, free : {4, 5, 19, 20}, writable : BOOLEAN]}
  \cup {[Plain EXCEPT !.unity = u] :
          u \in [exists : BOOLEAN, does : Behaviour, modules : BOOLEAN]}
  \cup {[Plain EXCEPT !.devices = s] :
          s \in SUBSET {"device", "UNAUTHORIZED", "OFFLINE",
                        "NO_PERMISSIONS", "recovery"}}
  \cup {[Plain EXCEPT !.portFree = FALSE]}
  \cup {[Plain EXCEPT !.broken = {p}] : p \in Probe}

WithTools(part, tools) ==
  [drive |-> part.drive, unity |-> part.unity, portFree |-> part.portFree,
   devices |-> part.devices, broken |-> part.broken, tool |-> tools]

SelfCheckInit ==
  /\ \/ \E part \in OddPart :
          machine = WithTools(part, [t \in Tool |-> InOrder])
     \/ \E odd \in OddTools : \E how \in [odd -> Deviation] :
          machine = WithTools(Plain, [t \in Tool |->
                      IF t \in odd THEN how[t] ELSE InOrder])
  /\ diagnostic = [p \in Probe |-> "HEALTHY"]
  /\ files = {} /\ report = "none" /\ exitCode = 1

--------------------------------------------------------------------------
(* What a machine needs, said without the probes: every tool is in a place *)
(* it may be run from, answers with the version that is asked for, as does *)
(* what runs it, and the host has room and a device.                       *)
ToolWorks(t) == /\ machine.tool[t].at \cap Eligible(t) # {}
                /\ machine.tool[t].does = "expected"

MachineIsReady ==
  /\ \A t \in Tool : ToolWorks(t)
  /\ machine.drive.exists /\ machine.drive.free >= 20 /\ machine.drive.writable
  /\ machine.unity.exists /\ machine.unity.modules
  /\ machine.unity.does = "expected"
  /\ machine.portFree
  /\ machine.devices = {"device"}
  /\ machine.broken = {}

(***************************************************************************)
(* The exit code tells what the machine is: 0 for one on which everything  *)
(* can be run, and only for it; never 0 or 2 without the pair of files; 3  *)
(* whenever the server could not run or write there.                       *)
(***************************************************************************)
ExitCodeTellsTheMachine ==
  /\ exitCode = 0 => MachineIsReady
  /\ exitCode \in {0, 2} => {"json", "html"} \subseteq files
  /\ exitCode = 2 => ToolWorks("node") /\ machine.drive.writable
  /\ exitCode = 3 /\ report = "published" => ~MachineIsReady

(***************************************************************************)
(* The report is a pair: no publication leaves one file without the other, *)
(* or a partial, unless the clean-up itself failed.                        *)
(***************************************************************************)
ReportIsAPair ==
  report \in {"published", "failed"} => files \in {{}, {"json", "html"}}
=============================================================================
