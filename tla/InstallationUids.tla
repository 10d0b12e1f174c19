-------------------------- MODULE InstallationUids --------------------------
(***************************************************************************)
(* Whose uid a device shows.  devices/installation-repository.ts keeps the *)
(* generation of the application's data and the current uid of one package *)
(* on one device; uid-service.ts records uids that the Unity bridge        *)
(* reports or that an operator types; deployments wipe the data.  Reports  *)
(* travel from the application to the server and may arrive late.          *)
(***************************************************************************)
EXTENDS Naturals, Sequences, FiniteSets

CONSTANTS Browser,       \* the sessions that may type a uid
          MaxWipes,      \* bound: wipes asked for by deployments
          MaxReports,    \* bound: reports of the application
          TypedUids      \* whether operators type uids at all

ASSUME UidAssumption == /\ MaxWipes \in Nat /\ MaxReports \in Nat
                        /\ TypedUids \in BOOLEAN

NoUid == 0

VARIABLES
  data,           \* the application (external): [uid, key, boot, seq]
  wires,          \* the reports under way: records, in any order
  reports,        \* how many there were
  install,        \* the row: [generation, uid, status]
  wiping,         \* "no", "asked", "cleared", "kept": the deployment's step
  destroyed,      \* the uids whose data a wipe of this generation cleared
  observations,   \* device_uid_observations: <<generation, uid, source>>
  health,         \* health of the bridge: [status, boot, seq]
  nonces          \* the confirmations of manual uids, by browser

uidVars == <<data, wires, reports, install, wiping, destroyed, observations,
             health, nonces>>

UidTypeOK ==
  /\ install.generation \in 1..(MaxWipes + 1)
  /\ install.uid \in 0..(MaxWipes + 1)
  /\ install.status \in {"none", "PENDING", "SUCCEEDED", "FAILED"}
  /\ wiping \in {"no", "asked", "cleared", "kept"}
  /\ health.status \in {"UNAVAILABLE", "DEGRADED", "READY"}
  /\ DOMAIN nonces \subseteq Browser

UidInit ==
  /\ data = [uid |-> 1, key |-> 1, boot |-> 1, seq |-> 0]
  /\ wires = {} /\ reports = 0
  /\ install = [generation |-> 1, uid |-> NoUid, status |-> "none"]
  /\ wiping = "no" /\ destroyed = {} /\ observations = {}
  /\ health = [status |-> "UNAVAILABLE", boot |-> 0, seq |-> 0]
  /\ nonces = [b \in {} |-> NoUid]

--------------------------------------------------------------------------
(* The application (external).  Its generation is a preference among its   *)
(* own data: a wipe clears it too, and somebody has to write it again.     *)

Report ==
  /\ reports < MaxReports /\ reports' = reports + 1
  /\ data' = [data EXCEPT !.seq = @ + 1]
  /\ \E uid \in {data.uid, NoUid} :
       wires' = wires \cup {[uid |-> uid, key |-> data.key, boot |-> data.boot,
                             seq |-> data.seq + 1]}
  /\ UNCHANGED <<install, wiping, destroyed, observations, health, nonces>>

WritePreference ==
  /\ wiping = "no" /\ data.key # install.generation
  /\ data' = [data EXCEPT !.key = install.generation]
  /\ UNCHANGED <<wires, reports, install, wiping, destroyed, observations,
                 health, nonces>>

--------------------------------------------------------------------------
(* uid-service.ts *)

\* recordCurrentUidObservation and the row of the observation.
Record(uid, source) ==
  /\ install' = [install EXCEPT !.uid = uid, !.status = "none"]
  /\ observations' = observations \cup {<<install.generation, uid, source>>}

\* Only the last boot is remembered: a late report of an older one passes.
StaleReport(m) == /\ health.boot = m.boot /\ health.seq # 0
                  /\ m.seq <= health.seq

Health(status, m) == [status |-> status, boot |-> m.boot, seq |-> m.seq]

\* observeBridgeState, as the ingestor calls it for every QA_STATE.
ObserveBridgeState ==
  \E m \in wires :
    /\ wires' = wires \ {m}
    /\ \/ /\ StaleReport(m)
          /\ UNCHANGED <<install, observations, health>>
       \/ /\ ~StaleReport(m)
          /\ m.key = install.generation /\ m.uid # NoUid
          /\ Record(m.uid, "BRIDGE_AUTO")
          /\ health' = Health("READY", m)
       \/ /\ ~StaleReport(m)
          /\ ~(m.key = install.generation /\ m.uid # NoUid)
          /\ health' = Health("DEGRADED", m)
          /\ UNCHANGED <<install, observations>>
    /\ UNCHANGED <<data, reports, wiping, destroyed, nonces>>

\* The connection is lost: what was seen last is kept beside the status.
MarkBridgeUnavailable ==
  /\ health.status # "UNAVAILABLE"
  /\ health' = [health EXCEPT !.status = "UNAVAILABLE"]
  /\ UNCHANGED <<data, wires, reports, install, wiping, destroyed,
                 observations, nonces>>

\* The operator reads the uid in the application and asks for a nonce.
IssueManualUidConfirmation(b) ==
  /\ TypedUids
  /\ nonces' = [c \in DOMAIN nonces \cup {b} |->
                  IF c = b THEN data.uid ELSE nonces[c]]
  /\ UNCHANGED <<data, wires, reports, install, wiping, destroyed,
                 observations, health>>

\* setManualUid: one use, or none at all when the minute is over.  The nonce
\* names session, device and package, and no generation.
SetManualUid(b) ==
  /\ b \in DOMAIN nonces
  /\ nonces' = [c \in DOMAIN nonces \ {b} |-> nonces[c]]
  /\ \/ Record(nonces[b], "MANUAL")
     \/ UNCHANGED <<install, observations>>
  /\ UNCHANGED <<data, wires, reports, wiping, destroyed, health>>

--------------------------------------------------------------------------
(* The wipe of a deployment, around its adb command *)

\* Mutant: a wipe that keeps the installation keeps the generation.
MutationKeepsGeneration ==
  /\ wiping = "no" /\ install.generation <= MaxWipes
  /\ \E next \in {install.generation, install.generation + 1} :
       install' = [generation |-> next, uid |-> NoUid, status |-> "PENDING"]
  /\ wiping' = "asked" /\ destroyed' = {}
  /\ UNCHANGED <<data, wires, reports, observations, health, nonces>>

RecordDataMutation ==
  /\ wiping = "no" /\ install.generation <= MaxWipes
  /\ install' = [generation |-> install.generation + 1, uid |-> NoUid,
                 status |-> "PENDING"]
  /\ wiping' = "asked" /\ destroyed' = {}
  /\ UNCHANGED <<data, wires, reports, observations, health, nonces>>

\* adb clears the data, the preference with it, or fails.
AdbWipes ==
  /\ wiping = "asked"
  /\ \/ /\ wiping' = "cleared"
        /\ data' = [uid |-> data.uid + 1, key |-> 1, boot |-> data.boot + 1,
                    seq |-> 0]
        /\ destroyed' = destroyed \cup {data.uid}
     \/ wiping' = "kept" /\ UNCHANGED <<data, destroyed>>
  /\ UNCHANGED <<wires, reports, install, observations, health, nonces>>

\* recordMutationResult throws unless the mutation is still pending; the
\* handler of that error throws the same way, and the deployment fails.
RecordMutationResult ==
  /\ wiping \in {"cleared", "kept"}
  /\ wiping' = "no"
  /\ install' = IF install.status # "PENDING" THEN install
                ELSE [install EXCEPT !.status =
                        IF wiping = "cleared" THEN "SUCCEEDED" ELSE "FAILED"]
  /\ UNCHANGED <<data, wires, reports, destroyed, observations, health, nonces>>

UidNext ==
  \/ Report \/ WritePreference \/ ObserveBridgeState \/ MarkBridgeUnavailable
  \/ RecordDataMutation \/ AdbWipes \/ RecordMutationResult
  \/ \E b \in Browser : IssueManualUidConfirmation(b) \/ SetManualUid(b)

--------------------------------------------------------------------------
UidFrom(source) == <<install.generation, install.uid, source>> \in observations

(***************************************************************************)
(* A uid the bridge reported is shown only while the data it belongs to    *)
(* exists: no report of data that a wipe of this generation cleared, or    *)
(* cleared before, is taken for the present uid, however late it arrives.  *)
(***************************************************************************)
BridgeUidIsOfThisData ==
  install.uid # NoUid /\ ~UidFrom("MANUAL") =>
    /\ install.uid \notin destroyed
    /\ wiping = "no" => install.uid = data.uid

(***************************************************************************)
(* m5 plan, line 195: "manual UID requires current generation".  The nonce *)
(* does not, so a uid read before a wipe can be recorded after it.         *)
(* The code breaks it: README, Disagreements without a run.                *)
(***************************************************************************)
ManualUidIsOfThisData ==
  install.uid # NoUid /\ wiping = "no" => install.uid = data.uid
=============================================================================
