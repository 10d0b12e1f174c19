-------------------------- MODULE InstalledIdentity --------------------------
(***************************************************************************)
(* Registering what a device has installed: installed-identity.ts collects *)
(* it with one adb command after another, and registerInstalled of         *)
(* artifact-repository.ts stores it.  The device lives on meanwhile: the   *)
(* package may be replaced or removed between two commands.  Android gives *)
(* every install a fresh directory below /data/app (external), so a path   *)
(* read from one install is not found in another.                          *)
(***************************************************************************)
EXTENDS Naturals, FiniteSets

CONSTANTS Registration,   \* the requests to register
          MaxInstalls     \* bound: installs of the package on the device

ASSUME IdentityAssumption == MaxInstalls \in Nat

Install == 1..MaxInstalls
Absent == 0

\* The build an install carries: a build may come back in a later install.
BuildOf(n) == n % 2

\* What a digest says of bytes that are no install's files.
NoBuild == 2

VARIABLES
  installed,      \* the install on the device, or Absent
  installs,       \* installs so far
  reg,            \* the requests: the step they are at and what they have read
  registered      \* rows of kind INSTALLED: <<version columns, set digest>>

identityVars == <<installed, installs, reg, registered>>

NewRegistration == [step |-> "idle", path |-> Absent, details |-> Absent,
                    stream |-> Absent, answer |-> "none"]

IdentitySteps == {"idle", "details", "signer", "activity", "stream", "store",
                  "done"}

IdentityTypeOK ==
  /\ installed \in Install \cup {Absent}
  /\ installs \in 0..MaxInstalls
  /\ \A r \in Registration :
       /\ reg[r].step \in IdentitySteps
       /\ reg[r].answer \in {"none", "CREATED", "DEDUPLICATED", "FAILED"}

IdentityInit ==
  /\ installed = Absent /\ installs = 0
  /\ reg = [r \in Registration |-> NewRegistration]
  /\ registered = {}

(***************************************************************************)
(* The device (external): an install takes the place of the one before.    *)
(***************************************************************************)
DeviceInstalls ==
  /\ installs < MaxInstalls
  /\ installs' = installs + 1
  /\ installed' = installs + 1
  /\ UNCHANGED <<reg, registered>>

DeviceRemoves ==
  /\ installed # Absent
  /\ installed' = Absent
  /\ UNCHANGED <<installs, reg, registered>>

(***************************************************************************)
(* collectInstalledIdentity.  Any command may fail: the device is gone,    *)
(* the answer is not understood, the package is not there.                 *)
(***************************************************************************)
Fails(r) == reg' = [reg EXCEPT ![r].answer = "FAILED", ![r].step = "done"]

PackagePaths(r) ==
  /\ reg[r].step = "idle"
  /\ \/ /\ installed # Absent
        /\ reg' = [reg EXCEPT ![r] = [NewRegistration EXCEPT
                     !.path = installed, !.step = "details"]]
     \/ Fails(r)
  /\ UNCHANGED <<installed, installs, registered>>

\* dumpsys may show the signer; the host is asked for it only otherwise.
PackageDetails(r) ==
  /\ reg[r].step = "details"
  /\ \/ /\ installed # Absent
        /\ \E next \in {"signer", "activity"} :
             reg' = [reg EXCEPT ![r].details = installed, ![r].step = next]
     \/ Fails(r)
  /\ UNCHANGED <<installed, installs, registered>>

\* The host's signer resolver copies the base file by the path read before,
\* and so does the digest of the installed set with every file.
FileIsThere(r) == installed = reg[r].path

HostSigner(r) ==
  /\ reg[r].step = "signer"
  /\ \/ FileIsThere(r) /\ reg' = [reg EXCEPT ![r].step = "activity"]
     \/ Fails(r)
  /\ UNCHANGED <<installed, installs, registered>>

\* A package without a launchable activity is accepted.
ResolveActivity(r) ==
  /\ reg[r].step = "activity"
  /\ reg' = [reg EXCEPT ![r].step = "stream"] \/ Fails(r)
  /\ UNCHANGED <<installed, installs, registered>>

\* Mutant: the files are looked for again instead of by the path read first.
StreamFilesAnew(r) ==
  /\ reg[r].step = "stream"
  /\ \/ /\ installed # Absent
        /\ reg' = [reg EXCEPT ![r].stream = installed, ![r].step = "store"]
     \/ Fails(r)
  /\ UNCHANGED <<installed, installs, registered>>

\* adb exec-out passes on what cat wrote, errors included, and exits 0: where
\* a file has gone, or the transport breaks, the digest is of other bytes.
StreamFiles(r) ==
  /\ reg[r].step = "stream"
  /\ \/ \E bytes \in {Absent} \cup {n \in {installed} : FileIsThere(r)} :
          reg' = [reg EXCEPT ![r].stream = bytes, ![r].step = "store"]
     \/ Fails(r)
  /\ UNCHANGED <<installed, installs, registered>>

\* registerInstalled: one synchronous look-up and insert.
DigestOf(n) == IF n = Absent THEN NoBuild ELSE BuildOf(n)

Identity(r) == <<BuildOf(reg[r].details), DigestOf(reg[r].stream)>>

RegisterInstalled(r) ==
  /\ reg[r].step = "store"
  /\ registered' = registered \cup {Identity(r)}
  /\ reg' = [reg EXCEPT
       ![r].answer = IF Identity(r) \in registered THEN "DEDUPLICATED"
                                                   ELSE "CREATED",
       ![r].step = "done"]
  /\ UNCHANGED <<installed, installs>>

IdentityNext ==
  \/ DeviceInstalls \/ DeviceRemoves
  \/ \E r \in Registration :
       \/ PackagePaths(r) \/ PackageDetails(r) \/ HostSigner(r)
       \/ ResolveActivity(r) \/ StreamFiles(r) \/ RegisterInstalled(r)

(***************************************************************************)
(* What is registered never mixes two builds: where the digest is that of  *)
(* a build's files, the version columns are of the same build, however     *)
(* often the package is replaced while it is being read.                   *)
(***************************************************************************)
NeverTwoBuilds == \A row \in registered : row[2] \in {row[1], NoBuild}

(* The digest that is registered is that of the build the columns describe.*)
(* The code breaks it: README, Disagreements without a run.                *)
RegisteredIsOneBuild == \A row \in registered : row[1] = row[2]
=============================================================================
