------------------------------- MODULE MCHost -------------------------------
(* Seven components of the host that share no state with each other: the    *)
(* import of packages, the registration of installed ones, one run of an    *)
(* external tool, the self-check, the register of devices, the uids, and    *)
(* the deployments.  A behaviour exercises the one that part names; the     *)
(* others stay as they start, so the run explores the sum of the seven.     *)
EXTENDS ArtifactImport, InstalledIdentity, ToolProcess, SelfCheck,
        DeviceRegistry, InstallationUids, Deployments, TLC

VARIABLE part

\* Two deployments: the first on two devices, with a wipe, the second on one.
MCTargets   == 1 :> <<"a", "b">> @@ 2 :> <<"a">>
MCMutations == 1 :> "CLEAR_DATA" @@ 2 :> "NONE"
MCRuns      == 1 :> 2 @@ 2 :> 3

hostVars == <<part, importVars, identityVars, processVars, selfCheckVars,
              registryVars, uidVars, vars>>

(* The machine of the self-check and the cables of the register are inputs: *)
(* they vary in the behaviours of their own part only.                      *)
HostInit ==
  /\ part \in {"import", "identity", "process", "selfCheck", "registry", "uids",
              "deployment", "deployments"}
  /\ ImportInit /\ IdentityInit /\ ProcessInit /\ UidInit /\ Init
  /\ IF part = "selfCheck" THEN SelfCheckInit
     ELSE /\ machine = WithTools(Plain, [t \in Tool |-> InOrder])
          /\ diagnostic = [p \in Probe |-> "HEALTHY"]
          /\ files = {} /\ report = "none" /\ exitCode = 1
  /\ RegistryInit
  /\ part # "registry" => plugged = NoListing

(* Bounds: the first deployment alone with two runs, or both, and then with *)
(* one run of each, or three of the second.                                 *)
DeploymentBounds ==
  /\ part = "deployment" => ~Created(2)
  /\ part = "deployments" => runs[1] <= 1 /\ (runs[1] > 0 => runs[2] <= 1)

HostNext ==
  \/ /\ part = "import" /\ ImportNext
     /\ UNCHANGED <<part, identityVars, processVars, selfCheckVars,
                    registryVars, uidVars, vars>>
  \/ /\ part = "identity" /\ IdentityNext
     /\ UNCHANGED <<part, importVars, processVars, selfCheckVars,
                    registryVars, uidVars, vars>>
  \/ /\ part = "process" /\ ProcessNext
     /\ UNCHANGED <<part, importVars, identityVars, selfCheckVars,
                    registryVars, uidVars, vars>>
  \/ /\ part = "selfCheck" /\ SelfCheckNext
     /\ UNCHANGED <<part, importVars, identityVars, processVars,
                    registryVars, uidVars, vars>>
  \/ /\ part = "registry" /\ RegistryNext
     /\ UNCHANGED <<part, importVars, identityVars, processVars,
                    selfCheckVars, uidVars, vars>>
  \/ /\ part = "uids" /\ UidNext
     /\ UNCHANGED <<part, importVars, identityVars, processVars,
                    selfCheckVars, registryVars, vars>>
  \/ /\ part \in {"deployment", "deployments"} /\ Next
     /\ UNCHANGED <<part, importVars, identityVars, processVars,
                    selfCheckVars, registryVars, uidVars>>
     /\ DeploymentBounds'

HostSpec == HostInit /\ [][HostNext]_hostVars

(* What the host reads off its tools and devices is one reading: never of   *)
(* two builds, of a whole run of a tool, of the machine the exit code is    *)
(* about.                                                                   *)
ReadingsAreTrue ==
  /\ IdentityTypeOK /\ NeverTwoBuilds
  /\ ProcessTypeOK /\ ResultIsTheWholeRun
  /\ ExitCodeTellsTheMachine /\ ReportIsAPair

(* What is shown of a device is what was seen of it: the changes of its     *)
(* connection, once each and in order, and the uid of the data it has now.  *)
DevicesAreAsSeen ==
  /\ RegistryTypeOK /\ ConnectionHistoryIsTrue
  /\ UidTypeOK /\ BridgeUidIsOfThisData

(* A step writes what has just been seen and nothing over what was          *)
(* finished: attempts at the steps of a deployment stay as they ended, and  *)
(* a poll leaves of each device what its own listing said.                  *)
StepsWriteWhatHappened == AttemptsAreFinal /\ FinishedPollIsCurrent
=============================================================================
