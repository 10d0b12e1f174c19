----------------------------- MODULE RunControl -----------------------------
(***************************************************************************)
(* What a synchronized run promises about its own control state: the row   *)
(* of test_runs and the run_devices rows of its current membership epoch.  *)
(*                                                                         *)
(* The module is the interface between two others.  SessionLifecycle       *)
(* models the operator and fault handlers of session-runtime.ts with every *)
(* await and is checked to implement RunSpec; ActionOutbox EXTENDS this    *)
(* module and lets the run move underneath the actions by RunNext's steps. *)
(***************************************************************************)
EXTENDS Naturals

CONSTANTS Serial,    \* the devices selected when the run was created
          MaxEpoch   \* bound: membership epochs a behaviour may open

ASSUME RunControlAssumption ==
  /\ Serial # {}
  /\ MaxEpoch \in Nat \ {0}

VARIABLES runState,  \* test_runs.state
          epoch,     \* test_runs.current_epoch
          roster,    \* membership_state of each serial's row of this epoch
          leader     \* the serial whose row of this epoch has role LEADER

runVars == <<runState, epoch, roster, leader>>

RunState == {"CREATED", "PREFLIGHT", "RUNNING", "PAUSED", "FINISHED"}

\* "OUT": the serial has no row in the current epoch.
Membership == {"ACTIVE", "QUARANTINED", "OUT"}

Active == {s \in Serial : roster[s] = "ACTIVE"}

RunTypeOK ==
  /\ runState \in RunState
  /\ epoch \in 1..MaxEpoch
  /\ roster \in [Serial -> Membership]
  /\ leader \in Serial
-----------------------------------------------------------------------------
RunInit ==
  /\ runState = "CREATED"
  /\ epoch = 1
  /\ roster = [s \in Serial |-> "ACTIVE"]
  /\ leader \in Serial

Preflight ==
  /\ runState = "CREATED"
  /\ runState' = "PREFLIGHT"
  /\ UNCHANGED <<epoch, roster, leader>>

Start ==
  /\ runState = "PREFLIGHT"
  /\ runState' = "RUNNING"
  /\ UNCHANGED <<epoch, roster, leader>>

Pause ==
  /\ runState = "RUNNING"
  /\ runState' = "PAUSED"
  /\ UNCHANGED <<epoch, roster, leader>>

\* A new membership epoch is opened for exactly the given serials.
OpenEpoch(members, newLeader) ==
  /\ runState = "PAUSED"
  /\ epoch < MaxEpoch
  /\ runState' = "RUNNING"
  /\ epoch' = epoch + 1
  /\ roster' = [s \in Serial |-> IF s \in members THEN "ACTIVE" ELSE "OUT"]
  /\ leader' = newLeader

\* Resume carries over the active members and nobody else.
Resume == OpenEpoch(Active, leader)

\* The only way back in for a quarantined follower.
Rejoin(s) ==
  /\ roster[s] = "QUARANTINED"
  /\ OpenEpoch(Active \cup {s}, leader)

Promote(s) ==
  /\ roster[s] = "ACTIVE"
  /\ s # leader
  /\ OpenEpoch(Active, s)

\* A fault takes an active follower out of a running epoch.
Quarantine(s) ==
  /\ runState = "RUNNING"
  /\ roster[s] = "ACTIVE"
  /\ s # leader
  /\ roster' = [roster EXCEPT ![s] = "QUARANTINED"]
  /\ UNCHANGED <<runState, epoch, leader>>

Finish ==
  /\ runState \in {"RUNNING", "PAUSED"}
  /\ runState' = "FINISHED"
  /\ UNCHANGED <<epoch, roster, leader>>

RunNext ==
  \/ Preflight
  \/ Start
  \/ Pause
  \/ Resume
  \/ Finish
  \/ \E s \in Serial : Rejoin(s) \/ Promote(s) \/ Quarantine(s)

RunSpec == RunInit /\ [][RunNext]_runVars
=============================================================================
