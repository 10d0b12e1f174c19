--------------------------- MODULE DeviceRegistry ---------------------------
(***************************************************************************)
(* The register of devices: devices/device-registry.ts polls adb, and      *)
(* device-repository.ts keeps one row per serial and a history row for     *)
(* every change of state.  Between "adb devices" and the write the         *)
(* registry waits for the metadata of every device, so what is written is  *)
(* what was listed, not what is there by then.                             *)
(***************************************************************************)
EXTENDS Naturals, Sequences, FiniteSets

CONSTANTS Serial,        \* the devices
          MaxUpsets      \* bound: changes at the USB ports, failures of adb

ASSUME RegistryAssumption == MaxUpsets \in Nat

State == {"ONLINE", "UNAUTHORIZED", "OFFLINE", "UNKNOWN"}
Unlisted == "unlisted"
Unknown == [state |-> Unlisted, seq |-> 0, fields |-> {}]

\* Of the metadata, one field that every device has and one that a device
\* may have for a while.
Field == {"apiLevel", "overrideSize"}

VARIABLES
  plugged,        \* what adb would list (external)
  upsets,
  overridden,     \* the devices whose screen size is overridden (external)
  listing,        \* the answer of "adb devices" in the poll under way
  polling,        \* "idle", "listed", "ended"
  device,         \* the rows of devices
  history,        \* the rows of device_connections: the states, by seq
  startedAt,      \* the length of each history when this server started
  heard           \* what device.connectionChanged told its listeners

registryVars == <<plugged, upsets, overridden, listing, polling, device,
                  history, startedAt, heard>>

RegistryTypeOK ==
  /\ plugged \in [Serial -> State \cup {Unlisted}]
  /\ upsets \in 0..MaxUpsets
  /\ overridden \subseteq Serial
  /\ listing \in [Serial -> State \cup {Unlisted}]
  /\ polling \in {"idle", "listed", "ended"}
  /\ \A s \in Serial : /\ device[s].state \in State \cup {Unlisted}
                       /\ device[s].fields \subseteq Field
                       /\ heard[s] \in Seq(State) /\ history[s] \in Seq(State)

NoListing == [s \in Serial |-> Unlisted]

RegistryInit ==
  /\ plugged \in [Serial -> {"ONLINE", Unlisted}]
  /\ upsets = 0 /\ overridden = {}
  /\ listing = NoListing /\ polling = "idle"
  /\ device = [s \in Serial |-> Unknown]
  /\ history = [s \in Serial |-> <<>>]
  /\ startedAt = [s \in Serial |-> 0]
  /\ heard = [s \in Serial |-> <<>>]

\* A cable, a dialog on the device, a reboot; "wm size" on the device.
Plug(s) ==
  /\ upsets < MaxUpsets /\ upsets' = upsets + 1
  /\ \/ /\ \E st \in (State \cup {Unlisted}) \ {plugged[s]} :
             plugged' = [plugged EXCEPT ![s] = st]
        /\ UNCHANGED overridden
     \/ /\ overridden' = IF s \in overridden THEN overridden \ {s}
                                             ELSE overridden \cup {s}
        /\ UNCHANGED plugged
  /\ UNCHANGED <<listing, polling, device, history, startedAt, heard>>

--------------------------------------------------------------------------
(* device-registry.ts *)

\* An adb that fails, or takes too long, lists nothing.
Discover ==
  /\ polling = "idle"
  /\ \/ listing' = plugged /\ UNCHANGED upsets
     \/ /\ upsets < MaxUpsets /\ upsets' = upsets + 1
        /\ listing' = NoListing
  /\ polling' = "listed"
  /\ UNCHANGED <<plugged, overridden, device, history, startedAt, heard>>

\* createObservation: the fields collected from a device that was listed as
\* ONLINE; each command may fail, and only its fields are missing then.
Collectable(s) ==
  IF listing[s] # "ONLINE" THEN {}
  ELSE {"apiLevel"} \cup (IF s \in overridden THEN {"overrideSize"} ELSE {})

\* upsert: metadata is merged over what was known, and a change of state is
\* a new connection with its own row of history.
Upserted(row, state, fields) ==
  [state |-> state,
   seq |-> IF row.state = state THEN row.seq ELSE row.seq + 1,
   fields |-> row.fields \cup fields]

\* Mutant: every observation is a connection.
EveryUpsertCounts(old, new) == TRUE

StateChanged(old, new) == old.state # new.state

\* Mutant: a device that was not trusted yet is not missed.
MissedOnlyOnline(s) == listing[s] = Unlisted /\ device[s].state = "ONLINE"

\* markMissing: devices in the other two states stay as they are.
Missed(s) == /\ listing[s] = Unlisted
             /\ device[s].state \in {"ONLINE", "UNAUTHORIZED"}

Observed(s) ==
  IF listing[s] # Unlisted THEN listing[s]
  ELSE IF Missed(s) THEN "OFFLINE" ELSE device[s].state

\* The rows of the devices in done are written, with their history, and the
\* listeners are told of each change.
WriteRows(done, got) ==
  LET new == [s \in Serial |->
                IF s \in done /\ Observed(s) # Unlisted
                THEN Upserted(device[s], Observed(s), got[s]) ELSE device[s]]
      changed == {s \in done : Observed(s) # Unlisted
                                 /\ StateChanged(device[s], new[s])}
      Extended(log) == [s \in Serial |->
                          IF s \in changed THEN Append(log[s], new[s].state)
                                           ELSE log[s]]
  IN  /\ device' = new
      /\ history' = Extended(history)
      /\ heard' = Extended(heard)

Gotten == {got \in [Serial -> SUBSET Field] :
             \A s \in Serial : got[s] \subseteq Collectable(s)}

FinishPoll ==
  /\ polling = "listed"
  /\ \E got \in Gotten : WriteRows(Serial, got)
  /\ polling' = "idle"
  /\ listing' = NoListing
  /\ UNCHANGED <<plugged, upsets, overridden, startedAt>>

\* A write that throws ends the loop: start is never called again.
PollThrows ==
  /\ polling = "listed"
  /\ \E done \in SUBSET Serial, got \in Gotten :
       done # Serial /\ WriteRows(done, got)
  /\ polling' = "ended"
  /\ listing' = NoListing
  /\ UNCHANGED <<plugged, upsets, overridden, startedAt>>

\* Another launch: the rows stay, the listeners start anew.
RegistryRestart ==
  /\ polling' = "idle" /\ listing' = NoListing
  /\ startedAt' = [s \in Serial |-> Len(history[s])]
  /\ heard' = [s \in Serial |-> <<>>]
  /\ UNCHANGED <<plugged, upsets, overridden, device, history>>

RegistryNext ==
  \/ Discover \/ FinishPoll \/ PollThrows \/ RegistryRestart
  \/ \E s \in Serial : Plug(s)

--------------------------------------------------------------------------
(***************************************************************************)
(* The history is what happened: one row for every change of state, in the *)
(* order of connection_seq and ending in the state the row of the device   *)
(* shows, no row repeats the one before it, and the listeners (the fault   *)
(* monitors) heard of exactly the changes since this server started.       *)
(***************************************************************************)
ConnectionHistoryIsTrue ==
  \A s \in Serial :
    LET h == history[s] IN
    /\ device[s].seq = Len(h)
    /\ h # <<>> => h[Len(h)] = device[s].state
    /\ \A k \in 2..Len(h) : h[k] # h[k - 1]
    /\ heard[s] = SubSeq(h, startedAt[s] + 1, Len(h))

(***************************************************************************)
(* No poll that finishes leaves a device connected that adb did not list:  *)
(* afterwards ONLINE and UNAUTHORIZED are what this very listing said.     *)
(***************************************************************************)
FinishedPollIsCurrent ==
  [][FinishPoll =>
       \A s \in Serial :
         /\ listing[s] # Unlisted => device'[s].state = listing[s]
         /\ device'[s].state \in {"ONLINE", "UNAUTHORIZED"} =>
              device'[s].state = listing[s]]_registryVars
=============================================================================
