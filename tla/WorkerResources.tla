-------------------------- MODULE WorkerResources --------------------------
(***************************************************************************)
(* What a device worker owns while it runs (device-worker.ts): a lease of  *)
(* ports, which is written twice, in port-leases.json (port-allocator.ts)  *)
(* and in worker-resources.json (worker-resource-manager.ts); an Appium    *)
(* process on its port (appium-service.ts); a session there                *)
(* (w3c-client.ts); and adb forwards.  Files, processes and forwards       *)
(* survive the server, the worker does not.                                *)
(*                                                                         *)
(* A worker is one device of one run; its generation counts its starts.    *)
(* The three ports the allocator leases are taken by one rule and given    *)
(* back together: the Appium port stands for them.                         *)
(***************************************************************************)
EXTENDS Integers, FiniteSets, FiniteSetsExt

CONSTANTS
  Worker,         \* <<run, serial>> pairs
  SerialOf,       \* Worker -> serial
  MaxGeneration,  \* bound: generations of each worker
  MaxInterruptions, \* bound: crashes and failing file operations
  LastPort,       \* last port of the Appium range
  LastBridge      \* last port of the bridge range

ASSUME WorkerResourcesAssumption ==
  /\ MaxGeneration \in [Worker -> Nat]
  /\ MaxInterruptions \in Nat
  /\ LastPort \in Nat \ {0}
  /\ LastBridge \in Nat \ {0}
  /\ Worker \cap {"none", "orphan"} = {}

Generation == UNION {1..MaxGeneration[w] : w \in Worker}
Port       == 1..LastPort
Bridge     == 1..LastBridge
Serial     == {SerialOf[w] : w \in Worker}

VARIABLES
  leases,     \* port-leases.json
  manifest,   \* worker-resources.json: the entry of each worker
  readable,   \* whether worker-resources.json parses
  committed,  \* generation in the worker's row of run_devices
  phase,      \* what the worker is awaiting, or its state
  lease,      \* resource lease the worker holds
  session,    \* whose Appium process its session lives in
  listener,   \* whose Appium process listens on each port
  forward,    \* adb forwards: bridge port -> serial
  interrupted \* how often the server died or a file operation failed

files   == <<leases, manifest, readable>>
memory  == <<phase, lease, session>>
outside == <<listener, forward>>
vars    == <<files, committed, memory, outside, interrupted>>

\* An orphan is a child of a server, or of a start, that is no more.
Process   == Worker \cup {"none", "orphan"}
Entry     == [generation : Generation, port : Port, bridge : Bridge]
NoEntry   == [generation |-> 0, port |-> 0, bridge |-> 0]

\* The owner's pid is this server's, nobody's, or another process's by now.
Owner     == {"server", "dead", "reused"}
PortLease == [worker : Worker, generation : Generation, port : Port, owner : Owner]

\* At READY the bridge forward is there: the bridge still connects and logcat
\* starts, or the worker is READY.
Up    == {"appium", "session", "bridge", "READY"}
Phase == Up \cup {"idle", "release"}

TypeOK ==
  /\ leases \subseteq PortLease
  /\ manifest \in [Worker -> Entry \cup {NoEntry}]
  /\ readable \in BOOLEAN
  /\ committed \in [Worker -> Generation \cup {0}]
  /\ phase \in [Worker -> Phase]
  /\ lease \in [Worker -> Entry \cup {NoEntry}]
  /\ session \in [Worker -> Process]
  /\ listener \in [Port -> Process]
  /\ forward \in [Bridge -> Serial \cup {"none"}]
  /\ interrupted \in 0..MaxInterruptions

Init ==
  /\ leases = {}
  /\ manifest = [w \in Worker |-> NoEntry]
  /\ readable = TRUE
  /\ committed = [w \in Worker |-> 0]
  /\ phase = [w \in Worker |-> "idle"]
  /\ lease = [w \in Worker |-> NoEntry]
  /\ session = [w \in Worker |-> "none"]
  /\ listener = [p \in Port |-> "none"]
  /\ forward = [b \in Bridge |-> "none"]
  /\ interrupted = 0

\* The epoch to come, or the first, asks for a generation that no committed
\* epoch had; a start that was not committed is asked for again.
NextGeneration(w) == committed[w] + 1
Asks(w) == phase[w] = "idle" /\ committed[w] < MaxGeneration[w]

Interrupt ==
  /\ interrupted < MaxInterruptions
  /\ interrupted' = interrupted + 1

To(w, next) == phase' = [phase EXCEPT ![w] = next]
-----------------------------------------------------------------------------
\* The port allocator.

\* A pid that some process has counts as alive, whoever it is.
IsOwnerAlive(owner) == owner # "dead"

\* What is left of the leases when those of dead owners are removed.  The
\* allocator would return a lease of the very worker and generation; it is only
\* asked when the manifest has no entry, and then there is no such lease.
Living == {l \in leases : IsOwnerAlive(l.owner)}

\* Mutant: asks the machine only and not the books.
FreePortsUnread == {p \in Port : listener[p] = "none"}

\* Mutant: asks the books only and not the machine.
FreePortsUnprobed == {p \in Port : \A l \in Living : l.port # p}

\* Free in the books and on the machine: nothing listens there.
FreePorts ==
  {p \in Port : listener[p] = "none" /\ \A l \in Living : l.port # p}

MayLease(w) ==
  /\ \A l \in Living : SerialOf[l.worker] # SerialOf[w]
  /\ FreePorts # {}

NewLease(w) ==
  [worker |-> w, generation |-> NextGeneration(w), port |-> Min(FreePorts), owner |-> "server"]
-----------------------------------------------------------------------------
\* The resource manager.  Its queue lets one operation at a time touch the
\* files, so an operation is a step unless it fails or the server dies in it.

\* Mutant: takes the ports of running workers only for used.
FreeBridgesInHand == {b \in Bridge : \A w \in Worker : lease[w].bridge # b}

\* Bridge ports are probed in no way: the manifest alone says which are taken.
FreeBridges == {b \in Bridge : \A w \in Worker : manifest[w].bridge # b}

NewEntry(w) ==
  [generation |-> NextGeneration(w), port |-> Min(FreePorts), bridge |-> Min(FreeBridges)]

\* An entry of the same generation is handed out again as it is.
AllocateAgain(w) ==
  /\ Asks(w)
  /\ readable
  /\ manifest[w].generation = NextGeneration(w)
  /\ lease' = [lease EXCEPT ![w] = manifest[w]]
  /\ To(w, "appium")
  /\ UNCHANGED <<interrupted, files, committed, session, outside>>

MayAllocate(w) ==
  /\ Asks(w)
  /\ readable
  /\ manifest[w] = NoEntry
  /\ MayLease(w)

Allocate(w) ==
  /\ MayAllocate(w)
  /\ FreeBridges # {}
  /\ leases' = Living \cup {NewLease(w)}
  /\ manifest' = [manifest EXCEPT ![w] = NewEntry(w)]
  /\ lease' = [lease EXCEPT ![w] = NewEntry(w)]
  /\ To(w, "appium")
  /\ UNCHANGED <<interrupted, readable, committed, session, outside>>

\* No lease for it: one of the serial, or a full range of either kind.  The port
\* lease is given back when no bridge port is left.
NoneToLease(w) ==
  /\ Asks(w) /\ readable /\ manifest[w] = NoEntry
  /\ ~ MayLease(w) \/ FreeBridges = {}

\* An entry of another generation, or one that cannot be read, ends it before
\* anything changes; a lease is given back when mkdir or the write fails.
AllocateFails(w) ==
  /\ \/ NoneToLease(w) /\ UNCHANGED interrupted
     \/ MayAllocate(w) /\ Interrupt
  /\ leases' = Living
  /\ UNCHANGED <<manifest, readable, committed, memory, outside>>

\* The port lease of an entry, as release finds it by the id.
PortLeaseOf(w) ==
  {l \in leases : l.worker = w /\ l.generation = manifest[w].generation}

\* The entry is there, of this generation, and its port lease is ours or gone.
MayRelease(w) ==
  /\ phase[w] = "release"
  /\ readable
  /\ manifest[w].generation = lease[w].generation
  /\ \A l \in PortLeaseOf(w) : l.owner = "server"

Release(w) ==
  /\ phase[w] = "release"
  /\ IF MayRelease(w)
     THEN /\ leases' = leases \ PortLeaseOf(w)
          /\ \/ manifest' = [manifest EXCEPT ![w] = NoEntry] /\ UNCHANGED interrupted
             \/ UNCHANGED manifest /\ Interrupt   \* rm or the write fails
     ELSE UNCHANGED <<leases, manifest, interrupted>>
  /\ lease' = [lease EXCEPT ![w] = NoEntry]
  /\ To(w, "idle")
  /\ UNCHANGED <<readable, committed, session, outside>>
-----------------------------------------------------------------------------
\* The worker: start, in the order of its awaits, and stop.

\* The child binds the port, or exits because somebody else has it; readiness
\* is asked of the port and not of the child.
ServeAppium(w) ==
  /\ phase[w] = "appium"
  /\ listener' = [listener EXCEPT ![lease[w].port] = IF @ = "none" THEN w ELSE @]
  /\ To(w, "session")
  /\ UNCHANGED <<interrupted, files, committed, lease, session, forward>>

\* Mutant: a failed Appium start does not release the lease.
ReadinessFailsUnreleased(w) ==
  /\ phase[w] = "appium"
  /\ listener[lease[w].port] = "none"
  /\ To(w, "idle")
  /\ lease' = [lease EXCEPT ![w] = NoEntry]
  /\ UNCHANGED <<interrupted, files, committed, session, outside>>

\* A child that never answered is terminated by start itself; if that fails it
\* goes on, and nobody remembers it.
ReadinessFails(w) ==
  /\ phase[w] = "appium"
  /\ listener[lease[w].port] = "none"
  /\ listener' = [listener EXCEPT ![lease[w].port] = "orphan"]
  /\ To(w, "release")
  /\ UNCHANGED <<interrupted, files, committed, lease, session, forward>>

CreateSession(w) ==
  /\ phase[w] = "session"
  /\ listener[lease[w].port] # "none"
  /\ session' = [session EXCEPT ![w] = listener[lease[w].port]]
  /\ To(w, "bridge")
  /\ UNCHANGED <<interrupted, files, committed, lease, outside>>

\* adb rebinds a forward that another device has.
ForwardBridge(w) ==
  /\ phase[w] = "bridge"
  /\ forward' = [forward EXCEPT ![lease[w].bridge] = SerialOf[w]]
  /\ To(w, "READY")
  /\ UNCHANGED <<interrupted, files, committed, lease, session, listener>>

\* An await of start throws, or the worker is stopped.  Session, forwards and
\* the own child are given up, each in a try of its own; taskkill and adb may
\* fail, what fails is left, and the lease goes on to be released.
WorkerGivesUp(w) ==
  /\ phase[w] \in Up
  /\ session' = [session EXCEPT ![w] = "none"]
  /\ \E killed, removed \in BOOLEAN :
       /\ listener' = [p \in Port |->
            IF listener[p] # w THEN listener[p] ELSE IF killed THEN "none" ELSE "orphan"]
       /\ forward' =
            IF removed /\ phase[w] = "READY"
            THEN [forward EXCEPT ![lease[w].bridge] = "none"] ELSE forward
  /\ To(w, "release")
  /\ UNCHANGED <<interrupted, files, committed, lease>>

\* The epoch that the worker was started for is committed.
Commit(w) ==
  /\ phase[w] = "READY"
  /\ committed' = [committed EXCEPT ![w] = lease[w].generation]
  /\ UNCHANGED <<interrupted, files, memory, outside>>

ChildExits(p) ==
  /\ listener[p] # "none"
  /\ listener' = [listener EXCEPT ![p] = "none"]
  /\ UNCHANGED <<interrupted, files, committed, memory, forward>>
-----------------------------------------------------------------------------
\* The server dies with these port leases and is launched again.  Its children
\* go on.  The pid is free, or taken by a process that outlives the model.
Die(remaining) ==
  /\ \E owner \in {"dead", "reused"} :
       leases' = {[l EXCEPT !.owner = IF @ = "server" THEN owner ELSE @] : l \in remaining}
  /\ phase' = [w \in Worker |-> "idle"]
  /\ lease' = [w \in Worker |-> NoEntry]
  /\ session' = [w \in Worker |-> "none"]
  /\ listener' = [p \in Port |-> IF listener[p] = "none" THEN "none" ELSE "orphan"]
  /\ Interrupt

Crash ==
  /\ Die(leases)
  /\ UNCHANGED <<manifest, readable, committed, forward>>

\* Between the two files, or while the second is rewritten in place.
CrashInAllocate(w) ==
  /\ MayAllocate(w)
  /\ FreeBridges # {}
  /\ Die(Living \cup {NewLease(w)})
  /\ readable' \in BOOLEAN
  /\ UNCHANGED <<manifest, committed, forward>>

CrashInRelease(w) ==
  /\ MayRelease(w)
  /\ Die(leases \ PortLeaseOf(w))
  /\ readable' \in BOOLEAN
  /\ UNCHANGED <<manifest, committed, forward>>

Next ==
  \/ \E w \in Worker :
       \/ AllocateAgain(w) \/ Allocate(w) \/ AllocateFails(w)
       \/ ServeAppium(w) \/ ReadinessFails(w) \/ CreateSession(w) \/ ForwardBridge(w)
       \/ Commit(w) \/ WorkerGivesUp(w) \/ Release(w)
       \/ CrashInAllocate(w) \/ CrashInRelease(w)
  \/ \E p \in Port : ChildExits(p)
  \/ Crash

Spec == Init /\ [][Next]_vars
-----------------------------------------------------------------------------
Held == {w \in Worker : lease[w] # NoEntry}

\* No two workers have a port in hand in common.  The plan of the capacity
\* milestone asserts it of every run; a crash, or a release that fails half
\* way, leaves an entry of worker-resources.json whose port lease is gone, and
\* the next worker of the same generation takes it as it is.
\* The code breaks it: README, Disagreements without a run.
PortsAreExclusive ==
  \A v, w \in Held :
    v # w => lease[v].port # lease[w].port /\ lease[v].bridge # lease[w].bridge

\* Whatever crashed or failed before, also with pids that other processes have
\* now: a serial and a port are leased once, and so is a bridge port, which
\* only the manifest protects.  A lease of this server has its entry.
LeasesDiffer ==
  /\ \A k, l \in leases :
       k # l => k.port # l.port /\ SerialOf[k.worker] # SerialOf[l.worker]
  /\ \A v, w \in Worker :
       v # w /\ NoEntry \notin {manifest[v], manifest[w]} => manifest[v].bridge # manifest[w].bridge
  /\ \A l \in leases : l.owner = "server" => manifest[l.worker].generation = l.generation

\* The bridge of a READY worker leads to its own device, also when adb kept the
\* forward of a worker whose stop or whose server failed.
BridgeLeadsHome ==
  \A w \in Worker : phase[w] = "READY" => forward[lease[w].bridge] = SerialOf[w]

\* While nothing was interrupted a worker drives the Appium process it started
\* itself, though readiness is asked of the port, children of others are left
\* behind when taskkill fails, and ports are returned before children are gone.
DrivesItsOwnServer ==
  interrupted = 0 => PortsAreExclusive /\ \A w \in Worker : session[w] \in {"none", w}

\* While nothing was interrupted a worker that is not running leaves no entry
\* and no port lease, so that its device can be started again in any run.
NothingLeftBehind ==
  interrupted = 0 =>
    \A w \in Worker :
      phase[w] = "idle" =>
        manifest[w] = NoEntry /\ \A l \in leases : l.worker # w

\* The leases of the workers are sound: ports, devices and bridge ports have one
\* holder, each of whom reaches its own device and its own server, and none
\* outlives its worker.
LeasesAreSound ==
  TypeOK /\ LeasesDiffer /\ BridgeLeadsHome /\ DrivesItsOwnServer /\ NothingLeftBehind
=============================================================================
