---------------------------- MODULE StorageProofs ----------------------------
(***************************************************************************)
(* Proofs about the components of MCStorage: the ports and directories of  *)
(* the workers, the cleanup of ended runs, the recording of a leader, the  *)
(* polling of free space, the rows of a report, the actions a worker       *)
(* performs, the gestures they are made of, and the log of a device.       *)
(*                                                                         *)
(* Each component is proved about by itself; at the end the composition is *)
(* shown to be a behaviour of each, so that what holds of a part holds of  *)
(* the whole.                                                              *)
(***************************************************************************)
EXTENDS MCStorage, FiniteSetTheorems, SequenceTheorems, TLAPS

-----------------------------------------------------------------------------
(* Numbers.  Ports and runs are numbered, and the code takes the first or  *)
(* the last of some: that there is one is not arithmetic but induction,    *)
(* which comes from strict inclusion being well-founded on finite sets.    *)

(* Of finite sets, one contains no other.                                  *)
LEMMA MinimalSet ==
  ASSUME NEW F, F # {}, \A T \in F : IsFiniteSet(T)
  PROVE  \E T \in F : \A U \in F : U \subseteq T => U = T
<1> DEFINE All == UNION F
<1>1. IsWellFoundedOn(StrictSubsetOrdering(All), FiniteSubsetsOf(All))
  BY FS_StrictSubsetOrderingWellFounded
<1>2. F \subseteq FiniteSubsetsOf(All)
  BY DEF FiniteSubsetsOf
<1>3. PICK T \in F : \A U \in F : <<U, T>> \notin StrictSubsetOrdering(All)
  BY <1>1, <1>2, WFMin
<1>4. ASSUME NEW U \in F, U \subseteq T  PROVE  U = T
  BY <1>3, <1>4 DEF StrictSubsetOrdering
<1> QED BY <1>3, <1>4

(* A set of naturals that is not empty has a least element.                *)
LEMMA LeastOf ==
  ASSUME NEW S \in SUBSET Nat, S # {}
  PROVE  \E x \in S : \A y \in S : x <= y
<1> DEFINE F == {0..n : n \in S}
<1>1. F # {} /\ \A T \in F : IsFiniteSet(T)
  <2>1. \A n \in S : IsFiniteSet(0..n)
    BY FS_Interval
  <2> QED BY <2>1
<1>2. PICK T \in F : \A U \in F : U \subseteq T => U = T
  <2> HIDE DEF F
  <2> QED BY <1>1, MinimalSet
<1>3. PICK x \in S : T = 0..x
  BY <1>2
<1>4. ASSUME NEW y \in S  PROVE  x <= y
  <2>1. 0..y \in F /\ (0..y \subseteq 0..x => 0..y = 0..x)
    BY <1>2, <1>3
  <2>2. x \in Nat /\ y \in Nat
    OBVIOUS
  <2>3. CASE x <= y
    BY <2>3
  <2>4. CASE y < x
    <3>1. 0..y \subseteq 0..x /\ x \in 0..x /\ x \notin 0..y
      BY <2>2, <2>4
    <3> QED BY <2>1, <3>1
  <2> QED BY <2>2, <2>3, <2>4
<1> QED BY <1>4

(* A finite set of naturals that is not empty has a greatest element.      *)
LEMMA GreatestOf ==
  ASSUME NEW S \in SUBSET Nat, S # {}, IsFiniteSet(S)
  PROVE  \E x \in S : \A y \in S : x >= y
<1> DEFINE Above(n) == {m \in S : m > n}
           F == {Above(n) : n \in S}
<1>1. F # {} /\ \A T \in F : IsFiniteSet(T)
  <2>1. \A n \in S : Above(n) \subseteq S
    OBVIOUS
  <2>2. \A n \in S : IsFiniteSet(Above(n))
    <3> HIDE DEF Above
    <3> QED BY <2>1, FS_Subset
  <2>3. F # {} /\ \A T \in F : \E n \in S : T = Above(n)
    OBVIOUS
  <2> HIDE DEF F, Above
  <2> QED BY <2>2, <2>3
<1>2. PICK T \in F : \A U \in F : U \subseteq T => U = T
  <2> HIDE DEF F
  <2> QED BY <1>1, MinimalSet
<1>3. PICK x \in S : T = Above(x)
  BY <1>2
<1>4. ASSUME NEW y \in S, y > x  PROVE  FALSE
  <2>1. x \in Nat /\ y \in Nat
    OBVIOUS
  <2>2. Above(y) \in F /\ y \in Above(x)
    BY <1>4
  <2>3. y \notin Above(y)
    BY <2>1
  <2>4. Above(y) \subseteq Above(x)
    <3>1. ASSUME NEW m \in S, m > y  PROVE  m > x
      <4>1. m \in Nat
        OBVIOUS
      <4> QED BY <1>4, <2>1, <3>1, <4>1
    <3> QED BY <3>1
  <2> HIDE DEF F, Above
  <2> QED BY <2>2, <2>3, <2>4, <1>2, <1>3
<1>5. ASSUME NEW y \in S  PROVE  x >= y
  <2>1. x \in Nat /\ y \in Nat
    OBVIOUS
  <2> QED BY <1>4, <2>1
<1> QED BY <1>5

(* Min is an element of the set it is taken of.                            *)
LEMMA MinIsElement ==
  ASSUME NEW S \in SUBSET Nat, S # {}
  PROVE  Min(S) \in S
<1>1. \E x \in S : \A y \in S : x <= y
  BY LeastOf
<1> QED BY <1>1 DEF Min
-----------------------------------------------------------------------------
(* The workers and their leases.                                           *)

(* A worker that is doing anything holds a lease, which is the entry that  *)
(* worker-resources.json has for it.                                       *)
HoldsItsEntry ==
  \A w \in Worker :
    IF phase[w] = "idle" THEN lease[w] = NoEntry
    ELSE lease[w] \in Entry /\ manifest[w] = lease[w]

PortLeaseFor(w) ==
  [worker |-> w, generation |-> lease[w].generation, port |-> lease[w].port,
   owner |-> "server"]

(* What a worker may rely on beyond that while nothing was interrupted:    *)
(* both files agree, nobody else listens on its port, and its session, if  *)
(* any, lives in its own process.                                          *)
Undisturbed ==
  interrupted = 0 =>
    /\ readable
    /\ \A l \in leases : l.owner = "server"
    /\ \A w \in Worker :
         /\ session[w] \in {"none", w}
         /\ IF phase[w] = "idle"
            THEN manifest[w] = NoEntry /\ \A l \in leases : l.worker # w
            ELSE PortLeaseFor(w) \in leases
         /\ phase[w] \in Up => listener[lease[w].port] \in {"none", w}

WorkersInv == TypeOK /\ LeasesDiffer /\ BridgeLeadsHome /\ HoldsItsEntry /\ Undisturbed

(* The fields of the records, which the provers find slowly by themselves. *)
LEMMA EntryFields ==
  /\ NoEntry.generation = 0 /\ NoEntry.port = 0 /\ NoEntry.bridge = 0
  /\ NoEntry \notin Entry
  /\ \A e \in Entry : /\ e.generation \in Generation /\ e.port \in Port
                      /\ e.bridge \in Bridge
                      /\ e.generation \in Nat \ {0} /\ e.port > 0 /\ e.bridge > 0
<1> USE WorkerResourcesAssumption
<1>1. /\ NoEntry.generation = 0 /\ NoEntry.port = 0 /\ NoEntry.bridge = 0
  BY DEF NoEntry
<1>2. ASSUME NEW e \in Entry
      PROVE  /\ e.generation \in Generation /\ e.port \in Port /\ e.bridge \in Bridge
             /\ e.generation \in Nat \ {0} /\ e.port > 0 /\ e.bridge > 0
  <2>1. e.generation \in Generation /\ e.port \in Port /\ e.bridge \in Bridge
    BY DEF Entry
  <2> QED BY <2>1 DEF Generation, Port, Bridge
<1>3. NoEntry \notin Entry
  BY <1>1, <1>2
<1> QED BY <1>1, <1>2, <1>3

LEMMA LeaseFields ==
  ASSUME NEW l \in PortLease
  PROVE  /\ l.worker \in Worker /\ l.generation \in Generation
         /\ l.port \in Port /\ l.owner \in Owner
BY DEF PortLease

(* The files hold what their types say, and a worker that asks gets a port *)
(* that nobody leased or listens on and a bridge port no entry has.        *)
LEMMA NewLeaseIsFree ==
  ASSUME TypeOK, NEW w \in Worker, MayAllocate(w), FreeBridges # {}
  PROVE  /\ NewLease(w) \in PortLease /\ NewEntry(w) \in Entry
         /\ NewLease(w).worker = w /\ NewLease(w).owner = "server"
         /\ NewLease(w).generation = NewEntry(w).generation
         /\ NewLease(w).port = NewEntry(w).port
         /\ listener[NewLease(w).port] = "none"
         /\ \A l \in Living : l.port # NewLease(w).port
                              /\ SerialOf[l.worker] # SerialOf[w]
         /\ \A v \in Worker : manifest[v].bridge # NewEntry(w).bridge
<1> USE WorkerResourcesAssumption
<1>1. FreePorts \in SUBSET Nat /\ FreePorts # {} /\ FreePorts \subseteq Port
  BY DEF FreePorts, Port, MayAllocate, MayLease
<1>2. Min(FreePorts) \in FreePorts
  BY <1>1, MinIsElement
<1>3. FreeBridges \in SUBSET Nat /\ FreeBridges \subseteq Bridge
  BY DEF FreeBridges, Bridge
<1>4. Min(FreeBridges) \in FreeBridges
  BY <1>3, MinIsElement
<1>5. NextGeneration(w) \in Generation
  <2>1. committed[w] \in Nat /\ committed[w] < MaxGeneration[w]
    BY DEF TypeOK, MayAllocate, Asks, Generation
  <2>2. NextGeneration(w) \in 1..MaxGeneration[w]
    BY <2>1 DEF NextGeneration
  <2> QED BY <2>2 DEF Generation
<1>6. NewLease(w) \in PortLease /\ NewEntry(w) \in Entry
  BY <1>1, <1>2, <1>3, <1>4, <1>5 DEF NewLease, NewEntry, PortLease, Entry, Owner
<1>7. /\ NewLease(w).worker = w /\ NewLease(w).owner = "server"
      /\ NewLease(w).generation = NewEntry(w).generation
      /\ NewLease(w).port = NewEntry(w).port
      /\ NewLease(w).port = Min(FreePorts) /\ NewEntry(w).bridge = Min(FreeBridges)
  BY DEF NewLease, NewEntry
<1>8. /\ listener[NewLease(w).port] = "none"
      /\ \A l \in Living : l.port # NewLease(w).port
  BY <1>2, <1>7 DEF FreePorts
<1>9. \A l \in Living : SerialOf[l.worker] # SerialOf[w]
  BY DEF MayAllocate, MayLease
<1>10. \A v \in Worker : manifest[v].bridge # NewEntry(w).bridge
  BY <1>4, <1>7 DEF FreeBridges
<1> QED BY <1>6, <1>7, <1>8, <1>9, <1>10

(* Two workers that hold a lease differ in the bridge port, and while      *)
(* nothing was interrupted in the ports of the lease too.                  *)
LEMMA HoldersDiffer ==
  ASSUME WorkersInv, NEW v \in Worker, NEW w \in Worker, v # w,
         phase[v] # "idle", phase[w] # "idle"
  PROVE  /\ lease[v].bridge # lease[w].bridge
         /\ interrupted = 0 => lease[v].port # lease[w].port
<1>1. /\ lease[v] \in Entry /\ manifest[v] = lease[v]
      /\ lease[w] \in Entry /\ manifest[w] = lease[w]
  BY DEF WorkersInv, HoldsItsEntry
<1>2. lease[v].bridge # lease[w].bridge
  BY <1>1, EntryFields DEF WorkersInv, LeasesDiffer
<1>3. ASSUME interrupted = 0  PROVE  lease[v].port # lease[w].port
  <2>1. PortLeaseFor(v) \in leases /\ PortLeaseFor(w) \in leases
    BY <1>3 DEF WorkersInv, Undisturbed
  <2>2. PortLeaseFor(v).worker # PortLeaseFor(w).worker
    BY DEF PortLeaseFor
  <2>3. PortLeaseFor(v).port # PortLeaseFor(w).port
    BY <2>1, <2>2 DEF WorkersInv, LeasesDiffer
  <2> QED BY <2>3 DEF PortLeaseFor
<1> QED BY <1>2, <1>3

LEMMA WorkersInit == Init => WorkersInv
<1> SUFFICES ASSUME Init PROVE WorkersInv
  OBVIOUS
<1> USE WorkerResourcesAssumption
<1>1. TypeOK
  BY DEF Init, TypeOK, Phase, Process
<1>2. LeasesDiffer
  BY DEF Init, LeasesDiffer
<1>3. BridgeLeadsHome
  BY DEF Init, BridgeLeadsHome
<1>4. HoldsItsEntry
  BY DEF Init, HoldsItsEntry
<1>5. Undisturbed
  BY DEF Init, Undisturbed, Up
<1> QED BY <1>1, <1>2, <1>3, <1>4, <1>5 DEF WorkersInv

(* Allocation: the same entry again, a new one, or none.                   *)
LEMMA AllocateAgainKeeps ==
  ASSUME WorkersInv, NEW w \in Worker, AllocateAgain(w)
  PROVE  WorkersInv'
<1> USE WorkerResourcesAssumption DEF AllocateAgain, To
<1>1. manifest[w] \in Entry
  <2>1. committed[w] \in Nat
    BY DEF WorkersInv, TypeOK, Generation
  <2>2. manifest[w].generation # 0
    BY <2>1 DEF NextGeneration
  <2> QED BY <2>2, EntryFields DEF WorkersInv, TypeOK
<1>2. TypeOK'
  BY <1>1 DEF WorkersInv, TypeOK, files, outside, Phase, Up
<1>3. LeasesDiffer'
  BY DEF WorkersInv, LeasesDiffer, files
<1>4. BridgeLeadsHome'
  BY DEF WorkersInv, BridgeLeadsHome, TypeOK, outside
<1>5. HoldsItsEntry'
  BY <1>1 DEF WorkersInv, HoldsItsEntry, TypeOK, files
<1>6. interrupted # 0
  BY <1>1, EntryFields DEF WorkersInv, Undisturbed, Asks
<1>7. Undisturbed'
  BY <1>6 DEF Undisturbed
<1> QED BY <1>2, <1>3, <1>4, <1>5, <1>7 DEF WorkersInv

LEMMA AllocateKeeps ==
  ASSUME WorkersInv, NEW w \in Worker, Allocate(w)
  PROVE  WorkersInv'
<1> DEFINE e == NewEntry(w)
           n == NewLease(w)
<1>0. TypeOK
  BY DEF WorkersInv
<1>1. /\ n \in PortLease /\ e \in Entry
      /\ n.worker = w /\ n.owner = "server"
      /\ n.generation = e.generation /\ n.port = e.port
      /\ listener[n.port] = "none"
      /\ \A l \in Living : l.port # n.port /\ SerialOf[l.worker] # SerialOf[w]
      /\ \A v \in Worker : manifest[v].bridge # e.bridge
  BY <1>0, NewLeaseIsFree DEF Allocate
<1>2. /\ phase[w] = "idle"
      /\ leases' = Living \cup {n}
      /\ manifest' = [manifest EXCEPT ![w] = e]
      /\ lease' = [lease EXCEPT ![w] = e]
      /\ phase' = [phase EXCEPT ![w] = "appium"]
      /\ UNCHANGED <<interrupted, readable, committed, session, listener, forward>>
  BY DEF Allocate, To, outside, MayAllocate, Asks
<1> HIDE DEF e, n
<1>3. Living \subseteq leases
  BY DEF Living
<1>4. TypeOK'
  BY <1>0, <1>1, <1>2, <1>3 DEF TypeOK, Phase, Up
<1>5. LeasesDiffer'
  <2>1. ASSUME NEW k \in leases', NEW l \in leases', k # l
        PROVE  k.port # l.port /\ SerialOf[k.worker] # SerialOf[l.worker]
    BY <1>1, <1>2, <1>3, <2>1 DEF WorkersInv, LeasesDiffer
  <2>2. ASSUME NEW u \in Worker, NEW v \in Worker, u # v,
               NoEntry \notin {manifest'[u], manifest'[v]}
        PROVE  manifest'[u].bridge # manifest'[v].bridge
    BY <1>0, <1>1, <1>2, <2>2 DEF WorkersInv, LeasesDiffer, TypeOK
  <2>3. ASSUME NEW l \in leases', l.owner = "server"
        PROVE  manifest'[l.worker].generation = l.generation
    <3>1. CASE l = n
      BY <1>0, <1>1, <1>2, <3>1 DEF TypeOK
    <3>2. CASE l \in Living
      <4>1. l \in leases /\ l.worker # w /\ l.worker \in Worker
        BY <1>0, <1>1, <1>3, <3>2, LeaseFields DEF TypeOK
      <4> QED BY <1>0, <1>2, <2>3, <4>1 DEF WorkersInv, LeasesDiffer, TypeOK
    <3> QED BY <1>2, <3>1, <3>2
  <2> QED BY <2>1, <2>2, <2>3 DEF LeasesDiffer
<1>6. BridgeLeadsHome'
  BY <1>0, <1>2 DEF WorkersInv, BridgeLeadsHome, TypeOK
<1>7. HoldsItsEntry'
  BY <1>0, <1>1, <1>2 DEF WorkersInv, HoldsItsEntry, TypeOK
<1>8. Undisturbed'
  <2> SUFFICES ASSUME interrupted = 0
               PROVE  Undisturbed'
    BY <1>2 DEF Undisturbed
  <2>1. readable' /\ (\A l \in leases : l.owner = "server") /\ Living = leases
    BY <1>2 DEF WorkersInv, Undisturbed, Living, IsOwnerAlive
  <2>2. \A l \in leases' : l.owner = "server"
    BY <1>1, <1>2, <2>1
  <2>3. ASSUME NEW v \in Worker
        PROVE  /\ session'[v] \in {"none", v}
               /\ IF phase'[v] = "idle"
                  THEN manifest'[v] = NoEntry /\ \A l \in leases' : l.worker # v
                  ELSE PortLeaseFor(v)' \in leases'
               /\ phase'[v] \in Up => listener'[lease'[v].port] \in {"none", v}
    <3>1. CASE v = w
      <4>1. PortLeaseFor(v)' = n
        BY <1>0, <1>1, <1>2, <3>1 DEF PortLeaseFor, TypeOK, PortLease
      <4>2. phase'[v] = "appium" /\ lease'[v].port = n.port
        BY <1>0, <1>1, <1>2, <3>1 DEF TypeOK
      <4> QED BY <1>1, <1>2, <4>1, <4>2 DEF WorkersInv, Undisturbed
    <3>2. CASE v # w
      <4>1. /\ phase'[v] = phase[v] /\ lease'[v] = lease[v]
            /\ manifest'[v] = manifest[v] /\ PortLeaseFor(v)' = PortLeaseFor(v)
        BY <1>0, <1>2, <3>2 DEF TypeOK, PortLeaseFor
      <4>2. /\ session[v] \in {"none", v}
            /\ IF phase[v] = "idle"
               THEN manifest[v] = NoEntry /\ \A l \in leases : l.worker # v
               ELSE PortLeaseFor(v) \in leases
            /\ phase[v] \in Up => listener[lease[v].port] \in {"none", v}
        BY DEF WorkersInv, Undisturbed
      <4> QED BY <1>1, <1>2, <2>1, <3>2, <4>1, <4>2
    <3> QED BY <3>1, <3>2
  <2> QED BY <2>1, <2>2, <2>3 DEF Undisturbed
<1> QED BY <1>4, <1>5, <1>6, <1>7, <1>8 DEF WorkersInv

LEMMA AllocateFailsKeeps ==
  ASSUME WorkersInv, NEW w \in Worker, AllocateFails(w)
  PROVE  WorkersInv'
<1>0. TypeOK
  BY DEF WorkersInv
<1>1. /\ leases' = Living /\ Living \subseteq leases
      /\ UNCHANGED <<manifest, readable, committed, phase, lease, session, listener, forward>>
      /\ interrupted' # 0 => interrupted' \in 0..MaxInterruptions
      /\ interrupted' = 0 => interrupted = 0
      /\ interrupted' \in 0..MaxInterruptions
  BY <1>0, WorkerResourcesAssumption
     DEF AllocateFails, memory, outside, Living, Interrupt, TypeOK
<1>2. TypeOK'
  BY <1>0, <1>1 DEF TypeOK
<1>3. LeasesDiffer' /\ BridgeLeadsHome' /\ HoldsItsEntry'
  BY <1>1 DEF WorkersInv, LeasesDiffer, BridgeLeadsHome, HoldsItsEntry
<1>4. ASSUME interrupted' = 0  PROVE  UNCHANGED <<leases, interrupted>>
  BY <1>1, <1>4 DEF WorkersInv, Undisturbed, Living, IsOwnerAlive
<1>5. Undisturbed'
  BY <1>1, <1>4 DEF WorkersInv, Undisturbed, PortLeaseFor
<1> QED BY <1>2, <1>3, <1>5 DEF WorkersInv

(* A release gives both back, or neither when its entry is not as it left  *)
(* it, or the lease only when the write fails.                             *)
LEMMA ReleaseKeeps ==
  ASSUME WorkersInv, NEW w \in Worker, Release(w)
  PROVE  WorkersInv'
<1>0. TypeOK
  BY DEF WorkersInv
<1>1. /\ phase[w] = "release"
      /\ leases' \in {leases, leases \ PortLeaseOf(w)}
      /\ manifest' \in {manifest, [manifest EXCEPT ![w] = NoEntry]}
      /\ manifest' # manifest => leases' = leases \ PortLeaseOf(w)
      /\ lease' = [lease EXCEPT ![w] = NoEntry]
      /\ phase' = [phase EXCEPT ![w] = "idle"]
      /\ UNCHANGED <<readable, committed, session, listener, forward>>
      /\ interrupted' \in 0..MaxInterruptions
      /\ interrupted' = 0 => interrupted = 0
  BY <1>0, WorkerResourcesAssumption DEF Release, Interrupt, TypeOK, To, outside
<1>2. TypeOK'
  BY <1>0, <1>1 DEF TypeOK, Phase
<1>3. LeasesDiffer'
  <2>1. leases' \subseteq leases
    BY <1>1
  <2>2. ASSUME NEW u \in Worker, NEW v \in Worker, u # v,
               NoEntry \notin {manifest'[u], manifest'[v]}
        PROVE  manifest'[u].bridge # manifest'[v].bridge
    BY <1>0, <1>1, <2>2 DEF WorkersInv, LeasesDiffer, TypeOK
  <2>3. ASSUME NEW l \in leases', l.owner = "server"
        PROVE  manifest'[l.worker].generation = l.generation
    <3>1. manifest[l.worker].generation = l.generation /\ l.worker \in Worker
      BY <1>0, <2>1, <2>3, LeaseFields DEF WorkersInv, LeasesDiffer, TypeOK
    <3>2. CASE manifest' = manifest
      BY <3>1, <3>2
    <3>3. CASE manifest' # manifest
      <4>1. l \notin PortLeaseOf(w)
        BY <1>1, <3>3
      <4>2. l.worker # w
        BY <2>1, <3>1, <4>1 DEF PortLeaseOf
      <4> QED BY <1>0, <1>1, <3>1, <3>3, <4>2 DEF TypeOK
    <3> QED BY <3>2, <3>3
  <2> QED BY <2>1, <2>2, <2>3 DEF WorkersInv, LeasesDiffer
<1>4. BridgeLeadsHome'
  BY <1>0, <1>1 DEF WorkersInv, BridgeLeadsHome, TypeOK
<1>5. HoldsItsEntry'
  BY <1>0, <1>1 DEF WorkersInv, HoldsItsEntry, TypeOK
<1>6. Undisturbed'
  <2> SUFFICES ASSUME interrupted' = 0
               PROVE  Undisturbed'
    BY DEF Undisturbed
  <2>1. /\ interrupted = 0 /\ readable
        /\ \A l \in leases : l.owner = "server"
        /\ phase[w] # "idle"
    BY <1>1 DEF WorkersInv, Undisturbed
  <2>2. MayRelease(w)
    BY <1>1, <2>1 DEF MayRelease, PortLeaseOf, WorkersInv, HoldsItsEntry
  <2>3. ~ Interrupt
    BY <2>1 DEF Interrupt
  <2>4. manifest' = [manifest EXCEPT ![w] = NoEntry] /\ leases' = leases \ PortLeaseOf(w)
    BY <2>2, <2>3 DEF Release
  <2>5. \A l \in leases' : l.worker # w
    BY <2>1, <2>4 DEF PortLeaseOf, WorkersInv, LeasesDiffer
  <2>6. ASSUME NEW v \in Worker
        PROVE  /\ session'[v] \in {"none", v}
               /\ IF phase'[v] = "idle"
                  THEN manifest'[v] = NoEntry /\ \A l \in leases' : l.worker # v
                  ELSE PortLeaseFor(v)' \in leases'
               /\ phase'[v] \in Up => listener'[lease'[v].port] \in {"none", v}
    <3>1. CASE v = w
      BY <1>0, <1>1, <2>1, <2>4, <2>5, <3>1 DEF WorkersInv, Undisturbed, TypeOK, Up
    <3>2. CASE v # w
      <4>1. /\ phase'[v] = phase[v] /\ lease'[v] = lease[v]
            /\ manifest'[v] = manifest[v] /\ PortLeaseFor(v)' = PortLeaseFor(v)
        BY <1>0, <1>1, <2>4, <3>2 DEF TypeOK, PortLeaseFor
      <4>2. /\ session[v] \in {"none", v}
            /\ IF phase[v] = "idle"
               THEN manifest[v] = NoEntry /\ \A l \in leases : l.worker # v
               ELSE PortLeaseFor(v) \in leases
            /\ phase[v] \in Up => listener[lease[v].port] \in {"none", v}
        BY <2>1 DEF WorkersInv, Undisturbed
      <4>3. PortLeaseFor(v) \notin PortLeaseOf(w)
        BY <3>2 DEF PortLeaseFor, PortLeaseOf
      <4> QED BY <1>1, <2>4, <4>1, <4>2, <4>3
    <3> QED BY <3>1, <3>2
  <2> QED BY <1>1, <2>1, <2>4, <2>6 DEF Undisturbed
<1> QED BY <1>2, <1>3, <1>4, <1>5, <1>6 DEF WorkersInv

(* The steps of a worker that holds its lease: nothing is booked, so the   *)
(* files stay sound, and while nothing was interrupted the port is its own.*)
LEMMA WorkerStepKeeps ==
  ASSUME WorkersInv, NEW w \in Worker,
         phase[w] # "idle", phase' = [phase EXCEPT ![w] = phase'[w]],
         phase'[w] \in Phase \ {"idle"},
         UNCHANGED <<leases, manifest, readable, lease, interrupted>>,
         TypeOK', BridgeLeadsHome',
         interrupted = 0 =>
           /\ session'[w] \in {"none", w}
           /\ phase'[w] \in Up => listener'[lease[w].port] \in {"none", w}
           /\ \A v \in Worker \ {w} :
                /\ session'[v] = session[v]
                /\ phase[v] \in Up => listener'[lease[v].port] = listener[lease[v].port]
  PROVE  WorkersInv'
<1>0. TypeOK
  BY DEF WorkersInv
<1>1. LeasesDiffer'
  BY DEF WorkersInv, LeasesDiffer
<1>2. \A v \in Worker : (phase'[v] = "idle") <=> (phase[v] = "idle")
  BY <1>0 DEF TypeOK
<1>3. HoldsItsEntry'
  BY <1>2 DEF WorkersInv, HoldsItsEntry
<1>4. Undisturbed'
  <2> SUFFICES ASSUME interrupted = 0
               PROVE  Undisturbed'
    BY DEF Undisturbed
  <2>1. ASSUME NEW v \in Worker
        PROVE  /\ session'[v] \in {"none", v}
               /\ IF phase'[v] = "idle"
                  THEN manifest'[v] = NoEntry /\ \A l \in leases' : l.worker # v
                  ELSE PortLeaseFor(v)' \in leases'
               /\ phase'[v] \in Up => listener'[lease'[v].port] \in {"none", v}
    <3>1. /\ session[v] \in {"none", v}
          /\ IF phase[v] = "idle"
             THEN manifest[v] = NoEntry /\ \A l \in leases : l.worker # v
             ELSE PortLeaseFor(v) \in leases
          /\ phase[v] \in Up => listener[lease[v].port] \in {"none", v}
      BY DEF WorkersInv, Undisturbed
    <3>2. PortLeaseFor(v)' = PortLeaseFor(v)
      BY DEF PortLeaseFor
    <3>3. v # w => phase'[v] = phase[v]
      BY <1>0 DEF TypeOK
    <3> QED BY <1>2, <3>1, <3>2, <3>3
  <2>2. readable' /\ \A l \in leases' : l.owner = "server"
    BY DEF WorkersInv, Undisturbed
  <2> QED BY <2>1, <2>2 DEF Undisturbed
<1> QED BY <1>1, <1>3, <1>4 DEF WorkersInv

LEMMA ServeAppiumKeeps ==
  ASSUME WorkersInv, NEW w \in Worker, ServeAppium(w)
  PROVE  WorkersInv'
<1>0. TypeOK /\ phase[w] = "appium" /\ lease[w] \in Entry
  BY DEF WorkersInv, HoldsItsEntry, ServeAppium
<1>1. /\ listener' = [listener EXCEPT ![lease[w].port] = IF @ = "none" THEN w ELSE @]
      /\ phase' = [phase EXCEPT ![w] = "session"]
      /\ UNCHANGED <<interrupted, leases, manifest, readable, committed, lease, session, forward>>
  BY DEF ServeAppium, To, files
<1>2. TypeOK'
  BY <1>0, <1>1 DEF TypeOK, Phase, Up, Process
<1>3. BridgeLeadsHome'
  BY <1>0, <1>1 DEF WorkersInv, BridgeLeadsHome, TypeOK
<1>4. ASSUME interrupted = 0
      PROVE  /\ session'[w] \in {"none", w}
             /\ listener'[lease[w].port] \in {"none", w}
             /\ \A v \in Worker \ {w} :
                  /\ session'[v] = session[v]
                  /\ phase[v] \in Up => listener'[lease[v].port] = listener[lease[v].port]
  <2>1. session[w] \in {"none", w} /\ listener[lease[w].port] \in {"none", w}
    BY <1>0, <1>4 DEF WorkersInv, Undisturbed, Up
  <2>2. lease[w].port \in Port
    BY <1>0, EntryFields
  <2>3. ASSUME NEW v \in Worker \ {w}, phase[v] \in Up
        PROVE  lease[v].port # lease[w].port /\ lease[v].port \in Port
    <3>1. phase[v] # "idle" /\ lease[v] \in Entry
      BY <2>3 DEF WorkersInv, HoldsItsEntry, Up
    <3> QED BY <1>0, <1>4, <3>1, HoldersDiffer, EntryFields
  <2> QED BY <1>0, <1>1, <2>1, <2>2, <2>3 DEF TypeOK
<1>5. phase' = [phase EXCEPT ![w] = phase'[w]] /\ phase'[w] \in Phase \ {"idle"}
  BY <1>0, <1>1 DEF TypeOK, Phase, Up
<1> QED BY <1>0, <1>1, <1>2, <1>3, <1>4, <1>5, WorkerStepKeeps

(* The child never answered: it is gone, or goes on as nobody's.           *)
LEMMA ReadinessFailsKeeps ==
  ASSUME WorkersInv, NEW w \in Worker, ReadinessFails(w)
  PROVE  WorkersInv'
<1>0. /\ TypeOK /\ phase[w] = "appium" /\ lease[w] \in Entry
      /\ listener[lease[w].port] = "none"
  BY DEF WorkersInv, HoldsItsEntry, ReadinessFails
<1>1. /\ listener' = [listener EXCEPT ![lease[w].port] = "orphan"]
      /\ phase' = [phase EXCEPT ![w] = "release"]
      /\ UNCHANGED <<interrupted, leases, manifest, readable, committed, lease, session, forward>>
  BY DEF ReadinessFails, To, files
<1>2. TypeOK'
  BY <1>0, <1>1 DEF TypeOK, Phase, Up, Process
<1>3. BridgeLeadsHome'
  BY <1>0, <1>1 DEF WorkersInv, BridgeLeadsHome, TypeOK
<1>4. ASSUME interrupted = 0
      PROVE  /\ session'[w] \in {"none", w}
             /\ \A v \in Worker \ {w} :
                  /\ session'[v] = session[v]
                  /\ phase[v] \in Up => listener'[lease[v].port] = listener[lease[v].port]
  <2>1. session[w] \in {"none", w}
    BY <1>0, <1>4 DEF WorkersInv, Undisturbed, Up
  <2>2. ASSUME NEW v \in Worker \ {w}, phase[v] \in Up
        PROVE  lease[v].port # lease[w].port /\ lease[v].port \in Port
    <3>1. phase[v] # "idle" /\ lease[v] \in Entry
      BY <2>2 DEF WorkersInv, HoldsItsEntry, Up
    <3> QED BY <1>0, <1>4, <3>1, HoldersDiffer, EntryFields
  <2> QED BY <1>0, <1>1, <2>1, <2>2 DEF TypeOK
<1>5. /\ phase' = [phase EXCEPT ![w] = phase'[w]] /\ phase'[w] \in Phase \ {"idle"}
      /\ phase'[w] \notin Up
  BY <1>0, <1>1 DEF TypeOK, Phase, Up
<1> QED BY <1>0, <1>1, <1>2, <1>3, <1>4, <1>5, WorkerStepKeeps

(* A session is created on whatever listens on the port: the own child,    *)
(* while nothing was interrupted.                                          *)
LEMMA CreateSessionKeeps ==
  ASSUME WorkersInv, NEW w \in Worker, CreateSession(w)
  PROVE  WorkersInv'
<1>0. /\ TypeOK /\ phase[w] = "session" /\ lease[w] \in Entry
      /\ listener[lease[w].port] # "none"
  BY DEF WorkersInv, HoldsItsEntry, CreateSession
<1>1. /\ session' = [session EXCEPT ![w] = listener[lease[w].port]]
      /\ phase' = [phase EXCEPT ![w] = "bridge"]
      /\ UNCHANGED <<interrupted, leases, manifest, readable, committed, lease, listener, forward>>
  BY DEF CreateSession, To, files, outside
<1>2. lease[w].port \in Port
  BY <1>0, EntryFields
<1>3. TypeOK'
  BY <1>0, <1>1, <1>2 DEF TypeOK, Phase, Up
<1>4. BridgeLeadsHome'
  BY <1>0, <1>1 DEF WorkersInv, BridgeLeadsHome, TypeOK
<1>5. ASSUME interrupted = 0
      PROVE  /\ session'[w] \in {"none", w}
             /\ listener'[lease[w].port] \in {"none", w}
             /\ \A v \in Worker \ {w} : session'[v] = session[v]
  BY <1>0, <1>1, <1>5 DEF WorkersInv, Undisturbed, Up, TypeOK
<1>6. phase' = [phase EXCEPT ![w] = phase'[w]] /\ phase'[w] \in Phase \ {"idle"}
  BY <1>0, <1>1 DEF TypeOK, Phase, Up
<1> QED BY <1>0, <1>1, <1>3, <1>4, <1>5, <1>6, WorkerStepKeeps

(* The forward of one worker never replaces that of another one.           *)
LEMMA ForwardBridgeKeeps ==
  ASSUME WorkersInv, NEW w \in Worker, ForwardBridge(w)
  PROVE  WorkersInv'
<1>0. TypeOK /\ phase[w] = "bridge" /\ lease[w] \in Entry
  BY DEF WorkersInv, HoldsItsEntry, ForwardBridge
<1>1. /\ forward' = [forward EXCEPT ![lease[w].bridge] = SerialOf[w]]
      /\ phase' = [phase EXCEPT ![w] = "READY"]
      /\ UNCHANGED <<interrupted, leases, manifest, readable, committed, lease, listener, session>>
  BY DEF ForwardBridge, To, files
<1>2. lease[w].bridge \in Bridge
  BY <1>0, EntryFields
<1>3. TypeOK'
  BY <1>0, <1>1, <1>2 DEF TypeOK, Phase, Up, Serial
<1>4. BridgeLeadsHome'
  <2> SUFFICES ASSUME NEW v \in Worker, phase'[v] = "READY"
               PROVE  forward'[lease[v].bridge] = SerialOf[v]
    BY <1>1 DEF BridgeLeadsHome
  <2>1. CASE v = w
    BY <1>0, <1>1, <1>2, <2>1 DEF TypeOK
  <2>2. CASE v # w
    <3>1. phase[v] = "READY"
      BY <1>0, <1>1, <2>2 DEF TypeOK
    <3>2. lease[v].bridge # lease[w].bridge
      BY <1>0, <2>2, <3>1, HoldersDiffer
    <3> QED BY <1>0, <1>1, <3>1, <3>2 DEF WorkersInv, BridgeLeadsHome, TypeOK
  <2> QED BY <2>1, <2>2
<1>5. ASSUME interrupted = 0
      PROVE  /\ session'[w] \in {"none", w}
             /\ listener'[lease[w].port] \in {"none", w}
             /\ \A v \in Worker \ {w} : session'[v] = session[v]
  BY <1>0, <1>1, <1>5 DEF WorkersInv, Undisturbed, Up, TypeOK
<1>6. phase' = [phase EXCEPT ![w] = phase'[w]] /\ phase'[w] \in Phase \ {"idle"}
  BY <1>0, <1>1 DEF TypeOK, Phase, Up
<1> QED BY <1>0, <1>1, <1>3, <1>4, <1>5, <1>6, WorkerStepKeeps

(* A worker that gives up touches its own child and its own forward only.  *)
LEMMA WorkerGivesUpKeeps ==
  ASSUME WorkersInv, NEW w \in Worker, WorkerGivesUp(w)
  PROVE  WorkersInv'
<1>0. TypeOK /\ phase[w] \in Up /\ phase[w] # "idle" /\ lease[w] \in Entry
  BY DEF WorkersInv, HoldsItsEntry, WorkerGivesUp, Up
<1>1. PICK killed \in BOOLEAN, removed \in BOOLEAN :
        /\ listener' = [p \in Port |->
             IF listener[p] # w THEN listener[p] ELSE IF killed THEN "none" ELSE "orphan"]
        /\ forward' =
             IF removed /\ phase[w] = "READY"
             THEN [forward EXCEPT ![lease[w].bridge] = "none"] ELSE forward
  BY DEF WorkerGivesUp
<1>2. /\ session' = [session EXCEPT ![w] = "none"]
      /\ phase' = [phase EXCEPT ![w] = "release"]
      /\ UNCHANGED <<interrupted, leases, manifest, readable, committed, lease>>
  BY DEF WorkerGivesUp, To, files
<1>3. TypeOK'
  <2>1. listener' \in [Port -> Process]
    BY <1>0, <1>1 DEF TypeOK, Process
  <2>2. forward' \in [Bridge -> Serial \cup {"none"}]
    BY <1>0, <1>1 DEF TypeOK
  <2> QED BY <1>0, <1>2, <2>1, <2>2 DEF TypeOK, Phase, Process
<1>4. BridgeLeadsHome'
  <2> SUFFICES ASSUME NEW v \in Worker, phase'[v] = "READY"
               PROVE  forward'[lease[v].bridge] = SerialOf[v]
    BY <1>2 DEF BridgeLeadsHome
  <2>1. v # w /\ phase[v] = "READY"
    BY <1>0, <1>2 DEF TypeOK
  <2>2. lease[v].bridge # lease[w].bridge
    BY <1>0, <2>1, HoldersDiffer
  <2> QED BY <1>0, <1>1, <2>1, <2>2 DEF WorkersInv, BridgeLeadsHome, TypeOK
<1>5. ASSUME interrupted = 0
      PROVE  /\ session'[w] \in {"none", w}
             /\ \A v \in Worker \ {w} :
                  /\ session'[v] = session[v]
                  /\ phase[v] \in Up => listener'[lease[v].port] = listener[lease[v].port]
  <2>1. ASSUME NEW v \in Worker \ {w}, phase[v] \in Up
        PROVE  listener'[lease[v].port] = listener[lease[v].port]
    <3>1. lease[v] \in Entry /\ listener[lease[v].port] \in {"none", v}
      BY <1>5, <2>1 DEF WorkersInv, HoldsItsEntry, Undisturbed, Up
    <3>2. lease[v].port \in Port /\ w # "none"
      BY <3>1, EntryFields, WorkerResourcesAssumption
    <3> QED BY <1>1, <3>1, <3>2
  <2> QED BY <1>0, <1>2, <2>1 DEF TypeOK
<1>6. /\ phase' = [phase EXCEPT ![w] = phase'[w]] /\ phase'[w] \in Phase \ {"idle"}
      /\ phase'[w] \notin Up
  BY <1>0, <1>2 DEF TypeOK, Phase, Up
<1> QED BY <1>0, <1>2, <1>3, <1>4, <1>5, <1>6, WorkerStepKeeps

LEMMA CommitKeeps ==
  ASSUME WorkersInv, NEW w \in Worker, Commit(w)
  PROVE  WorkersInv'
<1>0. TypeOK /\ phase[w] = "READY" /\ lease[w] \in Entry
  BY DEF WorkersInv, HoldsItsEntry, Commit
<1>1. /\ committed' = [committed EXCEPT ![w] = lease[w].generation]
      /\ UNCHANGED <<interrupted, leases, manifest, readable, phase, lease, session,
                     listener, forward>>
  BY DEF Commit, files, memory, outside
<1>2. TypeOK'
  BY <1>0, <1>1, EntryFields DEF TypeOK
<1>3. LeasesDiffer' /\ BridgeLeadsHome' /\ HoldsItsEntry' /\ Undisturbed'
  BY <1>1 DEF WorkersInv, LeasesDiffer, BridgeLeadsHome, HoldsItsEntry, Undisturbed,
              PortLeaseFor
<1> QED BY <1>2, <1>3 DEF WorkersInv

LEMMA ChildExitsKeeps ==
  ASSUME WorkersInv, NEW p \in Port, ChildExits(p)
  PROVE  WorkersInv'
<1>0. TypeOK
  BY DEF WorkersInv
<1>1. /\ listener' = [listener EXCEPT ![p] = "none"]
      /\ UNCHANGED <<interrupted, leases, manifest, readable, committed, phase, lease,
                     session, forward>>
  BY DEF ChildExits, files, memory
<1>2. TypeOK'
  BY <1>0, <1>1 DEF TypeOK, Process
<1>3. LeasesDiffer' /\ BridgeLeadsHome' /\ HoldsItsEntry'
  BY <1>1 DEF WorkersInv, LeasesDiffer, BridgeLeadsHome, HoldsItsEntry
<1>4. ASSUME NEW v \in Worker, listener[lease[v].port] \in {"none", v},
             lease[v].port \in Port
      PROVE  listener'[lease[v].port] \in {"none", v}
  BY <1>0, <1>1, <1>4 DEF TypeOK
<1>5. \A v \in Worker : phase[v] \in Up => lease[v].port \in Port
  BY EntryFields DEF WorkersInv, HoldsItsEntry, Up
<1>6. Undisturbed'
  BY <1>1, <1>4, <1>5 DEF WorkersInv, Undisturbed, PortLeaseFor
<1> QED BY <1>2, <1>3, <1>6 DEF WorkersInv

(* The server dies with some leases, which differ as they did.             *)
LEMMA DieKeeps ==
  ASSUME WorkersInv, NEW remaining \in SUBSET PortLease, Die(remaining),
         \A k, l \in remaining :
           k # l => k.port # l.port /\ SerialOf[k.worker] # SerialOf[l.worker],
         readable' \in BOOLEAN, UNCHANGED <<manifest, committed, forward>>
  PROVE  WorkersInv'
<1>0. TypeOK
  BY DEF WorkersInv
<1>1. PICK o \in {"dead", "reused"} :
        leases' = {[l EXCEPT !.owner = IF @ = "server" THEN o ELSE @] : l \in remaining}
  BY DEF Die
<1>2. /\ phase' = [w \in Worker |-> "idle"]
      /\ lease' = [w \in Worker |-> NoEntry]
      /\ session' = [w \in Worker |-> "none"]
      /\ listener' = [p \in Port |-> IF listener[p] = "none" THEN "none" ELSE "orphan"]
      /\ interrupted < MaxInterruptions /\ interrupted' = interrupted + 1
  BY DEF Die, Interrupt
<1>3. ASSUME NEW k \in leases'
      PROVE  \E l \in remaining :
               /\ k = [l EXCEPT !.owner = IF @ = "server" THEN o ELSE @]
               /\ k \in PortLease /\ k.owner # "server"
               /\ k.worker = l.worker /\ k.port = l.port
  <2>1. PICK l \in remaining : k = [l EXCEPT !.owner = IF @ = "server" THEN o ELSE @]
    BY <1>1, <1>3
  <2>2. l \in PortLease
    OBVIOUS
  <2>3. k \in PortLease /\ k.owner # "server" /\ k.worker = l.worker /\ k.port = l.port
    BY <2>1, <2>2 DEF PortLease, Owner
  <2> QED BY <2>1, <2>3
<1>4. TypeOK'
  <2>1. leases' \subseteq PortLease
    BY <1>3
  <2>2. interrupted' \in 0..MaxInterruptions
    BY <1>0, <1>2, WorkerResourcesAssumption DEF TypeOK
  <2> QED BY <1>0, <1>2, <2>1, <2>2 DEF TypeOK, Phase, Process
<1>5. LeasesDiffer'
  <2>1. ASSUME NEW k \in leases', NEW l \in leases', k # l
        PROVE  k.port # l.port /\ SerialOf[k.worker] # SerialOf[l.worker]
    <3>1. PICK m \in remaining :
             /\ k = [m EXCEPT !.owner = IF @ = "server" THEN o ELSE @]
             /\ k.worker = m.worker /\ k.port = m.port
      BY <1>3
    <3>2. PICK n \in remaining :
             /\ l = [n EXCEPT !.owner = IF @ = "server" THEN o ELSE @]
             /\ l.worker = n.worker /\ l.port = n.port
      BY <1>3
    <3>3. m # n
      BY <2>1, <3>1, <3>2
    <3> QED BY <3>1, <3>2, <3>3
  <2>2. \A l \in leases' : l.owner # "server"
    BY <1>3
  <2> QED BY <2>1, <2>2 DEF WorkersInv, LeasesDiffer
<1>6. BridgeLeadsHome' /\ HoldsItsEntry'
  BY <1>2 DEF BridgeLeadsHome, HoldsItsEntry
<1>7. interrupted' # 0
  BY <1>0, <1>2 DEF TypeOK
<1>8. Undisturbed'
  BY <1>7 DEF Undisturbed
<1> QED BY <1>4, <1>5, <1>6, <1>8 DEF WorkersInv

LEMMA CrashesKeep ==
  ASSUME WorkersInv,
         Crash \/ \E w \in Worker : CrashInAllocate(w) \/ CrashInRelease(w)
  PROVE  WorkersInv'
<1>0. TypeOK /\ leases \subseteq PortLease /\ Living \subseteq leases
  BY DEF WorkersInv, TypeOK, Living
<1>1. CASE Crash
  <2>1. Die(leases) /\ readable' \in BOOLEAN /\ UNCHANGED <<manifest, committed, forward>>
    BY <1>0, <1>1 DEF Crash, TypeOK
  <2> QED BY <1>0, <2>1, DieKeeps DEF WorkersInv, LeasesDiffer
<1>2. ASSUME NEW w \in Worker, CrashInAllocate(w)  PROVE  WorkersInv'
  <2> DEFINE n == NewLease(w)
  <2>1. /\ n \in PortLease /\ n.worker = w
        /\ \A l \in Living : l.port # n.port /\ SerialOf[l.worker] # SerialOf[w]
    BY <1>0, <1>2, NewLeaseIsFree DEF CrashInAllocate
  <2>2. /\ Die(Living \cup {n}) /\ readable' \in BOOLEAN
        /\ UNCHANGED <<manifest, committed, forward>>
    BY <1>2 DEF CrashInAllocate
  <2> HIDE DEF n
  <2>3. \A k, l \in Living \cup {n} :
          k # l => k.port # l.port /\ SerialOf[k.worker] # SerialOf[l.worker]
    BY <1>0, <2>1 DEF WorkersInv, LeasesDiffer
  <2>4. Living \cup {n} \in SUBSET PortLease
    BY <1>0, <2>1
  <2> QED BY <2>2, <2>3, <2>4, DieKeeps
<1>3. ASSUME NEW w \in Worker, CrashInRelease(w)  PROVE  WorkersInv'
  <2>1. /\ Die(leases \ PortLeaseOf(w)) /\ readable' \in BOOLEAN
        /\ UNCHANGED <<manifest, committed, forward>>
    BY <1>3 DEF CrashInRelease
  <2>2. \A k, l \in leases \ PortLeaseOf(w) :
          k # l => k.port # l.port /\ SerialOf[k.worker] # SerialOf[l.worker]
    BY DEF WorkersInv, LeasesDiffer
  <2>3. leases \ PortLeaseOf(w) \in SUBSET PortLease
    BY <1>0
  <2> QED BY <2>1, <2>2, <2>3, DieKeeps
<1> QED BY <1>1, <1>2, <1>3

LEMMA WorkersNext == WorkersInv /\ [Next]_vars => WorkersInv'
<1> SUFFICES ASSUME WorkersInv, [Next]_vars PROVE WorkersInv'
  OBVIOUS
<1>1. ASSUME NEW w \in Worker,
             \/ AllocateAgain(w) \/ Allocate(w) \/ AllocateFails(w)
             \/ ServeAppium(w) \/ ReadinessFails(w) \/ CreateSession(w)
             \/ ForwardBridge(w) \/ Commit(w) \/ WorkerGivesUp(w) \/ Release(w)
      PROVE  WorkersInv'
  BY <1>1, AllocateAgainKeeps, AllocateKeeps, AllocateFailsKeeps, ServeAppiumKeeps,
     ReadinessFailsKeeps, CreateSessionKeeps, ForwardBridgeKeeps, CommitKeeps,
     WorkerGivesUpKeeps, ReleaseKeeps
<1>2. CASE \/ \E p \in Port : ChildExits(p)
           \/ Crash \/ \E w \in Worker : CrashInAllocate(w) \/ CrashInRelease(w)
  BY <1>2, ChildExitsKeeps, CrashesKeep
<1>3. CASE UNCHANGED vars
  BY <1>3 DEF vars, files, memory, outside, WorkersInv, TypeOK, LeasesDiffer,
              BridgeLeadsHome, HoldsItsEntry, Undisturbed, PortLeaseFor
<1> QED BY <1>1, <1>2, <1>3 DEF Next

(* What the invariant says is what the run checks.                         *)
LEMMA WorkersAreSound == WorkersInv => LeasesAreSound
<1> SUFFICES ASSUME WorkersInv PROVE LeasesAreSound
  OBVIOUS
<1>1. \A w \in Worker : w \in Held => phase[w] # "idle"
  BY DEF Held, WorkersInv, HoldsItsEntry
<1>2. ASSUME interrupted = 0  PROVE  PortsAreExclusive
  BY <1>1, <1>2, HoldersDiffer DEF PortsAreExclusive, Held
<1>3. DrivesItsOwnServer
  BY <1>2 DEF DrivesItsOwnServer, WorkersInv, Undisturbed
<1>4. NothingLeftBehind
  BY DEF NothingLeftBehind, WorkersInv, Undisturbed
<1> QED BY <1>3, <1>4 DEF WorkersInv, LeasesAreSound

(* However workers start, stop, fail and crash, and whatever processes and *)
(* forwards they leave behind, ports, devices and bridge ports have one    *)
(* holder each, every bridge leads to the worker's own device, and while   *)
(* nothing was interrupted a worker drives its own Appium process and      *)
(* leaves nothing behind (port-allocator.ts, worker-resource-manager.ts).  *)
THEOREM LeasesHold == Spec => []LeasesAreSound
<1>1. Spec => []WorkersInv
  BY WorkersInit, WorkersNext, PTL DEF Spec
<1> QED BY <1>1, WorkersAreSound, PTL
-----------------------------------------------------------------------------
(* The cleanup of ended runs.                                              *)

DialogRecord ==
  [pc : {"closed", "open", "moving", "rollback", "removing", "restoring", "answered", "lost"},
   runs : SUBSET Runs, nonce : {"none", "fresh"},
   moved : SUBSET Runs, back : SUBSET Runs, removed : SUBSET Runs,
   restored : SUBSET Runs, refused : BOOLEAN,
   answer : [deleted : SUBSET Runs, restored : SUBSET Runs, unresolved : SUBSET Runs]]

(* What an execution knows of the disk, place by place in the code.        *)
OpenIsFresh(d) ==
  /\ dialog[d].runs # {} /\ dialog[d].moved = {} /\ dialog[d].removed = {}
  /\ dialog[d].restored = {} /\ ~ dialog[d].refused

MovingIsTrue(d) ==
  /\ dialog[d].moved \subseteq dialog[d].runs /\ dialog[d].moved # dialog[d].runs
  /\ dialog[d].removed = {} /\ dialog[d].restored = {} /\ ~ dialog[d].refused
  /\ \A r \in dialog[d].runs : place[r] = IF r \in dialog[d].moved THEN "trash" ELSE "runs"

RollbackIsTrue(d) ==
  dialog[d].moved \subseteq dialog[d].runs /\ dialog[d].back \subseteq dialog[d].runs

RemovingIsTrue(d) ==
  /\ dialog[d].moved = dialog[d].runs /\ dialog[d].removed \subseteq dialog[d].runs
  /\ dialog[d].restored = {} /\ ~ dialog[d].refused
  /\ \A r \in dialog[d].runs : place[r] = IF r \in dialog[d].removed THEN "gone" ELSE "trash"

RestoringIsTrue(d) ==
  /\ dialog[d].moved = dialog[d].runs /\ dialog[d].removed \subseteq dialog[d].runs
  /\ dialog[d].back \subseteq dialog[d].runs \ dialog[d].removed
  /\ dialog[d].restored \subseteq (dialog[d].runs \ dialog[d].removed) \ dialog[d].back
  /\ ~ dialog[d].refused =>
       dialog[d].restored = (dialog[d].runs \ dialog[d].removed) \ dialog[d].back
  /\ \A r \in dialog[d].runs :
       place[r] = IF r \in dialog[d].removed THEN "gone"
                  ELSE IF r \in dialog[d].restored THEN "runs" ELSE "trash"

AnswerIsTrue(d) ==
  dialog[d].moved # {} =>
    \A r \in dialog[d].runs :
      /\ place[r] = "gone" <=> r \in dialog[d].answer.deleted
      /\ place[r] = "trash" => r \in dialog[d].answer.unresolved
      /\ r \in dialog[d].answer.restored => place[r] = "runs"

(* The runs of an execution are DELETING, those of an answer never ACTIVE  *)
(* again: that is what keeps other executions from their directories.      *)
DialogIsTrue(d) ==
  /\ dialog[d].pc \in Executing => \A r \in dialog[d].runs : cleanupState[r] = "DELETING"
  /\ dialog[d].pc = "answered" =>
       /\ \A r \in dialog[d].runs : cleanupState[r] \in {"DELETED", "RECOVERY_REQUIRED"}
       /\ AnswerIsTrue(d)
  /\ dialog[d].pc = "open" => OpenIsFresh(d)
  /\ dialog[d].pc = "moving" => MovingIsTrue(d)
  /\ dialog[d].pc = "rollback" => RollbackIsTrue(d)
  /\ dialog[d].pc = "removing" => RemovingIsTrue(d)
  /\ dialog[d].pc = "restoring" => RestoringIsTrue(d)

CleanupInv ==
  /\ CleanupTypeOK /\ StateTellsThePlace /\ OneCleanupPerRun
  /\ \A d \in Dialog : DialogIsTrue(d)

LEMMA FirstAndLast ==
  ASSUME NEW S \in SUBSET Runs, S # {}
  PROVE  First(S) \in S /\ Last(S) \in S
<1> USE EvidenceCleanupAssumption
<1>1. S \in SUBSET Nat /\ IsFiniteSet(S)
  BY FS_Subset
<1>2. \E r \in S : \A q \in S : r <= q
  BY <1>1, LeastOf
<1>3. \E r \in S : \A q \in S : r >= q
  BY <1>1, GreatestOf
<1> QED BY <1>2, <1>3 DEF First, Last

LEMMA DialogFields ==
  ASSUME CleanupTypeOK, NEW d \in Dialog
  PROVE  /\ dialog[d] \in DialogRecord
         /\ dialog[d].runs \subseteq Runs /\ dialog[d].moved \subseteq Runs
         /\ dialog[d].back \subseteq Runs /\ dialog[d].removed \subseteq Runs
         /\ dialog[d].restored \subseteq Runs /\ dialog[d].refused \in BOOLEAN
         /\ dialog[d].pc \in {"closed", "open", "moving", "rollback", "removing",
                              "restoring", "answered", "lost"}
<1>1. dialog[d] \in DialogRecord
  BY DEF CleanupTypeOK, DialogRecord
<1> QED BY <1>1 DEF DialogRecord

LEMMA ClosedFields ==
  /\ Closed \in DialogRecord /\ Closed.pc = "closed" /\ Closed.runs = {}
  /\ Closed.moved = {} /\ Closed.removed = {} /\ Closed.restored = {} /\ ~ Closed.refused
<1>1. NoAnswer \in [deleted : SUBSET Runs, restored : SUBSET Runs, unresolved : SUBSET Runs]
  BY DEF NoAnswer
<1>2. /\ Closed.pc = "closed" /\ Closed.runs = {}
      /\ Closed.moved = {} /\ Closed.removed = {} /\ Closed.restored = {} /\ ~ Closed.refused
  BY DEF Closed
<1>3. Closed \in DialogRecord
  BY <1>1 DEF Closed, DialogRecord
<1> QED BY <1>2, <1>3

LEMMA CleanupInitHolds == CleanupInit => CleanupInv
<1> SUFFICES ASSUME CleanupInit PROVE CleanupInv
  OBVIOUS
<1> USE EvidenceCleanupAssumption
<1>1. \A d \in Dialog : dialog[d] = Closed
  BY DEF CleanupInit
<1>2. CleanupTypeOK
  BY ClosedFields DEF CleanupInit, CleanupTypeOK, DialogRecord
<1>3. StateTellsThePlace
  BY DEF CleanupInit, StateTellsThePlace
<1>4. OneCleanupPerRun /\ \A d \in Dialog : DialogIsTrue(d)
  BY <1>1, ClosedFields DEF OneCleanupPerRun, DialogIsTrue, Executing
<1> QED BY <1>2, <1>3, <1>4 DEF CleanupInv

(* A dialog that goes on with other runs is not disturbed.                 *)
LEMMA DialogUndisturbed ==
  ASSUME NEW d \in Dialog, DialogIsTrue(d), dialog'[d] = dialog[d],
         dialog[d].pc \in Executing \cup {"answered"} =>
           \A r \in dialog[d].runs : cleanupState'[r] = cleanupState[r] /\ place'[r] = place[r]
  PROVE  DialogIsTrue(d)'
BY DEF DialogIsTrue, Executing, AnswerIsTrue, OpenIsFresh, MovingIsTrue, RollbackIsTrue,
       RemovingIsTrue, RestoringIsTrue

(* The step of an execution changes its own runs only, so the others, and  *)
(* the answers given, stay as true as they were.                           *)
LEMMA ExecutionStepKeeps ==
  ASSUME CleanupInv, NEW d \in Dialog, NEW x \in DialogRecord,
         dialog[d].pc \in Executing, x.runs = dialog[d].runs,
         dialog' = [dialog EXCEPT ![d] = x],
         CleanupTypeOK', DialogIsTrue(d)',
         \A r \in Runs \ dialog[d].runs :
           /\ cleanupState'[r] = cleanupState[r]
           /\ place'[r] = place[r] /\ damaged'[r] = damaged[r],
         \A r \in dialog[d].runs :
           cleanupState'[r] # "ACTIVE" /\ (cleanupState'[r] = "DELETED" => place'[r] = "gone")
  PROVE  CleanupInv'
<1>0. /\ dialog'[d] = x /\ dialog[d].runs \subseteq Runs
      /\ \A e \in Dialog \ {d} : dialog'[e] = dialog[e]
  BY DialogFields DEF CleanupInv, CleanupTypeOK
<1>1. ASSUME NEW e \in Dialog \ {d}, dialog[e].pc \in Executing \cup {"answered"}
      PROVE  dialog[e].runs \cap dialog[d].runs = {}
  <2>1. CASE dialog[e].pc \in Executing
    BY <2>1 DEF CleanupInv, OneCleanupPerRun
  <2>2. CASE dialog[e].pc = "answered"
    BY <2>2 DEF CleanupInv, DialogIsTrue
  <2> QED BY <1>1, <2>1, <2>2
<1>2. ASSUME NEW e \in Dialog \ {d}  PROVE  DialogIsTrue(e)'
  <2>1. dialog[e].runs \subseteq Runs /\ DialogIsTrue(e)
    BY DialogFields DEF CleanupInv
  <2>2. dialog[e].pc \in Executing \cup {"answered"} =>
           \A r \in dialog[e].runs : cleanupState'[r] = cleanupState[r] /\ place'[r] = place[r]
    BY <1>1, <2>1
  <2> QED BY <1>0, <2>1, <2>2, DialogUndisturbed
<1>3. OneCleanupPerRun'
  BY <1>0, <1>1 DEF CleanupInv, OneCleanupPerRun
<1>4. StateTellsThePlace'
  BY <1>0 DEF CleanupInv, StateTellsThePlace
<1> QED BY <1>2, <1>3, <1>4 DEF CleanupInv

(* The record an execution goes on with is well formed.                    *)
LEMMA DialogTypes ==
  ASSUME CleanupTypeOK, NEW d \in Dialog, NEW x \in DialogRecord,
         dialog' = [dialog EXCEPT ![d] = x],
         cleanupState' \in [Runs -> {"ACTIVE", "DELETING", "DELETED", "RECOVERY_REQUIRED"}],
         trail' \subseteq {"RUN_MOVED", "RUN_RESTORED", "MOVE_FAILED"} \X Runs,
         place' \in [Runs -> {"runs", "trash", "gone"}],
         damaged' \in [Runs -> BOOLEAN],
         cleanupFaults' \in 0..MaxCleanupFaults, cleanupCrashes' = cleanupCrashes
  PROVE  CleanupTypeOK'
BY DEF CleanupTypeOK, DialogRecord

(* A fault that is counted stays within its bound.                         *)
LEMMA FaultCounted ==
  ASSUME CleanupTypeOK, cleanupFaults < MaxCleanupFaults, cleanupFaults' = cleanupFaults + 1
  PROVE  cleanupFaults' \in 0..MaxCleanupFaults
BY EvidenceCleanupAssumption DEF CleanupTypeOK

LEMMA MoveKeeps ==
  ASSUME CleanupInv, NEW d \in Dialog, Move(d)
  PROVE  CleanupInv'
<1> DEFINE left == dialog[d].runs \ dialog[d].moved
           r    == First(left)
           m    == dialog[d].moved \cup {r}
           x    == IF m = dialog[d].runs
                   THEN [dialog[d] EXCEPT !.moved = m, !.pc = "removing"]
                   ELSE [dialog[d] EXCEPT !.moved = m]
<1>0. CleanupTypeOK /\ DialogIsTrue(d)
  BY DEF CleanupInv
<1>1. /\ dialog[d].pc = "moving" /\ left # {}
      /\ place' = [place EXCEPT ![r] = "trash"]
      /\ trail' = (IF m = dialog[d].runs THEN Appended("RUN_MOVED", m) ELSE trail)
      /\ dialog' = [dialog EXCEPT ![d] = x]
      /\ UNCHANGED <<cleanupState, damaged, cleanupFaults, cleanupCrashes>>
  BY DEF Move, SetDialog
<1>2. /\ dialog[d] \in DialogRecord /\ dialog[d].runs \subseteq Runs
      /\ r \in dialog[d].runs /\ r \notin dialog[d].moved
  BY <1>0, <1>1, DialogFields, FirstAndLast
<1>3. MovingIsTrue(d)
  BY <1>0, <1>1 DEF DialogIsTrue
<1> HIDE DEF r
<1>4. m \subseteq dialog[d].runs /\ m \subseteq Runs
  BY <1>2, <1>3 DEF MovingIsTrue
<1>5. /\ x \in DialogRecord /\ x.runs = dialog[d].runs /\ x.moved = m
      /\ x.removed = dialog[d].removed /\ x.restored = dialog[d].restored
      /\ x.refused = dialog[d].refused
      /\ x.pc = IF m = dialog[d].runs THEN "removing" ELSE "moving"
  BY <1>1, <1>2, <1>4 DEF DialogRecord
<1> HIDE DEF x
<1>6. dialog'[d] = x
  BY <1>0, <1>1 DEF CleanupTypeOK
<1>7. /\ place'[r] = "trash"
      /\ \A q \in Runs \ {r} : place'[q] = place[q]
      /\ place' \in [Runs -> {"runs", "trash", "gone"}]
  BY <1>0, <1>1, <1>2 DEF CleanupTypeOK
<1>8. trail' \subseteq {"RUN_MOVED", "RUN_RESTORED", "MOVE_FAILED"} \X Runs
  BY <1>0, <1>1, <1>4 DEF CleanupTypeOK, Appended
<1>9. CleanupTypeOK'
  BY <1>0, <1>1, <1>5, <1>7, <1>8, DialogTypes DEF CleanupTypeOK
<1>10. \A q \in dialog[d].runs : cleanupState'[q] = "DELETING"
  BY <1>0, <1>1 DEF DialogIsTrue, Executing
<1>11. \A q \in dialog[d].runs : place'[q] = IF q \in m THEN "trash" ELSE "runs"
  BY <1>2, <1>3, <1>7 DEF MovingIsTrue
<1>12. DialogIsTrue(d)'
  <2>1. CASE m = dialog[d].runs
    <3>1. RemovingIsTrue(d)'
      BY <1>3, <1>5, <1>6, <1>11, <2>1 DEF RemovingIsTrue, MovingIsTrue
    <3> QED BY <1>5, <1>6, <1>10, <2>1, <3>1 DEF DialogIsTrue
  <2>2. CASE m # dialog[d].runs
    <3>1. MovingIsTrue(d)'
      BY <1>3, <1>4, <1>5, <1>6, <1>11, <2>2 DEF MovingIsTrue
    <3> QED BY <1>5, <1>6, <1>10, <2>2, <3>1 DEF DialogIsTrue
  <2> QED BY <2>1, <2>2
<1>13. \A q \in Runs \ dialog[d].runs :
         cleanupState'[q] = cleanupState[q] /\ place'[q] = place[q] /\ damaged'[q] = damaged[q]
  BY <1>1, <1>2, <1>7
<1>14. dialog[d].pc \in Executing
  BY <1>1 DEF Executing
<1> QED BY <1>1, <1>5, <1>9, <1>10, <1>12, <1>13, <1>14, ExecutionStepKeeps

LEMMA MoveFailsKeeps ==
  ASSUME CleanupInv, NEW d \in Dialog, MoveFails(d)
  PROVE  CleanupInv'
<1> DEFINE x == [dialog[d] EXCEPT !.pc = "rollback", !.back = dialog[d].moved]
<1>0. CleanupTypeOK /\ DialogIsTrue(d)
  BY DEF CleanupInv
<1>1. /\ dialog[d].pc = "moving" /\ dialog' = [dialog EXCEPT ![d] = x]
      /\ cleanupFaults < MaxCleanupFaults /\ cleanupFaults' = cleanupFaults + 1
      /\ UNCHANGED <<cleanupState, trail, place, damaged, cleanupCrashes>>
  BY DEF MoveFails, SetDialog, cleanupDisk
<1>2. dialog[d] \in DialogRecord /\ MovingIsTrue(d)
  BY <1>0, <1>1, DialogFields DEF DialogIsTrue
<1>3. /\ x \in DialogRecord /\ x.runs = dialog[d].runs /\ x.moved = dialog[d].moved
      /\ x.back = dialog[d].moved /\ x.pc = "rollback"
  BY <1>2 DEF DialogRecord
<1> HIDE DEF x
<1>4. dialog'[d] = x
  BY <1>0, <1>1 DEF CleanupTypeOK
<1>5. CleanupTypeOK'
  BY <1>0, <1>1, <1>3, DialogTypes, FaultCounted DEF CleanupTypeOK
<1>6. \A q \in dialog[d].runs : cleanupState'[q] = "DELETING"
  BY <1>0, <1>1 DEF DialogIsTrue, Executing
<1>7. DialogIsTrue(d)'
  BY <1>2, <1>3, <1>4, <1>6 DEF DialogIsTrue, RollbackIsTrue, MovingIsTrue
<1>8. dialog[d].pc \in Executing
  BY <1>1 DEF Executing
<1> QED BY <1>1, <1>3, <1>5, <1>6, <1>7, <1>8, ExecutionStepKeeps

LEMMA UndoKeeps ==
  ASSUME CleanupInv, NEW d \in Dialog, Undo(d)
  PROVE  CleanupInv'
<1> DEFINE r == Last(dialog[d].back)
           x == [dialog[d] EXCEPT !.back = dialog[d].back \ {r}]
<1>0. CleanupTypeOK /\ DialogIsTrue(d)
  BY DEF CleanupInv
<1>1. /\ dialog[d].pc = "rollback" /\ dialog[d].back # {}
      /\ dialog' = [dialog EXCEPT ![d] = x]
      /\ \/ place' = [place EXCEPT ![r] = "runs"] /\ UNCHANGED cleanupFaults
         \/ /\ cleanupFaults < MaxCleanupFaults /\ cleanupFaults' = cleanupFaults + 1
            /\ UNCHANGED place
      /\ UNCHANGED <<cleanupState, trail, damaged, cleanupCrashes>>
  BY DEF Undo, SetDialog
<1>2. dialog[d] \in DialogRecord /\ dialog[d].back \subseteq Runs /\ RollbackIsTrue(d)
  BY <1>0, <1>1, DialogFields DEF DialogIsTrue
<1>3. r \in dialog[d].back
  BY <1>1, <1>2, FirstAndLast
<1> HIDE DEF r
<1>4. /\ x \in DialogRecord /\ x.runs = dialog[d].runs /\ x.moved = dialog[d].moved
      /\ x.back \subseteq dialog[d].back /\ x.pc = "rollback"
  BY <1>1, <1>2 DEF DialogRecord
<1> HIDE DEF x
<1>5. dialog'[d] = x
  BY <1>0, <1>1 DEF CleanupTypeOK
<1>6. /\ place' \in [Runs -> {"runs", "trash", "gone"}]
      /\ \A q \in Runs \ dialog[d].runs : place'[q] = place[q]
  BY <1>0, <1>1, <1>2, <1>3 DEF CleanupTypeOK, RollbackIsTrue
<1>7. CleanupTypeOK'
  BY <1>0, <1>1, <1>4, <1>6, DialogTypes, FaultCounted DEF CleanupTypeOK
<1>8. \A q \in dialog[d].runs : cleanupState'[q] = "DELETING"
  BY <1>0, <1>1 DEF DialogIsTrue, Executing
<1>9. DialogIsTrue(d)'
  BY <1>2, <1>4, <1>5, <1>8 DEF DialogIsTrue, RollbackIsTrue
<1>10. dialog[d].pc \in Executing
  BY <1>1 DEF Executing
<1> QED BY <1>1, <1>4, <1>6, <1>7, <1>8, <1>9, <1>10, ExecutionStepKeeps

(* The states of the runs of an execution that ends.                       *)
LEMMA MarkedStates ==
  ASSUME CleanupTypeOK, NEW d \in Dialog,
         NEW s \in {"DELETING", "DELETED", "RECOVERY_REQUIRED"},
         cleanupState' = Marked(dialog[d].runs, s)
  PROVE  /\ \A q \in dialog[d].runs : cleanupState'[q] = s
         /\ \A q \in Runs \ dialog[d].runs : cleanupState'[q] = cleanupState[q]
         /\ cleanupState' \in [Runs -> {"ACTIVE", "DELETING", "DELETED", "RECOVERY_REQUIRED"}]
<1>1. dialog[d].runs \subseteq Runs
  BY DialogFields
<1> QED BY <1>1 DEF CleanupTypeOK, Marked

LEMMA AnswerNotMovedKeeps ==
  ASSUME CleanupInv, NEW d \in Dialog, AnswerNotMoved(d)
  PROVE  CleanupInv'
<1> DEFINE x == [dialog[d] EXCEPT !.pc = "answered", !.moved = {}]
<1>0. CleanupTypeOK /\ DialogIsTrue(d)
  BY DEF CleanupInv
<1>1. /\ dialog[d].pc = "rollback" /\ dialog' = [dialog EXCEPT ![d] = x]
      /\ trail' = Appended("MOVE_FAILED", dialog[d].runs)
      /\ cleanupState' = Marked(dialog[d].runs, "RECOVERY_REQUIRED")
      /\ UNCHANGED <<place, damaged, cleanupFaults, cleanupCrashes>>
  BY DEF AnswerNotMoved, SetDialog, cleanupDisk
<1>2. dialog[d] \in DialogRecord /\ dialog[d].runs \subseteq Runs
  BY <1>0, DialogFields
<1>3. /\ x \in DialogRecord /\ x.runs = dialog[d].runs /\ x.moved = {} /\ x.pc = "answered"
  BY <1>2 DEF DialogRecord
<1> HIDE DEF x
<1>4. dialog'[d] = x
  BY <1>0, <1>1 DEF CleanupTypeOK
<1>5. /\ \A q \in dialog[d].runs : cleanupState'[q] = "RECOVERY_REQUIRED"
      /\ \A q \in Runs \ dialog[d].runs : cleanupState'[q] = cleanupState[q]
      /\ cleanupState' \in [Runs -> {"ACTIVE", "DELETING", "DELETED", "RECOVERY_REQUIRED"}]
  BY <1>0, <1>1, MarkedStates
<1>6. trail' \subseteq {"RUN_MOVED", "RUN_RESTORED", "MOVE_FAILED"} \X Runs
  BY <1>0, <1>1, <1>2 DEF CleanupTypeOK, Appended
<1>7. CleanupTypeOK'
  BY <1>0, <1>1, <1>3, <1>5, <1>6, DialogTypes DEF CleanupTypeOK
<1>8. DialogIsTrue(d)'
  BY <1>3, <1>4, <1>5 DEF DialogIsTrue, AnswerIsTrue, Executing
<1>9. dialog[d].pc \in Executing
  BY <1>1 DEF Executing
<1> QED BY <1>1, <1>3, <1>5, <1>7, <1>8, <1>9, ExecutionStepKeeps

LEMMA RemoveKeeps ==
  ASSUME CleanupInv, NEW d \in Dialog, Remove(d)
  PROVE  CleanupInv'
<1> DEFINE r == First(Unremoved(d))
           x == [dialog[d] EXCEPT !.removed = dialog[d].removed \cup {r}]
<1>0. CleanupTypeOK /\ DialogIsTrue(d)
  BY DEF CleanupInv
<1>1. /\ dialog[d].pc = "removing" /\ Unremoved(d) # {}
      /\ dialog' = [dialog EXCEPT ![d] = x]
      /\ place' = [place EXCEPT ![r] = "gone"]
      /\ UNCHANGED <<cleanupState, trail, damaged, cleanupFaults, cleanupCrashes>>
  BY DEF Remove, SetDialog
<1>2. /\ dialog[d] \in DialogRecord /\ dialog[d].runs \subseteq Runs /\ RemovingIsTrue(d)
      /\ Unremoved(d) \subseteq dialog[d].runs
  BY <1>0, <1>1, DialogFields DEF DialogIsTrue, Unremoved, RemovingIsTrue
<1>3. r \in dialog[d].runs
  BY <1>1, <1>2, FirstAndLast
<1> HIDE DEF r
<1>4. /\ x \in DialogRecord /\ x.runs = dialog[d].runs /\ x.moved = dialog[d].moved
      /\ x.removed = dialog[d].removed \cup {r} /\ x.restored = dialog[d].restored
      /\ x.refused = dialog[d].refused /\ x.pc = "removing"
  BY <1>1, <1>2, <1>3 DEF DialogRecord
<1> HIDE DEF x
<1>5. dialog'[d] = x
  BY <1>0, <1>1 DEF CleanupTypeOK
<1>6. /\ place' \in [Runs -> {"runs", "trash", "gone"}]
      /\ place'[r] = "gone" /\ \A q \in Runs \ {r} : place'[q] = place[q]
  BY <1>0, <1>1, <1>2, <1>3 DEF CleanupTypeOK
<1>7. CleanupTypeOK'
  BY <1>0, <1>1, <1>4, <1>6, DialogTypes DEF CleanupTypeOK
<1>8. \A q \in dialog[d].runs : cleanupState'[q] = "DELETING"
  BY <1>0, <1>1 DEF DialogIsTrue, Executing
<1>9. RemovingIsTrue(d)'
  BY <1>2, <1>3, <1>4, <1>5, <1>6 DEF RemovingIsTrue
<1>10. DialogIsTrue(d)'
  BY <1>4, <1>5, <1>8, <1>9 DEF DialogIsTrue
<1>11. dialog[d].pc \in Executing
  BY <1>1 DEF Executing
<1>12. \A q \in Runs \ dialog[d].runs : place'[q] = place[q]
  BY <1>3, <1>6
<1> QED BY <1>1, <1>4, <1>7, <1>8, <1>10, <1>11, <1>12, ExecutionStepKeeps

LEMMA RemoveFailsKeeps ==
  ASSUME CleanupInv, NEW d \in Dialog, RemoveFails(d)
  PROVE  CleanupInv'
<1> DEFINE r == First(Unremoved(d))
           x == [dialog[d] EXCEPT !.pc = "restoring", !.back = Unremoved(d)]
<1>0. CleanupTypeOK /\ DialogIsTrue(d)
  BY DEF CleanupInv
<1>1. /\ dialog[d].pc = "removing" /\ Unremoved(d) # {}
      /\ cleanupFaults < MaxCleanupFaults /\ cleanupFaults' = cleanupFaults + 1
      /\ dialog' = [dialog EXCEPT ![d] = x]
      /\ \E some \in BOOLEAN : damaged' = [damaged EXCEPT ![r] = some]
      /\ UNCHANGED <<cleanupState, trail, place, cleanupCrashes>>
  BY DEF RemoveFails, SetDialog
<1>2. /\ dialog[d] \in DialogRecord /\ dialog[d].runs \subseteq Runs /\ RemovingIsTrue(d)
      /\ Unremoved(d) = dialog[d].runs \ dialog[d].removed
  BY <1>0, <1>1, DialogFields DEF DialogIsTrue, Unremoved, RemovingIsTrue
<1>3. r \in dialog[d].runs
  BY <1>1, <1>2, FirstAndLast
<1> HIDE DEF r
<1>4. /\ x \in DialogRecord /\ x.runs = dialog[d].runs /\ x.moved = dialog[d].moved
      /\ x.removed = dialog[d].removed /\ x.restored = dialog[d].restored
      /\ x.refused = dialog[d].refused /\ x.pc = "restoring" /\ x.back = Unremoved(d)
  BY <1>1, <1>2 DEF DialogRecord
<1> HIDE DEF x
<1>5. dialog'[d] = x
  BY <1>0, <1>1 DEF CleanupTypeOK
<1>6. /\ damaged' \in [Runs -> BOOLEAN]
      /\ \A q \in Runs \ dialog[d].runs : damaged'[q] = damaged[q]
  BY <1>0, <1>1, <1>3 DEF CleanupTypeOK
<1>7. CleanupTypeOK'
  BY <1>0, <1>1, <1>4, <1>6, DialogTypes, FaultCounted DEF CleanupTypeOK
<1>8. \A q \in dialog[d].runs : cleanupState'[q] = "DELETING"
  BY <1>0, <1>1 DEF DialogIsTrue, Executing
<1>9. RestoringIsTrue(d)'
  BY <1>1, <1>2, <1>4, <1>5 DEF RemovingIsTrue, RestoringIsTrue
<1>10. DialogIsTrue(d)'
  BY <1>4, <1>5, <1>8, <1>9 DEF DialogIsTrue
<1>11. dialog[d].pc \in Executing
  BY <1>1 DEF Executing
<1> QED BY <1>1, <1>4, <1>6, <1>7, <1>8, <1>10, <1>11, ExecutionStepKeeps

LEMMA AnswerDeletedKeeps ==
  ASSUME CleanupInv, NEW d \in Dialog, AnswerDeleted(d)
  PROVE  CleanupInv'
<1> DEFINE a == [NoAnswer EXCEPT !.deleted = dialog[d].removed]
           x == [dialog[d] EXCEPT !.pc = "answered", !.answer = a]
<1>0. CleanupTypeOK /\ DialogIsTrue(d)
  BY DEF CleanupInv
<1>1. /\ dialog[d].pc = "removing" /\ Unremoved(d) = {}
      /\ dialog' = [dialog EXCEPT ![d] = x]
      /\ cleanupState' = Marked(dialog[d].runs, "DELETED")
      /\ UNCHANGED <<trail, place, damaged, cleanupFaults, cleanupCrashes>>
  BY DEF AnswerDeleted, SetDialog, cleanupDisk
<1>2. /\ dialog[d] \in DialogRecord /\ dialog[d].runs \subseteq Runs
      /\ dialog[d].removed \subseteq Runs /\ RemovingIsTrue(d)
      /\ dialog[d].removed = dialog[d].runs
  BY <1>0, <1>1, DialogFields DEF DialogIsTrue, Unremoved, RemovingIsTrue
<1>3. /\ a \in [deleted : SUBSET Runs, restored : SUBSET Runs, unresolved : SUBSET Runs]
      /\ a.deleted = dialog[d].runs /\ a.restored = {} /\ a.unresolved = {}
  BY <1>2 DEF NoAnswer
<1> HIDE DEF a
<1>4. /\ x \in DialogRecord /\ x.runs = dialog[d].runs /\ x.moved = dialog[d].moved
      /\ x.answer = a /\ x.pc = "answered"
  BY <1>2, <1>3 DEF DialogRecord
<1> HIDE DEF x
<1>5. dialog'[d] = x
  BY <1>0, <1>1 DEF CleanupTypeOK
<1>6. /\ \A q \in dialog[d].runs : cleanupState'[q] = "DELETED"
      /\ \A q \in Runs \ dialog[d].runs : cleanupState'[q] = cleanupState[q]
      /\ cleanupState' \in [Runs -> {"ACTIVE", "DELETING", "DELETED", "RECOVERY_REQUIRED"}]
  BY <1>0, <1>1, MarkedStates
<1>7. CleanupTypeOK'
  BY <1>0, <1>1, <1>4, <1>6, DialogTypes DEF CleanupTypeOK
<1>8. \A q \in dialog[d].runs : place'[q] = "gone"
  BY <1>1, <1>2 DEF RemovingIsTrue
<1>9. AnswerIsTrue(d)'
  BY <1>3, <1>4, <1>5, <1>8 DEF AnswerIsTrue
<1>10. DialogIsTrue(d)'
  BY <1>4, <1>5, <1>6, <1>9 DEF DialogIsTrue, Executing
<1>11. dialog[d].pc \in Executing
  BY <1>1 DEF Executing
<1> QED BY <1>1, <1>4, <1>6, <1>7, <1>8, <1>10, <1>11, ExecutionStepKeeps

LEMMA RestoreKeeps ==
  ASSUME CleanupInv, NEW d \in Dialog, Restore(d)
  PROVE  CleanupInv'
<1> DEFINE r    == Last(dialog[d].back)
           back == dialog[d].back \ {r}
           y    == [dialog[d] EXCEPT !.back = back, !.restored = dialog[d].restored \cup {r}]
           z    == [dialog[d] EXCEPT !.back = back, !.refused = TRUE]
<1>0. CleanupTypeOK /\ DialogIsTrue(d)
  BY DEF CleanupInv
<1>1. /\ dialog[d].pc = "restoring" /\ dialog[d].back # {}
      /\ \/ /\ place' = [place EXCEPT ![r] = "runs"]
            /\ dialog' = [dialog EXCEPT ![d] = y]
            /\ UNCHANGED cleanupFaults
         \/ /\ cleanupFaults < MaxCleanupFaults /\ cleanupFaults' = cleanupFaults + 1
            /\ dialog' = [dialog EXCEPT ![d] = z]
            /\ UNCHANGED place
      /\ UNCHANGED <<cleanupState, trail, damaged, cleanupCrashes>>
  BY DEF Restore, SetDialog
<1>2. /\ dialog[d] \in DialogRecord /\ dialog[d].runs \subseteq Runs
      /\ dialog[d].back \subseteq Runs /\ dialog[d].restored \subseteq Runs
      /\ RestoringIsTrue(d)
  BY <1>0, <1>1, DialogFields DEF DialogIsTrue
<1>3. r \in dialog[d].back /\ r \in dialog[d].runs /\ r \notin dialog[d].removed
  BY <1>1, <1>2, FirstAndLast DEF RestoringIsTrue
<1> HIDE DEF r
<1>4. /\ y \in DialogRecord /\ y.runs = dialog[d].runs /\ y.moved = dialog[d].moved
      /\ y.removed = dialog[d].removed /\ y.restored = dialog[d].restored \cup {r}
      /\ y.back = back /\ y.refused = dialog[d].refused /\ y.pc = "restoring"
  BY <1>1, <1>2, <1>3 DEF DialogRecord
<1>5. /\ z \in DialogRecord /\ z.runs = dialog[d].runs /\ z.moved = dialog[d].moved
      /\ z.removed = dialog[d].removed /\ z.restored = dialog[d].restored
      /\ z.back = back /\ z.refused = TRUE /\ z.pc = "restoring"
  BY <1>1, <1>2 DEF DialogRecord
<1> HIDE DEF y, z
<1>6. \A q \in dialog[d].runs : cleanupState'[q] = "DELETING"
  BY <1>0, <1>1 DEF DialogIsTrue, Executing
<1>7. dialog[d].pc \in Executing
  BY <1>1 DEF Executing
<1>8. CASE /\ place' = [place EXCEPT ![r] = "runs"]
           /\ dialog' = [dialog EXCEPT ![d] = y]
           /\ UNCHANGED cleanupFaults
  <2>1. dialog'[d] = y
    BY <1>0, <1>8 DEF CleanupTypeOK
  <2>2. /\ place' \in [Runs -> {"runs", "trash", "gone"}]
        /\ place'[r] = "runs" /\ \A q \in Runs \ {r} : place'[q] = place[q]
    BY <1>0, <1>2, <1>3, <1>8 DEF CleanupTypeOK
  <2>3. CleanupTypeOK'
    BY <1>0, <1>1, <1>4, <1>8, <2>2, DialogTypes DEF CleanupTypeOK
  <2>4. RestoringIsTrue(d)'
    BY <1>2, <1>3, <1>4, <2>1, <2>2 DEF RestoringIsTrue
  <2>5. DialogIsTrue(d)'
    BY <1>4, <1>6, <2>1, <2>4 DEF DialogIsTrue
  <2>6. \A q \in Runs \ dialog[d].runs : place'[q] = place[q]
    BY <1>3, <2>2
  <2> QED BY <1>1, <1>4, <1>6, <1>7, <1>8, <2>3, <2>5, <2>6, ExecutionStepKeeps
<1>9. CASE /\ cleanupFaults < MaxCleanupFaults /\ cleanupFaults' = cleanupFaults + 1
           /\ dialog' = [dialog EXCEPT ![d] = z]
           /\ UNCHANGED place
  <2>1. dialog'[d] = z
    BY <1>0, <1>9 DEF CleanupTypeOK
  <2>2. CleanupTypeOK'
    BY <1>0, <1>1, <1>5, <1>9, DialogTypes, FaultCounted DEF CleanupTypeOK
  <2>3. RestoringIsTrue(d)'
    BY <1>2, <1>3, <1>5, <1>9, <2>1 DEF RestoringIsTrue
  <2>4. DialogIsTrue(d)'
    BY <1>5, <1>6, <2>1, <2>3 DEF DialogIsTrue
  <2> QED BY <1>1, <1>5, <1>6, <1>7, <1>9, <2>2, <2>4, ExecutionStepKeeps
<1> QED BY <1>1, <1>8, <1>9

(* The answer of a failed removal: what is restored is back, what is       *)
(* unresolved covers all that is left in the trash.                        *)
LEMMA AnswerRestoredKeeps ==
  ASSUME CleanupInv, NEW d \in Dialog, AnswerRestored(d)
  PROVE  CleanupInv'
<1> DEFINE a == Outcome(d)
           x == [dialog[d] EXCEPT !.pc = "answered", !.answer = a]
<1>0. CleanupTypeOK /\ DialogIsTrue(d)
  BY DEF CleanupInv
<1>1. /\ dialog[d].pc = "restoring" /\ dialog[d].back = {}
      /\ dialog' = [dialog EXCEPT ![d] = x]
      /\ trail' = Appended("RUN_RESTORED", a.restored)
      /\ cleanupState' = Marked(dialog[d].runs, "RECOVERY_REQUIRED")
      /\ UNCHANGED <<place, damaged, cleanupFaults, cleanupCrashes>>
  BY DEF AnswerRestored, SetDialog, cleanupDisk
<1>2. /\ dialog[d] \in DialogRecord /\ dialog[d].runs \subseteq Runs
      /\ dialog[d].removed \subseteq Runs /\ dialog[d].restored \subseteq Runs
      /\ dialog[d].refused \in BOOLEAN /\ RestoringIsTrue(d)
      /\ Unremoved(d) = dialog[d].runs \ dialog[d].removed
  BY <1>0, <1>1, DialogFields DEF DialogIsTrue, Unremoved, RestoringIsTrue
<1>3. /\ a.deleted = dialog[d].removed
      /\ a.restored = IF dialog[d].refused THEN {} ELSE dialog[d].restored
      /\ a.unresolved = IF dialog[d].refused THEN Unremoved(d)
                        ELSE Unremoved(d) \ dialog[d].restored
      /\ a \in [deleted : SUBSET Runs, restored : SUBSET Runs, unresolved : SUBSET Runs]
  BY <1>2 DEF Outcome
<1> HIDE DEF a
<1>4. /\ x \in DialogRecord /\ x.runs = dialog[d].runs /\ x.moved = dialog[d].moved
      /\ x.answer = a /\ x.pc = "answered"
  BY <1>2, <1>3 DEF DialogRecord
<1> HIDE DEF x
<1>5. dialog'[d] = x
  BY <1>0, <1>1 DEF CleanupTypeOK
<1>6. /\ \A q \in dialog[d].runs : cleanupState'[q] = "RECOVERY_REQUIRED"
      /\ \A q \in Runs \ dialog[d].runs : cleanupState'[q] = cleanupState[q]
      /\ cleanupState' \in [Runs -> {"ACTIVE", "DELETING", "DELETED", "RECOVERY_REQUIRED"}]
  BY <1>0, <1>1, MarkedStates
<1>7. trail' \subseteq {"RUN_MOVED", "RUN_RESTORED", "MOVE_FAILED"} \X Runs
  BY <1>0, <1>1, <1>2, <1>3 DEF CleanupTypeOK, Appended
<1>8. CleanupTypeOK'
  BY <1>0, <1>1, <1>4, <1>6, <1>7, DialogTypes DEF CleanupTypeOK
<1>9. ASSUME NEW q \in dialog[d].runs
      PROVE  /\ place[q] = "gone" <=> q \in a.deleted
             /\ place[q] = "trash" => q \in a.unresolved
             /\ q \in a.restored => place[q] = "runs"
  BY <1>1, <1>2, <1>3 DEF RestoringIsTrue
<1>10. AnswerIsTrue(d)'
  BY <1>1, <1>4, <1>5, <1>9 DEF AnswerIsTrue
<1>11. DialogIsTrue(d)'
  BY <1>4, <1>5, <1>6, <1>10 DEF DialogIsTrue, Executing
<1>12. dialog[d].pc \in Executing
  BY <1>1 DEF Executing
<1> QED BY <1>1, <1>4, <1>6, <1>8, <1>11, <1>12, ExecutionStepKeeps

(* A step of a dialog whose cleanup is not under way touches no run.       *)
LEMMA DialogStepKeeps ==
  ASSUME CleanupInv, NEW d \in Dialog, NEW x \in DialogRecord,
         x.pc \in {"closed", "open"}, dialog' = [dialog EXCEPT ![d] = x],
         x.pc = "open" => /\ x.runs # {} /\ x.moved = {} /\ x.removed = {}
                          /\ x.restored = {} /\ ~ x.refused,
         UNCHANGED <<cleanupState, trail, place, damaged, cleanupFaults, cleanupCrashes>>
  PROVE  CleanupInv'
<1>0. CleanupTypeOK /\ dialog'[d] = x /\ \A e \in Dialog \ {d} : dialog'[e] = dialog[e]
  BY DEF CleanupInv, CleanupTypeOK
<1>1. CleanupTypeOK'
  BY <1>0, DialogTypes DEF CleanupTypeOK
<1>2. StateTellsThePlace'
  BY DEF CleanupInv, StateTellsThePlace
<1>3. OneCleanupPerRun'
  BY <1>0 DEF CleanupInv, OneCleanupPerRun, Executing
<1>4. DialogIsTrue(d)'
  BY <1>0 DEF DialogIsTrue, OpenIsFresh, Executing
<1>5. \A e \in Dialog \ {d} : DialogIsTrue(e)'
  BY <1>0, DialogUndisturbed DEF CleanupInv
<1> QED BY <1>1, <1>2, <1>3, <1>4, <1>5 DEF CleanupInv

LEMMA OperatorKeeps ==
  ASSUME CleanupInv, NEW d \in Dialog,
         Select(d) \/ Confirm(d) \/ Expire(d) \/ Close(d)
  PROVE  CleanupInv'
<1>0. CleanupTypeOK /\ dialog[d] \in DialogRecord /\ DialogIsTrue(d)
  BY DialogFields DEF CleanupInv
<1>1. CASE Select(d)
  <2>1. PICK chosen \in (SUBSET Runs) \ {{}} :
          dialog' = [dialog EXCEPT ![d] = [Closed EXCEPT !.pc = "open", !.runs = chosen]]
    BY <1>1 DEF Select, SetDialog, Candidates
  <2> DEFINE x == [Closed EXCEPT !.pc = "open", !.runs = chosen]
  <2>2. /\ x \in DialogRecord /\ x.pc = "open" /\ x.runs # {} /\ x.moved = {}
        /\ x.removed = {} /\ x.restored = {} /\ ~ x.refused
    BY ClosedFields DEF DialogRecord
  <2> HIDE DEF x
  <2>3. dialog' = [dialog EXCEPT ![d] = x]
    BY <2>1 DEF x
  <2> QED BY <1>1, <2>2, <2>3, DialogStepKeeps DEF Select, cleanupDisk
<1>2. CASE Confirm(d) \/ Expire(d)
  <2>1. PICK n \in {"none", "fresh"} :
          dialog' = [dialog EXCEPT ![d] = [dialog[d] EXCEPT !.nonce = n]]
    BY <1>2 DEF Confirm, Expire, SetDialog, Issued
  <2> DEFINE x == [dialog[d] EXCEPT !.nonce = n]
  <2>2. dialog[d].pc = "open" /\ OpenIsFresh(d)
    BY <1>0, <1>2 DEF Confirm, Expire, DialogIsTrue
  <2>3. /\ x \in DialogRecord /\ x.pc = "open" /\ x.runs # {} /\ x.moved = {}
        /\ x.removed = {} /\ x.restored = {} /\ ~ x.refused
    BY <1>0, <2>2 DEF DialogRecord, OpenIsFresh
  <2> HIDE DEF x
  <2>4. dialog' = [dialog EXCEPT ![d] = x]
    BY <2>1 DEF x
  <2> QED BY <1>2, <2>3, <2>4, DialogStepKeeps DEF Confirm, Expire, cleanupDisk
<1>3. CASE Close(d)
  BY <1>3, ClosedFields, DialogStepKeeps DEF Close, SetDialog, cleanupDisk
<1> QED BY <1>1, <1>2, <1>3

(* The one transaction that takes runs: all of them were ACTIVE, hence in  *)
(* their place, and in no other execution or answer.                       *)
LEMMA ExecuteKeeps ==
  ASSUME CleanupInv, NEW d \in Dialog, Execute(d)
  PROVE  CleanupInv'
<1>0. /\ CleanupTypeOK /\ dialog[d] \in DialogRecord /\ DialogIsTrue(d)
      /\ dialog[d].runs \subseteq Runs
  BY DialogFields DEF CleanupInv
<1>1. dialog[d].pc = "open" /\ OpenIsFresh(d)
  BY <1>0 DEF Execute, DialogIsTrue
<1>2. CASE ~ MayBeMarked(dialog[d].runs)
  <2> DEFINE x == [dialog[d] EXCEPT !.nonce = "none"]
  <2>1. /\ x \in DialogRecord /\ x.pc = "open" /\ x.runs # {} /\ x.moved = {}
        /\ x.removed = {} /\ x.restored = {} /\ ~ x.refused
    BY <1>0, <1>1 DEF DialogRecord, OpenIsFresh
  <2>2. /\ dialog' = [dialog EXCEPT ![d] = x]
        /\ UNCHANGED <<cleanupState, trail, place, damaged, cleanupFaults, cleanupCrashes>>
    BY <1>2 DEF Execute, SetDialog, cleanupDisk
  <2> HIDE DEF x
  <2> QED BY <2>1, <2>2, DialogStepKeeps
<1>3. CASE MayBeMarked(dialog[d].runs)
  <2> DEFINE x == [dialog[d] EXCEPT !.nonce = "none", !.pc = "moving"]
  <2>1. /\ x \in DialogRecord /\ x.pc = "moving" /\ x.runs = dialog[d].runs
        /\ x.runs # {} /\ x.moved = {} /\ x.removed = {} /\ x.restored = {} /\ ~ x.refused
    BY <1>0, <1>1 DEF DialogRecord, OpenIsFresh
  <2>2. /\ dialog' = [dialog EXCEPT ![d] = x]
        /\ cleanupState' = Marked(dialog[d].runs, "DELETING")
        /\ UNCHANGED <<trail, place, damaged, cleanupFaults, cleanupCrashes>>
    BY <1>3 DEF Execute, SetDialog, cleanupDisk
  <2> HIDE DEF x
  <2>3. /\ \A q \in dialog[d].runs : cleanupState'[q] = "DELETING"
        /\ \A q \in Runs \ dialog[d].runs : cleanupState'[q] = cleanupState[q]
        /\ cleanupState' \in [Runs -> {"ACTIVE", "DELETING", "DELETED", "RECOVERY_REQUIRED"}]
    BY <1>0, <2>2, MarkedStates
  <2>4. dialog'[d] = x /\ \A e \in Dialog \ {d} : dialog'[e] = dialog[e]
    BY <1>0, <2>2 DEF CleanupTypeOK
  <2>5. CleanupTypeOK'
    BY <1>0, <2>1, <2>2, <2>3, DialogTypes DEF CleanupTypeOK
  <2>6. \A r \in dialog[d].runs : cleanupState[r] = "ACTIVE" /\ place[r] = "runs"
    BY <1>0, <1>3 DEF MayBeMarked, CleanupInv, StateTellsThePlace
  <2>7. MovingIsTrue(d)'
    BY <2>1, <2>2, <2>4, <2>6 DEF MovingIsTrue
  <2>8. DialogIsTrue(d)'
    BY <2>1, <2>3, <2>4, <2>7 DEF DialogIsTrue
  <2>9. ASSUME NEW e \in Dialog \ {d}, dialog[e].pc \in Executing \cup {"answered"}
        PROVE  dialog[e].runs \cap dialog[d].runs = {}
    BY <2>6, <2>9 DEF CleanupInv, DialogIsTrue
  <2>10. ASSUME NEW e \in Dialog \ {d}  PROVE  DialogIsTrue(e)'
    <3>1. DialogIsTrue(e) /\ dialog[e].runs \subseteq Runs
      BY DialogFields DEF CleanupInv
    <3> QED BY <2>2, <2>3, <2>4, <2>9, <3>1, DialogUndisturbed
  <2>11. OneCleanupPerRun'
    BY <2>1, <2>4, <2>9 DEF CleanupInv, OneCleanupPerRun
  <2>12. StateTellsThePlace'
    BY <1>0, <2>2, <2>3 DEF CleanupInv, StateTellsThePlace
  <2> QED BY <2>5, <2>8, <2>10, <2>11, <2>12 DEF CleanupInv
<1> QED BY <1>2, <1>3

(* The server goes down: executions are lost, and no row or directory      *)
(* changes.                                                                *)
LEMMA CleanupRestartKeeps ==
  ASSUME CleanupInv, CleanupRestart
  PROVE  CleanupInv'
<1> DEFINE lost == [Closed EXCEPT !.pc = "lost"]
<1>0. CleanupTypeOK
  BY DEF CleanupInv
<1>1. lost \in DialogRecord /\ lost.pc = "lost"
  BY ClosedFields DEF DialogRecord
<1>2. /\ dialog' = [d \in Dialog |-> IF dialog[d].pc \in Executing THEN lost ELSE dialog[d]]
      /\ cleanupCrashes < MaxCleanupCrashes /\ cleanupCrashes' = cleanupCrashes + 1
      /\ UNCHANGED <<cleanupState, trail, place, damaged, cleanupFaults>>
  BY DEF CleanupRestart, cleanupDisk
<1> HIDE DEF lost
<1>3. dialog' \in [Dialog -> DialogRecord]
  BY <1>0, <1>1, <1>2 DEF CleanupTypeOK, DialogRecord
<1>4. cleanupCrashes' \in 0..MaxCleanupCrashes
  BY <1>0, <1>2, EvidenceCleanupAssumption DEF CleanupTypeOK
<1>5. CleanupTypeOK'
  BY <1>0, <1>2, <1>3, <1>4 DEF CleanupTypeOK, DialogRecord
<1>6. StateTellsThePlace'
  BY <1>2 DEF CleanupInv, StateTellsThePlace
<1>7. ASSUME NEW d \in Dialog  PROVE  DialogIsTrue(d)' /\ dialog'[d].pc \notin Executing
  <2>1. CASE dialog[d].pc \in Executing
    BY <1>1, <1>2, <2>1 DEF DialogIsTrue, Executing
  <2>2. CASE dialog[d].pc \notin Executing
    BY <1>2, <2>2, DialogUndisturbed DEF CleanupInv
  <2> QED BY <2>1, <2>2
<1>8. OneCleanupPerRun'
  BY <1>7 DEF OneCleanupPerRun
<1> QED BY <1>5, <1>6, <1>7, <1>8 DEF CleanupInv

LEMMA CleanupNextHolds == CleanupInv /\ [CleanupNext]_cleanupVars => CleanupInv'
<1> SUFFICES ASSUME CleanupInv, [CleanupNext]_cleanupVars PROVE CleanupInv'
  OBVIOUS
<1>1. ASSUME NEW d \in Dialog, Advance(d)  PROVE  CleanupInv'
  BY <1>1, MoveKeeps, MoveFailsKeeps, UndoKeeps, AnswerNotMovedKeeps, RemoveKeeps,
     RemoveFailsKeeps, AnswerDeletedKeeps, RestoreKeeps, AnswerRestoredKeeps DEF Advance
<1>2. ASSUME NEW d \in Dialog, Select(d) \/ Confirm(d) \/ Expire(d) \/ Close(d) \/ Execute(d)
      PROVE  CleanupInv'
  BY <1>2, OperatorKeeps, ExecuteKeeps
<1>3. CASE CleanupRestart
  BY <1>3, CleanupRestartKeeps
<1>4. CASE UNCHANGED cleanupVars
  <2>1. UNCHANGED <<cleanupState, trail, place, damaged, dialog, cleanupFaults, cleanupCrashes>>
    BY <1>4 DEF cleanupVars, cleanupDisk
  <2>2. CleanupTypeOK' /\ StateTellsThePlace' /\ OneCleanupPerRun'
    BY <2>1 DEF CleanupInv, CleanupTypeOK, StateTellsThePlace, OneCleanupPerRun
  <2>3. \A d \in Dialog : DialogIsTrue(d)'
    BY <2>1, DialogUndisturbed DEF CleanupInv
  <2> QED BY <2>2, <2>3 DEF CleanupInv
<1> QED BY <1>1, <1>2, <1>3, <1>4 DEF CleanupNext

(* The database and the answers tell where the files of every run are, at  *)
(* every await of any number of executions, whichever file operations fail *)
(* and whenever the server goes down; and no two executions have a run in  *)
(* common (cleanup-execution-service.ts, cleanup-trash-mover.ts).          *)
THEOREM CleanupHolds == CleanupSpec => []CleanupIsTrue
<1>1. CleanupSpec => []CleanupInv
  BY CleanupInitHolds, CleanupNextHolds, PTL DEF CleanupSpec
<1>2. CleanupInv => CleanupIsTrue
  BY DEF CleanupInv, CleanupIsTrue, AnswerNamesWhatIsLost, DialogIsTrue, AnswerIsTrue
<1> QED BY <1>1, <1>2, PTL
-----------------------------------------------------------------------------
(* The polling of free space.                                              *)

(* The starts that wait for a sample are some of those there were.         *)
PollInv ==
  /\ PollTypeOK /\ OneIntervalWhileRunning
  /\ starts \in 0..MaxStarts /\ starting \subseteq 1..starts

LEMMA PollInitHolds == PollInit => PollInv
<1> SUFFICES ASSUME PollInit PROVE PollInv
  OBVIOUS
<1>1. PollTypeOK
  <2>1. {running, inFlight, asking} \subseteq BOOLEAN
    BY Zenon DEF PollInit
  <2>2. /\ interval \in 0..MaxStarts /\ ticking \subseteq 1..MaxStarts
        /\ starting \subseteq 1..MaxStarts
    BY StoragePollingAssumption DEF PollInit
  <2> QED BY <2>1, <2>2 DEF PollInit, PollTypeOK
<1>2. OneIntervalWhileRunning /\ starts \in 0..MaxStarts /\ starting \subseteq 1..starts
  BY StoragePollingAssumption DEF PollInit, OneIntervalWhileRunning
<1> QED BY <1>1, <1>2 DEF PollInv

(* The sample of the poller, or of a request, is one of three pressures.   *)
LEMMA SampledTypes ==
  ASSUME Sampled
  PROVE  latest' \in {"NORMAL", "WARNING", "BLOCKED"}
BY DEF Sampled, Classified

(* PollInv by conjuncts, the form in which steps are shown to keep it.     *)
LEMMA PollConjuncts ==
  PollInv <=> /\ running \in BOOLEAN /\ inFlight \in BOOLEAN
              /\ asking \in BOOLEAN
              /\ latest \in {"none", "NORMAL", "WARNING", "BLOCKED"}
              /\ starts \in Nat /\ starts <= MaxStarts /\ starting \subseteq 1..starts
              /\ interval \in Nat /\ interval <= MaxStarts
              /\ ticking = IF interval = 0 THEN {} ELSE {interval}
              /\ interval # 0 => running
<1>1. starts \in Nat /\ starts <= MaxStarts /\ starting \subseteq 1..starts
      => starting \subseteq 1..MaxStarts
  BY StoragePollingAssumption
<1>2. interval \in 0..MaxStarts /\ ticking = (IF interval = 0 THEN {} ELSE {interval})
      => ticking \subseteq 1..MaxStarts
  BY StoragePollingAssumption
<1>3. /\ interval \in 0..MaxStarts <=> interval \in Nat /\ interval <= MaxStarts
      /\ starts \in 0..MaxStarts <=> starts \in Nat /\ starts <= MaxStarts
  BY StoragePollingAssumption
<1> QED BY <1>1, <1>2, <1>3 DEF PollInv, PollTypeOK, OneIntervalWhileRunning

LEMMA PollNextHolds == PollInv /\ [PollNext]_pollVars => PollInv'
<1> SUFFICES ASSUME PollInv, [PollNext]_pollVars PROVE PollInv'
  OBVIOUS
<1> DEFINE Flags == /\ running \in BOOLEAN /\ inFlight \in BOOLEAN
                    /\ asking \in BOOLEAN
                    /\ latest \in {"none", "NORMAL", "WARNING", "BLOCKED"}
           Started == starts \in Nat /\ starts <= MaxStarts /\ starting \subseteq 1..starts
           Interval == /\ interval \in Nat /\ interval <= MaxStarts
                       /\ ticking = IF interval = 0 THEN {} ELSE {interval}
                       /\ interval # 0 => running
<1>0. Flags /\ Started /\ Interval
  BY PollConjuncts
<1> SUFFICES Flags' /\ Started' /\ Interval'
  BY PollConjuncts, PTL
<1>1. CASE StartPolling
  <2>1. Flags' /\ Interval'
    BY <1>0, <1>1 DEF StartPolling
  <2>2. starts' = starts + 1 /\ starts < MaxStarts
        /\ starting' \subseteq starting \cup {starts + 1}
    BY <1>1 DEF StartPolling
  <2>3. Started'
    BY <1>0, <2>2, StoragePollingAssumption
  <2> QED BY <2>1, <2>3
<1>2. CASE StopPolling
  <2>1. Flags' /\ Started'
    BY <1>0, <1>2 DEF StopPolling
  <2>2. interval' = 0 /\ ticking' = ticking \ {interval}
    BY <1>2 DEF StopPolling
  <2>3. Interval'
    BY <1>0, <2>2, StoragePollingAssumption
  <2> QED BY <2>1, <2>3
<1>3. CASE Tick
  BY <1>0, <1>3 DEF Tick
<1>4. CASE SampleEnds
  <2> DEFINE n == CHOOSE s \in starting : TRUE
  <2>1. /\ latest' \in {"NORMAL", "WARNING", "BLOCKED"}
        /\ inFlight' = FALSE /\ starting' = {}
        /\ UNCHANGED <<running, starts, asking>>
    BY <1>4, SampledTypes DEF SampleEnds
  <2>2. Flags' /\ Started'
    BY <1>0, <2>1
  <2>3. CASE starting = {} \/ ~ running \/ interval # 0
    <3>1. ticking' = ticking /\ interval' = interval
      BY <1>4, <2>3 DEF SampleEnds, IntervalsSet
    <3> QED BY <1>0, <2>1, <2>2, <3>1
  <2>4. CASE starting # {} /\ running /\ interval = 0
    <3>1. ticking' = ticking \cup {n} /\ interval' = n
      BY <1>4, <2>4 DEF SampleEnds, IntervalsSet
    <3>2. n \in starting
      BY <2>4
    <3> HIDE DEF n
    <3>3. n \in Nat /\ n # 0 /\ n <= MaxStarts
      BY <1>0, <3>2, StoragePollingAssumption
    <3>4. ticking' = {n} /\ running'
      BY <1>0, <2>1, <2>4, <3>1
    <3> QED BY <2>2, <3>1, <3>3, <3>4
  <2> QED BY <2>3, <2>4
<1>5. CASE AskOverview
  BY <1>0, <1>5 DEF AskOverview
<1>6. CASE AnswerOverview
  BY <1>0, <1>6, SampledTypes DEF AnswerOverview
<1>7. CASE UNCHANGED pollVars
  BY <1>0, <1>7 DEF pollVars
<1> QED BY <1>1, <1>2, <1>3, <1>4, <1>5, <1>6, <1>7 DEF PollNext

(* However start, stop, restart and samples overlap, and for any number of *)
(* starts, the only interval alive is the one stop would clear, and there  *)
(* is none while the poller is stopped (storage-pressure-poller.ts).       *)
THEOREM IntervalsHold == PollSpec => [](PollTypeOK /\ OneIntervalWhileRunning)
<1>1. PollSpec => []PollInv
  BY PollInitHolds, PollNextHolds, PTL DEF PollSpec
<1>2. PollInv => PollTypeOK /\ OneIntervalWhileRunning
  BY DEF PollInv
<1> QED BY <1>1, <1>2, PTL
-----------------------------------------------------------------------------
(* The rows of a report.                                                   *)

(* What the writers keep true of the rows that the reader checks; a        *)
(* recovery is of an incident, and has an error once it has FAILED only.   *)
SnapshotInv ==
  /\ SnapshotTypeOK /\ RefusedForABlankText
  /\ \A m, n \in DOMAIN rows : rows[m].role = "LEADER" /\ rows[n].role = "LEADER" => m = n
  /\ actionRows \in Seq([type : {"tap", "swipe"}, state : {"QUEUED", "CANCELLED"}])
  /\ NormalEvidence
  /\ \A f \in FaultId :
       /\ attemptRow[f].status # "none" => incidentRow[f] # "none"
       /\ attemptRow[f].error # "none" => attemptRow[f].status = "FAILED"

LEMMA SnapshotInitHolds == SnapshotInit => SnapshotInv
<1> SUFFICES ASSUME SnapshotInit PROVE SnapshotInv
  OBVIOUS
<1>1. SnapshotTypeOK
  BY ReportSnapshotAssumption
     DEF SnapshotInit, SnapshotTypeOK, Reportable, Text, NoAttempt, None
<1>2. RefusedForABlankText
  BY DEF SnapshotInit, RefusedForABlankText, None, Refused
<1>3. \A m, n \in DOMAIN rows : rows[m].role = "LEADER" /\ rows[n].role = "LEADER" => m = n
  BY DEF SnapshotInit, Row
<1>4. actionRows \in Seq([type : {"tap", "swipe"}, state : {"QUEUED", "CANCELLED"}])
  BY DEF SnapshotInit
<1>5. NormalEvidence
  BY DEF SnapshotInit, NormalEvidence, NoVideo
<1>6. \A f \in FaultId : attemptRow[f].status = "none" /\ attemptRow[f].error = "none"
  BY DEF SnapshotInit, NoAttempt
<1> QED BY <1>1, <1>2, <1>3, <1>4, <1>5, <1>6 DEF SnapshotInv

(* Pausing, resuming, promoting and completing.                            *)
LEMMA RunRowsKeep ==
  ASSUME SnapshotInv,
         PauseRun \/ ResumeRun \/ (\E m \in Member : PromoteMember(m))
         \/ \E end \in Reportable : CompleteRun(end)
  PROVE  SnapshotInv'
<1> DEFINE Action == [type : {"tap", "swipe"}, state : {"QUEUED", "CANCELLED"}]
           OneLeader == \A m, n \in DOMAIN rows :
                          rows[m].role = "LEADER" /\ rows[n].role = "LEADER" => m = n
<1>1. UNCHANGED <<incidentRow, attemptRow, videoRow, snapshot>>
  BY DEF PauseRun, ResumeRun, PromoteMember, CompleteRun, OpenEpoch
<1>2. RefusedForABlankText' /\ NormalEvidence'
  BY <1>1 DEF SnapshotInv, RefusedForABlankText, NormalEvidence
<1>3. OneLeader' /\ DOMAIN rows' \subseteq Member
  <2>1. CASE PauseRun \/ \E end \in Reportable : CompleteRun(end)
    BY <2>1 DEF PauseRun, CompleteRun, SnapshotInv, SnapshotTypeOK
  <2>2. ASSUME NEW role, OpenEpoch(role),
               \A m, n \in Remaining : role[m] = "LEADER" /\ role[n] = "LEADER" => m = n
        PROVE  OneLeader' /\ DOMAIN rows' \subseteq Member
    <3>1. rows' = [m \in Remaining |-> Row(role[m], "ACTIVE")]
      BY <2>2 DEF OpenEpoch
    <3>2. Remaining \subseteq DOMAIN rows
      BY DEF Remaining
    <3> QED BY <2>2, <3>1, <3>2 DEF Row, SnapshotInv, SnapshotTypeOK
  <2>3. CASE ResumeRun
    <3> DEFINE role == [m \in Remaining |-> rows[m].role]
    <3>1. OpenEpoch(role)
      BY <2>3 DEF ResumeRun
    <3>2. \A m, n \in Remaining : role[m] = "LEADER" /\ role[n] = "LEADER" => m = n
      BY DEF Remaining, SnapshotInv
    <3> HIDE DEF role
    <3> QED BY <2>2, <3>1, <3>2
  <2>4. ASSUME NEW l \in Member, PromoteMember(l)
        PROVE  OneLeader' /\ DOMAIN rows' \subseteq Member
    <3> DEFINE role == [m \in Remaining |-> PromotedRole(m, l)]
    <3>1. OpenEpoch(role)
      BY <2>4 DEF PromoteMember
    <3>2. \A m, n \in Remaining : role[m] = "LEADER" /\ role[n] = "LEADER" => m = n
      BY DEF PromotedRole
    <3> HIDE DEF role
    <3> QED BY <2>2, <3>1, <3>2
  <2> QED BY <2>1, <2>3, <2>4
<1>4. actionRows' \in Seq(Action)
  <2>1. CASE UNCHANGED actionRows
    BY <2>1 DEF SnapshotInv
  <2>2. CASE actionRows' = [i \in DOMAIN actionRows |->
                              IF actionRows[i].state = "QUEUED"
                              THEN [actionRows[i] EXCEPT !.state = "CANCELLED"] ELSE actionRows[i]]
    <3>1. actionRows \in Seq(Action)
      BY DEF SnapshotInv
    <3>2. ASSUME NEW a \in Action  PROVE  [a EXCEPT !.state = "CANCELLED"] \in Action
      BY <3>2 DEF Action
    <3>3. \A i \in DOMAIN actionRows : actionRows[i] \in Action
      <4> HIDE DEF Action
      <4> QED BY <3>1
    <3>4. \A i \in DOMAIN actionRows : actionRows'[i] \in Action
      BY <2>2, <3>2, <3>3
    <3> HIDE DEF Action
    <3>5. Len(actionRows) \in Nat /\ DOMAIN actionRows = 1..Len(actionRows)
      BY <3>1
    <3>6. actionRows' \in [1..Len(actionRows) -> Action]
      BY <2>2, <3>4, <3>5
    <3> QED BY <3>5, <3>6
  <2> QED BY <2>1, <2>2 DEF PauseRun, ResumeRun, PromoteMember, CompleteRun, OpenEpoch
<1>5. runRow' \in Reportable \cup {"RUNNING", "PAUSED"} /\ opened' \in 0..MaxEpochs
  BY ReportSnapshotAssumption
     DEF PauseRun, ResumeRun, PromoteMember, CompleteRun, OpenEpoch, SnapshotInv, SnapshotTypeOK
<1>6. SnapshotTypeOK'
  BY <1>1, <1>3, <1>5 DEF SnapshotInv, SnapshotTypeOK
<1> QED BY <1>1, <1>2, <1>3, <1>4, <1>6 DEF SnapshotInv

(* Actions, incidents, recoveries and the video.                           *)
LEMMA OtherRowsKeep ==
  ASSUME SnapshotInv,
         \/ \E command \in Command : SubmitAction(command)
         \/ \E f \in FaultId, text \in Text : RecordIncident(f, text) \/ RecoveryFails(f, text)
         \/ \E f \in FaultId, m \in Member : QuarantineMember(f, m)
         \/ \E f \in FaultId : PauseForIncident(f)
         \/ VideoBegins \/ VideoReady \/ VideoFails
  PROVE  SnapshotInv'
<1> DEFINE Action == [type : {"tap", "swipe"}, state : {"QUEUED", "CANCELLED"}]
           Attempt == [status : {"none", "STARTED", "SUCCEEDED", "FAILED"},
                       error : Text \cup {"none"}]
<1>0. /\ SnapshotTypeOK /\ attemptRow \in [FaultId -> Attempt]
      /\ incidentRow \in [FaultId -> Text \cup {"none"}]
  BY DEF SnapshotInv, SnapshotTypeOK
<1>1. ASSUME NEW command \in Command, SubmitAction(command)  PROVE  SnapshotInv'
  <2> DEFINE a == [type |-> StoredType(command), state |-> "QUEUED"]
  <2>1. a \in Action
    BY DEF StoredType
  <2>2. actionRows \in Seq(Action) /\ actionRows' = Append(actionRows, a)
    BY <1>1 DEF SubmitAction, SnapshotInv
  <2> HIDE DEF a, Action
  <2>3. actionRows' \in Seq(Action)
    BY <2>1, <2>2
  <2> QED BY <1>1, <2>3
      DEF SubmitAction, SnapshotInv, SnapshotTypeOK, RefusedForABlankText, NormalEvidence, Action
<1>2. ASSUME NEW f \in FaultId, NEW text \in Text, RecordIncident(f, text)
      PROVE  SnapshotInv'
  <2>1. /\ incidentRow[f] = "none" /\ incidentRow' = [incidentRow EXCEPT ![f] = text]
        /\ attemptRow' = [attemptRow EXCEPT ![f].status = "STARTED"]
        /\ UNCHANGED <<runRow, opened, rows, actionRows, videoRow, snapshot>>
    BY <1>2 DEF RecordIncident
  <2>2. /\ \A g \in FaultId : attemptRow[g] \in Attempt
        /\ attemptRow[f].status = "none" /\ attemptRow[f].error = "none"
    BY <1>0, <2>1 DEF SnapshotInv
  <2>3. /\ attemptRow'[f].status = "STARTED" /\ attemptRow'[f].error = "none"
        /\ attemptRow'[f] \in Attempt /\ incidentRow'[f] = text /\ text # "none"
        /\ \A g \in FaultId \ {f} : attemptRow'[g] = attemptRow[g] /\ incidentRow'[g] = incidentRow[g]
    BY <1>0, <2>1, <2>2 DEF Text
  <2>4. SnapshotTypeOK'
    BY <1>0, <2>1 DEF SnapshotTypeOK
  <2>5. RefusedForABlankText'
    BY <2>1, <2>2, <2>3 DEF SnapshotInv, RefusedForABlankText
  <2> QED BY <2>1, <2>3, <2>4, <2>5 DEF SnapshotInv, NormalEvidence
<1>3. ASSUME NEW f \in FaultId, NEW text \in Text, RecoveryFails(f, text)
      PROVE  SnapshotInv'
  <2>1. /\ attemptRow[f].status = "STARTED"
        /\ attemptRow' = [attemptRow EXCEPT ![f] = [status |-> "FAILED", error |-> text]]
        /\ UNCHANGED <<runRow, opened, rows, actionRows, incidentRow, videoRow, snapshot>>
    BY <1>3 DEF RecoveryFails
  <2>2. attemptRow[f].error = "none" /\ incidentRow[f] # "none"
    BY <2>1 DEF SnapshotInv
  <2>3. /\ attemptRow'[f].status = "FAILED" /\ attemptRow'[f].error = text
        /\ \A g \in FaultId \ {f} : attemptRow'[g] = attemptRow[g]
    BY <1>0, <2>1
  <2>4. SnapshotTypeOK'
    BY <1>0, <2>1 DEF SnapshotTypeOK
  <2>5. RefusedForABlankText'
    BY <2>1, <2>2, <2>3 DEF SnapshotInv, RefusedForABlankText
  <2> QED BY <2>1, <2>2, <2>3, <2>4, <2>5 DEF SnapshotInv, NormalEvidence
<1>4. ASSUME NEW f \in FaultId, NEW m \in Member, QuarantineMember(f, m)
      PROVE  SnapshotInv'
  <2>1. /\ attemptRow[f].status = "STARTED" /\ m \in Remaining
        /\ rows' = [rows EXCEPT ![m].membership = "QUARANTINED"]
        /\ attemptRow' = [attemptRow EXCEPT ![f].status = "SUCCEEDED"]
        /\ UNCHANGED <<runRow, opened, actionRows, incidentRow, videoRow, snapshot>>
    BY <1>4 DEF QuarantineMember
  <2>2. attemptRow[f].error = "none" /\ incidentRow[f] # "none" /\ attemptRow[f] \in Attempt
    BY <1>0, <2>1 DEF SnapshotInv
  <2>3. /\ attemptRow'[f].status = "SUCCEEDED" /\ attemptRow'[f].error = "none"
        /\ attemptRow'[f] \in Attempt
        /\ \A g \in FaultId \ {f} : attemptRow'[g] = attemptRow[g]
    BY <1>0, <2>1, <2>2
  <2>4. /\ DOMAIN rows' = DOMAIN rows
        /\ \A n \in DOMAIN rows : rows'[n].role = "LEADER" => rows[n].role = "LEADER"
    <3>1. ASSUME NEW n \in DOMAIN rows, rows'[n].role = "LEADER"
          PROVE  rows[n].role = "LEADER"
      BY <2>1, <3>1, rows[n].role \in {"LEADER"} \/ rows[n].role \notin {"LEADER"}
    <3> QED BY <2>1, <3>1
  <2>5. SnapshotTypeOK'
    BY <1>0, <2>1, <2>4 DEF SnapshotTypeOK
  <2>6. RefusedForABlankText'
    BY <2>1, <2>2, <2>3 DEF SnapshotInv, RefusedForABlankText
  <2> QED BY <2>1, <2>2, <2>3, <2>4, <2>5, <2>6 DEF SnapshotInv, NormalEvidence
<1>5. ASSUME NEW f \in FaultId, PauseForIncident(f)  PROVE  SnapshotInv'
  <2>1. /\ attemptRow[f].status = "STARTED" /\ runRow' = "PAUSED"
        /\ attemptRow' = [attemptRow EXCEPT ![f].status = "SUCCEEDED"]
        /\ UNCHANGED <<opened, rows, actionRows, incidentRow, videoRow, snapshot>>
    BY <1>5 DEF PauseForIncident
  <2>2. attemptRow[f].error = "none" /\ incidentRow[f] # "none" /\ attemptRow[f] \in Attempt
    BY <1>0, <2>1 DEF SnapshotInv
  <2>3. /\ attemptRow'[f].status = "SUCCEEDED" /\ attemptRow'[f].error = "none"
        /\ attemptRow'[f] \in Attempt
        /\ \A g \in FaultId \ {f} : attemptRow'[g] = attemptRow[g]
    BY <1>0, <2>1, <2>2
  <2>4. SnapshotTypeOK'
    BY <1>0, <2>1 DEF SnapshotTypeOK
  <2>5. RefusedForABlankText'
    BY <2>1, <2>2, <2>3 DEF SnapshotInv, RefusedForABlankText
  <2> QED BY <2>1, <2>2, <2>3, <2>4, <2>5 DEF SnapshotInv, NormalEvidence
<1>6. CASE VideoBegins \/ VideoReady \/ VideoFails
  <2>1. UNCHANGED <<runRow, opened, rows, actionRows, incidentRow, attemptRow, snapshot>>
    BY <1>6 DEF VideoBegins, VideoReady, VideoFails
  <2>2. NormalEvidence'
    <3>1. CASE VideoBegins
      BY <3>1 DEF VideoBegins, NormalEvidence, NoVideo
    <3>2. CASE VideoReady
      BY <3>2 DEF VideoReady, NormalEvidence
    <3>3. CASE VideoFails
      <4>1. videoRow' = [videoRow EXCEPT !.state = "FAILED"] /\ videoRow.state = "PENDING"
        BY <3>3 DEF VideoFails
      <4> QED BY <4>1 DEF NormalEvidence
    <3> QED BY <1>6, <3>1, <3>2, <3>3
  <2> QED BY <2>1, <2>2 DEF SnapshotInv, SnapshotTypeOK, RefusedForABlankText
<1> QED BY <1>1, <1>2, <1>3, <1>4, <1>5, <1>6

(* The reader: all that the rows can fail is the check of the texts.       *)
LEMMA LoadKeeps ==
  ASSUME SnapshotInv, Load
  PROVE  SnapshotInv'
<1> DEFINE leaders == {m \in DOMAIN rows : rows[m].role = "LEADER"}
<1>1. UNCHANGED <<runRow, opened, rows, actionRows, incidentRow, attemptRow, videoRow>>
  BY DEF Load
<1>2. NormalRun
  BY DEF Load, NormalRun
<1>3. NormalDevices
  <2>1. CASE leaders = {}
    BY <2>1, FS_EmptySet DEF NormalDevices
  <2>2. CASE leaders # {}
    <3>1. PICK m : m \in leaders
      BY <2>2
    <3>2. leaders = {m}
      BY <3>1 DEF SnapshotInv
    <3>3. Cardinality(leaders) = 1
      <4> HIDE DEF leaders
      <4> QED BY <3>2, FS_Singleton
    <3> QED BY <3>3 DEF NormalDevices
  <2> QED BY <2>1, <2>2
<1>4. NormalActions
  <2> DEFINE Action == [type : {"tap", "swipe"}, state : {"QUEUED", "CANCELLED"}]
  <2>1. \A a \in Action : a.type \in {"tap", "swipe"}
    OBVIOUS
  <2>2. actionRows \in Seq(Action)
    BY DEF SnapshotInv
  <2> HIDE DEF Action
  <2>3. \A i \in DOMAIN actionRows : actionRows[i] \in Action
    BY <2>2
  <2> QED BY <2>1, <2>3 DEF NormalActions
<1>5. ASSUME snapshot' = Refused
      PROVE  \E f \in FaultId : "blank" \in {incidentRow[f], attemptRow[f].error}
  <2>1. ~ (NormalIncidents /\ NormalRecoveries)
    BY <1>2, <1>3, <1>4, <1>5 DEF Load, SnapshotInv, Refused
  <2> QED BY <2>1 DEF NormalIncidents, NormalRecoveries
<1>6. snapshot'.is \in {"none", "refused", "model"}
  BY DEF Load, Refused
<1>7. SnapshotTypeOK' /\ NormalEvidence'
  BY <1>1, <1>6 DEF SnapshotInv, SnapshotTypeOK, NormalEvidence
<1>8. RefusedForABlankText'
  BY <1>1, <1>5 DEF RefusedForABlankText, Refused
<1> QED BY <1>1, <1>7, <1>8 DEF SnapshotInv

LEMMA SnapshotNextHolds == SnapshotInv /\ [SnapshotNext]_snapshotVars => SnapshotInv'
<1> SUFFICES ASSUME SnapshotInv, [SnapshotNext]_snapshotVars PROVE SnapshotInv'
  OBVIOUS
<1>1. CASE SnapshotNext
  BY <1>1, RunRowsKeep, OtherRowsKeep, LoadKeeps DEF SnapshotNext
<1>2. CASE UNCHANGED snapshotVars
  BY <1>2 DEF snapshotVars, SnapshotInv, SnapshotTypeOK, RefusedForABlankText, NormalEvidence
<1> QED BY <1>1, <1>2

(* For any number of devices, faults, actions and epochs: the report of an *)
(* ended run is refused for a blank text and for nothing else              *)
(* (report-snapshot-repository.ts, report-model.ts).                       *)
THEOREM ReportsAreRefusedForTexts == SnapshotSpec => []OnlyTextsAreRefused
<1>1. SnapshotSpec => []SnapshotInv
  BY SnapshotInitHolds, SnapshotNextHolds, PTL DEF SnapshotSpec
<1>2. SnapshotInv => OnlyTextsAreRefused
  BY DEF SnapshotInv, OnlyTextsAreRefused
<1> QED BY <1>1, <1>2, PTL
-----------------------------------------------------------------------------
(* The recording of the leader.                                            *)

Places == {"begin", "mkdir", "spawned", "commit", "stop", "exiting", "stat", "available",
           "copying", "closing"}

HandlerRecord ==
  [op : {"open", "pause", "complete", "unwind"}, pc : Places, run : Session,
   from : {"PREFLIGHT", "RUNNING", "PAUSED"}, lead : Leader, copy : Nat]

(* A handler that is starting a process has counted its take, and what it  *)
(* copies is a take there was.                                             *)
HandlerIsSound(x, started) ==
  \/ x = Free
  \/ /\ x \in HandlerRecord
     /\ x.pc = "spawned" => started[x.run] > 0
     /\ x.copy <= started[x.run]

HandlersAreSound ==
  DOMAIN handler = Handler /\ \A h \in Handler : HandlerIsSound(handler[h], takes)

\* RecordingTypeOK but for what is only counted and remembered.
RowsTyped ==
  /\ state \in [Session -> {"PREFLIGHT", "RUNNING", "PAUSED", "FINISHED"}]
  /\ served \in [Session -> BOOLEAN]
  /\ leader \in [Session -> Leader]
  /\ active \in Session \cup {"none"}
  /\ takes \in [Session -> Nat]
  /\ \A r \in Session : /\ filming[r] \subseteq 1..takes[r]
                         /\ {clip[r], published[r], digest[r]} \subseteq 0..takes[r]
  /\ evidence \in [Session -> {"none", "PENDING", "READY", "FAILED"}]
  /\ owner \in [Session -> Leader \cup {"none"}]
  /\ stops \in 0..MaxStops

Remembered == opens \in 0..MaxOpens /\ collided \subseteq Session

TakesAreSound ==
  /\ filming \in [Session -> SUBSET Nat]
  /\ clip \in [Session -> Nat] /\ published \in [Session -> Nat] /\ digest \in [Session -> Nat]

FilmsInv == RowsTyped /\ TakesAreSound /\ HandlersAreSound

LEMMA FreeFields ==
  /\ Free.op = "none" /\ Free.pc = "free" /\ Free.run = "none" /\ Free.from = "none"
  /\ Free.lead = "none" /\ Free.copy = 0
BY DEF Free

LEMMA RecordingInitHolds == RecordingInit => FilmsInv
<1> SUFFICES ASSUME RecordingInit PROVE FilmsInv
  OBVIOUS
<1>1. RowsTyped
  BY LeaderRecordingAssumption DEF RecordingInit, RowsTyped
<1>2. HandlersAreSound /\ TakesAreSound
  BY DEF RecordingInit, HandlersAreSound, HandlerIsSound, TakesAreSound
<1> QED BY <1>1, <1>2 DEF FilmsInv

(* A handler that has anything to do is one of some run.                   *)
LEMMA HandlerAtWork ==
  ASSUME FilmsInv, NEW h \in Handler, handler[h].pc # "free"
  PROVE  /\ handler[h] \in HandlerRecord /\ handler[h].run \in Session
         /\ handler[h].pc \in Places
         /\ handler[h].pc = "spawned" => takes[handler[h].run] > 0
         /\ handler[h].copy <= takes[handler[h].run]
<1>1. handler[h] # Free
  BY FreeFields
<1>2. handler[h] \in HandlerRecord
  BY <1>1 DEF FilmsInv, HandlersAreSound, HandlerIsSound
<1>3. \A x \in HandlerRecord : x.run \in Session /\ x.pc \in Places
  BY DEF HandlerRecord
<1>4. HandlerIsSound(handler[h], takes)
  BY DEF FilmsInv, HandlersAreSound
<1> QED BY <1>1, <1>2, <1>3, <1>4 DEF HandlerIsSound

(* A step of one handler: what the others are is not disturbed.            *)
LEMMA OneHandlerSteps ==
  ASSUME FilmsInv, NEW h \in Handler, DOMAIN handler' = Handler,
         \A g \in Handler \ {h} : handler'[g] = handler[g],
         \A r \in Session : takes'[r] \in Nat /\ takes[r] <= takes'[r],
         HandlerIsSound(handler'[h], takes')
  PROVE  HandlersAreSound'
<1>1. ASSUME NEW x, NEW before \in [Session -> Nat], NEW after, HandlerIsSound(x, before),
             \A r \in Session : after[r] \in Nat /\ before[r] <= after[r]
      PROVE  HandlerIsSound(x, after)
  <2>1. CASE x = Free
    BY <2>1 DEF HandlerIsSound
  <2>2. CASE x # Free
    <3>1. /\ x \in HandlerRecord
          /\ x.pc = "spawned" => before[x.run] > 0
          /\ x.copy <= before[x.run]
      BY <1>1, <2>2 DEF HandlerIsSound
    <3>2. x.run \in Session /\ x.copy \in Nat
      BY <3>1 DEF HandlerRecord
    <3>3. before[x.run] \in Nat /\ after[x.run] \in Nat /\ before[x.run] <= after[x.run]
      BY <1>1, <3>2
    <3>4. (x.pc = "spawned" => after[x.run] > 0) /\ x.copy <= after[x.run]
      BY <3>1, <3>2, <3>3
    <3> QED BY <3>1, <3>4 DEF HandlerIsSound
  <2> QED BY <2>1, <2>2
<1>2. takes \in [Session -> Nat]
  BY DEF FilmsInv, RowsTyped
<1>3. \A g \in Handler \ {h} : HandlerIsSound(handler[g], takes)
  BY DEF FilmsInv, HandlersAreSound
<1>4. \A g \in Handler \ {h} : HandlerIsSound(handler[g], takes')
  BY <1>1, <1>2, <1>3
<1> QED BY <1>4 DEF HandlersAreSound

LEMMA HandlerLeaves ==
  ASSUME FilmsInv, NEW h \in Handler, Free1(h), UNCHANGED takes
  PROVE  HandlersAreSound'
<1>1. /\ DOMAIN handler' = Handler /\ handler'[h] = Free
      /\ \A g \in Handler \ {h} : handler'[g] = handler[g]
  BY DEF Free1, FilmsInv, HandlersAreSound
<1>2. HandlerIsSound(handler'[h], takes')
  BY <1>1 DEF HandlerIsSound
<1>3. \A r \in Session : takes'[r] \in Nat /\ takes[r] <= takes'[r]
  BY DEF FilmsInv, RowsTyped
<1> QED BY <1>1, <1>2, <1>3, OneHandlerSteps

LEMMA HandlerGoes ==
  ASSUME FilmsInv, NEW h \in Handler, handler[h].pc # "free", NEW p \in Places, Goto(h, p),
         \A r \in Session : takes'[r] \in Nat /\ takes[r] <= takes'[r],
         p = "spawned" => takes'[handler[h].run] > 0
  PROVE  HandlersAreSound'
<1> DEFINE x == handler[h]
           y == handler'[h]
<1>1. /\ DOMAIN handler' = Handler /\ handler'[h] = [handler[h] EXCEPT !.pc = p]
      /\ \A g \in Handler \ {h} : handler'[g] = handler[g]
  BY DEF Goto, FilmsInv, HandlersAreSound
<1>2. x \in HandlerRecord /\ x.run \in Session /\ x.copy \in Nat /\ x.copy <= takes[x.run]
  BY HandlerAtWork DEF HandlerRecord
<1>3. y \in HandlerRecord /\ y.pc = p /\ y.run = x.run /\ y.copy = x.copy
  BY <1>1, <1>2 DEF HandlerRecord
<1>4. takes[x.run] \in Nat /\ takes'[x.run] \in Nat /\ takes[x.run] <= takes'[x.run]
  BY <1>2 DEF FilmsInv, RowsTyped
<1> HIDE DEF x, y
<1>5. y.copy <= takes'[y.run]
  BY <1>2, <1>3, <1>4
<1>6. HandlerIsSound(y, takes')
  BY <1>3, <1>5 DEF HandlerIsSound, x
<1> QED BY <1>1, <1>6, OneHandlerSteps DEF y

(* publish gave up or is done: the handler holds no copy any more.         *)
LEMMA HandlerCloses ==
  ASSUME FilmsInv, NEW h \in Handler, handler[h].pc # "free", UNCHANGED takes,
         handler' = [handler EXCEPT ![h].pc = "closing", ![h].copy = 0]
  PROVE  HandlersAreSound'
<1> DEFINE x == handler[h]
           y == handler'[h]
<1>1. /\ DOMAIN handler' = Handler
      /\ handler'[h] = [[handler[h] EXCEPT !.pc = "closing"] EXCEPT !.copy = 0]
      /\ \A g \in Handler \ {h} : handler'[g] = handler[g]
  BY DEF FilmsInv, HandlersAreSound
<1>2. x \in HandlerRecord /\ x.run \in Session
  BY HandlerAtWork
<1>3. y \in HandlerRecord /\ y.pc = "closing" /\ y.run = x.run /\ y.copy = 0
  BY <1>1, <1>2 DEF HandlerRecord, Places
<1>4. \A r \in Session : takes'[r] \in Nat /\ takes[r] <= takes'[r]
  BY DEF FilmsInv, RowsTyped
<1> HIDE DEF x, y
<1>5. y.copy <= takes'[y.run]
  BY <1>2, <1>3, <1>4
<1>6. HandlerIsSound(y, takes')
  BY <1>3, <1>5 DEF HandlerIsSound
<1> QED BY <1>1, <1>4, <1>6, OneHandlerSteps DEF y

(* A handler begins, to open the run or to close it.                       *)
LEMMA HandlerEnters ==
  ASSUME FilmsInv, NEW h \in Handler, UNCHANGED takes, NEW r \in Session,
         NEW op \in {"open", "pause", "complete"}, NEW p \in {"begin", "stop"},
         NEW from \in {"PREFLIGHT", "RUNNING", "PAUSED"}, NEW lead \in Leader,
         handler' = [handler EXCEPT ![h] = [op |-> op, pc |-> p, run |-> r, from |-> from,
                                            lead |-> lead, copy |-> 0]]
  PROVE  HandlersAreSound'
<1> DEFINE y == [op |-> op, pc |-> p, run |-> r, from |-> from, lead |-> lead, copy |-> 0]
<1>1. /\ DOMAIN handler' = Handler /\ handler'[h] = y
      /\ \A g \in Handler \ {h} : handler'[g] = handler[g]
  BY DEF FilmsInv, HandlersAreSound
<1>2. \A q \in Session : takes'[q] \in Nat /\ takes[q] <= takes'[q]
  BY DEF FilmsInv, RowsTyped
<1>3. y \in HandlerRecord /\ y.pc # "spawned" /\ y.copy = 0 /\ y.run = r
  BY DEF HandlerRecord, Places
<1> HIDE DEF y
<1>4. HandlerIsSound(y, takes')
  BY <1>2, <1>3 DEF HandlerIsSound
<1> QED BY <1>1, <1>2, <1>4, OneHandlerSteps

(* The steps that file nothing: no row, clip or process changes.           *)
LEMMA ControlKeepsFilms ==
  ASSUME FilmsInv, NEW h \in Handler,
         \/ Open(h) \/ BeginRecording(h) \/ CommitOpen(h) \/ CloseRun(h) \/ StopRecording(h)
         \/ CommitClose(h)
  PROVE  FilmsInv'
<1>0. RowsTyped
  BY DEF FilmsInv
<1>1. UNCHANGED <<takes, filming, clip, published, evidence, owner, digest, stops>>
  BY DEF Open, BeginRecording, CommitOpen, CloseRun, StopRecording, CommitClose, record
<1>2. TakesAreSound'
  BY <1>1 DEF FilmsInv, TakesAreSound
<1>3. HandlersAreSound'
  <2>1. CASE Open(h)
    <3>1. PICK r \in Session, s \in Leader :
            /\ state[r] \in {"PREFLIGHT", "PAUSED"}
            /\ handler' = [handler EXCEPT ![h] = [op |-> "open", pc |-> "begin", run |-> r,
                                                  from |-> state[r], lead |-> s, copy |-> 0]]
      BY <2>1 DEF Open
    <3> QED BY <1>1, <3>1, HandlerEnters
  <2>2. CASE BeginRecording(h)
    <3>1. handler[h].pc # "free" /\ \E p \in Places \ {"spawned"} : Goto(h, p)
      BY <2>2 DEF BeginRecording, In, Places
    <3> QED BY <1>0, <1>1, <3>1, HandlerGoes DEF RowsTyped
  <2>3. CASE CommitOpen(h)
    <3>1. CASE Free1(h)
      BY <1>1, <3>1, HandlerLeaves
    <3>2. CASE handler' = [handler EXCEPT ![h].pc = "stop", ![h].op = "unwind"]
      <4> DEFINE x == handler[h]
                 y == handler'[h]
      <4>1. /\ DOMAIN handler' = Handler
            /\ handler'[h] = [[handler[h] EXCEPT !.pc = "stop"] EXCEPT !.op = "unwind"]
            /\ \A g \in Handler \ {h} : handler'[g] = handler[g]
        BY <3>2 DEF FilmsInv, HandlersAreSound
      <4>2. x \in HandlerRecord /\ x.copy <= takes[x.run]
        BY <2>3, HandlerAtWork DEF CommitOpen, In
      <4>3. y \in HandlerRecord /\ y.pc = "stop" /\ y.run = x.run /\ y.copy = x.copy
        BY <4>1, <4>2 DEF HandlerRecord, Places
      <4> HIDE DEF x, y
      <4>4. HandlerIsSound(y, takes')
        BY <1>1, <4>2, <4>3 DEF HandlerIsSound
      <4>5. \A q \in Session : takes'[q] \in Nat /\ takes[q] <= takes'[q]
        BY <1>0, <1>1 DEF RowsTyped
      <4> QED BY <4>1, <4>4, <4>5, OneHandlerSteps DEF y
    <3> QED BY <2>3, <3>1, <3>2 DEF CommitOpen
  <2>4. CASE CloseRun(h)
    <3>1. PICK r \in Session, op \in {"pause", "complete"} :
            /\ state[r] \in {"RUNNING", "PAUSED"}
            /\ handler' = [handler EXCEPT ![h] = [op |-> op, pc |-> "stop", run |-> r,
                                                  from |-> state[r], lead |-> leader[r],
                                                  copy |-> 0]]
      BY <2>4 DEF CloseRun
    <3>2. leader[r] \in Leader
      BY <1>0 DEF RowsTyped
    <3> QED BY <1>1, <3>1, <3>2, HandlerEnters
  <2>5. CASE StopRecording(h)
    <3>1. handler[h].pc # "free" /\ \E p \in Places \ {"spawned"} : Goto(h, p)
      BY <2>5 DEF StopRecording, In, Places
    <3> QED BY <1>0, <1>1, <3>1, HandlerGoes DEF RowsTyped
  <2>6. CASE CommitClose(h)
    BY <1>1, <2>6, HandlerLeaves DEF CommitClose
  <2> QED BY <2>1, <2>2, <2>3, <2>4, <2>5, <2>6
<1>4. RowsTyped'
  <2>1. state' \in [Session -> {"PREFLIGHT", "RUNNING", "PAUSED", "FINISHED"}]
    BY <1>0 DEF RowsTyped, Open, BeginRecording, CommitOpen, CloseRun, StopRecording,
                CommitClose
  <2>2. served' \in [Session -> BOOLEAN]
    BY <1>0 DEF RowsTyped, Open, BeginRecording, CommitOpen, CloseRun, StopRecording,
                CommitClose
  <2>3. leader' \in [Session -> Leader]
    <3>1. CASE UNCHANGED leader
      BY <1>0, <3>1 DEF RowsTyped
    <3>2. CASE CommitOpen(h)
      <4>1. handler[h].lead \in Leader
        BY <3>2, HandlerAtWork DEF CommitOpen, In, HandlerRecord
      <4> QED BY <1>0, <3>2, <4>1 DEF RowsTyped, CommitOpen
    <3> QED BY <3>1, <3>2 DEF Open, BeginRecording, CloseRun, StopRecording, CommitClose
  <2>4. active' \in Session \cup {"none"}
    BY <1>0 DEF RowsTyped, Open, BeginRecording, CommitOpen, CloseRun, StopRecording,
                CommitClose
  <2> QED BY <1>0, <1>1, <2>1, <2>2, <2>3, <2>4 DEF RowsTyped
<1> QED BY <1>2, <1>3, <1>4 DEF FilmsInv

(* RowsTyped and TakesAreSound by runs, the form in which the steps  *)
(* of the recorder are shown to keep them.                                 *)
Filmed(r) ==
  /\ filming[r] \subseteq 1..takes[r]
  /\ clip[r] \in 0..takes[r] /\ published[r] \in 0..takes[r] /\ digest[r] \in 0..takes[r]

LEMMA FilmsAre ==
  ASSUME RowsTyped, TakesAreSound
  PROVE  \A r \in Session :
           /\ Filmed(r) /\ takes[r] \in Nat /\ filming[r] \in SUBSET Nat
           /\ clip[r] \in Nat /\ published[r] \in Nat /\ digest[r] \in Nat
BY DEF RowsTyped, TakesAreSound, Filmed

(* A step that changes the rows and files of one run.                      *)
LEMMA FilmsOfOneRun ==
  ASSUME FilmsInv, NEW r \in Session, HandlersAreSound',
         takes' \in [Session -> Nat], filming' \in [Session -> SUBSET Nat],
         clip' \in [Session -> Nat], published' \in [Session -> Nat],
         digest' \in [Session -> Nat],
         evidence' \in [Session -> {"none", "PENDING", "READY", "FAILED"}],
         owner' \in [Session -> Leader \cup {"none"}], active' \in Session \cup {"none"},
         Filmed(r)',
         \A q \in Session \ {r} :
           /\ takes'[q] = takes[q] /\ filming'[q] = filming[q] /\ clip'[q] = clip[q]
           /\ published'[q] = published[q] /\ digest'[q] = digest[q],
         UNCHANGED <<state, served, leader, stops>>
  PROVE  FilmsInv'
<1>1. \A q \in Session \ {r} : Filmed(q)'
  BY FilmsAre DEF FilmsInv, Filmed
<1>2. \A q \in Session : Filmed(q)'
  BY <1>1
<1>3. RowsTyped'
  BY <1>2 DEF FilmsInv, RowsTyped, Filmed
<1>4. TakesAreSound'
  BY DEF TakesAreSound
<1> QED BY <1>3, <1>4 DEF FilmsInv

(* Starting a process.                                                     *)
LEMMA StartKeepsFilms ==
  ASSUME FilmsInv, NEW h \in Handler, Spawn(h) \/ Spawned(h) \/ SpawnFails(h)
  PROVE  FilmsInv'
<1>a. handler[h].pc # "free"
  BY DEF Spawn, Spawned, SpawnFails, In
<1>b. PICK r \in Session : r = handler[h].run
  BY <1>a, HandlerAtWork
<1>0. /\ RowsTyped /\ TakesAreSound /\ r \in Session
      /\ handler[h].pc # "free" /\ handler[h].lead \in Leader
      /\ handler[h].pc = "spawned" => takes[r] > 0
  BY <1>a, <1>b, HandlerAtWork DEF FilmsInv, HandlerRecord
<1>1. /\ Filmed(r) /\ takes[r] \in Nat /\ clip[r] \in Nat
      /\ \A q \in Session : takes[q] \in Nat
  BY <1>0, FilmsAre
<1>2. CASE Spawn(h)
  <2>1. /\ UNCHANGED <<state, served, leader, active, filming, clip, published, digest, stops>>
        /\ \/ /\ evidence' = [evidence EXCEPT ![r] = IF @ = "none" THEN "PENDING" ELSE @]
              /\ owner' = [owner EXCEPT ![r] = handler[h].lead]
              /\ takes' = [takes EXCEPT ![r] = @ + 1] /\ Goto(h, "spawned")
           \/ UNCHANGED <<evidence, owner, takes>> /\ Goto(h, "commit")
    BY <1>b, <1>2 DEF Spawn, Run
  <2>2. /\ takes' \in [Session -> Nat]
        /\ \A q \in Session : takes'[q] \in Nat /\ takes[q] <= takes'[q]
        /\ \A q \in Session \ {r} : takes'[q] = takes[q]
    BY <1>0, <1>1, <2>1 DEF RowsTyped
  <2>3. /\ evidence' \in [Session -> {"none", "PENDING", "READY", "FAILED"}]
        /\ owner' \in [Session -> Leader \cup {"none"}]
    BY <1>0, <2>1 DEF RowsTyped
  <2>4. HandlersAreSound'
    <3>1. CASE Goto(h, "commit")
      BY <1>0, <2>2, <3>1, HandlerGoes DEF Places
    <3>2. CASE Goto(h, "spawned") /\ takes' = [takes EXCEPT ![r] = @ + 1]
      <4>1. takes'[r] > 0
        BY <1>0, <1>1, <3>2 DEF RowsTyped
      <4> QED BY <1>0, <2>2, <3>2, <4>1, <1>b, HandlerGoes DEF Places
    <3> QED BY <2>1, <3>1, <3>2
  <2>5. takes[r] <= takes'[r] /\ takes'[r] \in Nat
    BY <1>0, <2>2
  <2>6. Filmed(r)'
    BY <1>1, <2>1, <2>5 DEF Filmed
  <2> QED BY <1>0, <2>1, <2>2, <2>3, <2>4, <2>6, FilmsOfOneRun DEF RowsTyped, TakesAreSound
<1>3. CASE Spawned(h)
  <2>1. /\ UNCHANGED <<state, served, leader, takes, published, evidence, owner, digest, stops>>
        /\ active' = r /\ filming' = [filming EXCEPT ![r] = @ \cup {takes[r]}]
        /\ clip' = [clip EXCEPT ![r] = takes[r]] /\ Goto(h, "commit") /\ handler[h].pc = "spawned"
    BY <1>b, <1>3 DEF Spawned, Run, record, In
  <2>2. HandlersAreSound'
    BY <1>0, <1>1, <2>1, HandlerGoes DEF Places
  <2>3. /\ clip' \in [Session -> Nat] /\ filming' \in [Session -> SUBSET Nat]
        /\ clip'[r] = takes[r] /\ filming'[r] = filming[r] \cup {takes[r]}
        /\ \A q \in Session \ {r} : clip'[q] = clip[q] /\ filming'[q] = filming[q]
    BY <1>0, <1>1, <2>1 DEF TakesAreSound
  <2>4. takes[r] \in 1..takes[r] /\ takes[r] \in 0..takes[r]
    BY <1>0, <1>1, <2>1
  <2>5. Filmed(r)'
    BY <1>1, <2>1, <2>3, <2>4 DEF Filmed
  <2> QED BY <1>0, <2>1, <2>2, <2>3, <2>5, FilmsOfOneRun DEF RowsTyped, TakesAreSound
<1>4. CASE SpawnFails(h)
  <2>1. /\ UNCHANGED <<state, served, leader, active, takes, filming, published, owner, digest,
                       stops>>
        /\ evidence' = Failed(r) /\ Goto(h, "commit")
        /\ clip' = [clip EXCEPT ![r] = IF evidence[r] = "PENDING" THEN 0 ELSE @]
    BY <1>b, <1>4 DEF SpawnFails, Run
  <2>2. HandlersAreSound'
    BY <1>0, <1>1, <2>1, HandlerGoes DEF Places
  <2>3. evidence' \in [Session -> {"none", "PENDING", "READY", "FAILED"}]
    BY <1>0, <2>1 DEF RowsTyped, Failed
  <2>4. /\ clip' \in [Session -> Nat] /\ clip'[r] \in {0, clip[r]}
        /\ \A q \in Session \ {r} : clip'[q] = clip[q]
    BY <1>0, <2>1 DEF TakesAreSound
  <2>5. Filmed(r)'
    BY <1>1, <2>1, <2>4 DEF Filmed
  <2> QED BY <1>0, <2>1, <2>2, <2>3, <2>4, <2>5, FilmsOfOneRun DEF RowsTyped, TakesAreSound
<1> QED BY <1>2, <1>3, <1>4

(* Stopping a process and publishing what it left.                         *)
LEMMA StopKeepsFilms ==
  ASSUME FilmsInv, NEW h \in Handler,
         \/ ProcessStops(h) \/ CheckClip(h) \/ CheckAvailable(h) \/ Publish(h) \/ PublishFails(h)
  PROVE  FilmsInv'
<1>a. handler[h].pc # "free"
  BY DEF ProcessStops, CheckClip, CheckAvailable, Publish, PublishFails, In
<1>b. PICK r \in Session : r = handler[h].run
  BY <1>a, HandlerAtWork
<1>0. /\ RowsTyped /\ TakesAreSound
      /\ handler[h].copy \in Nat /\ handler[h].copy <= takes[r]
  BY <1>a, <1>b, HandlerAtWork DEF FilmsInv, HandlerRecord
<1>1. /\ Filmed(r) /\ takes[r] \in Nat /\ clip[r] \in Nat /\ filming[r] \in SUBSET Nat
      /\ \A q \in Session : takes[q] \in Nat
  BY <1>0, FilmsAre
<1>2. ASSUME GiveUp(h), UNCHANGED <<state, served, leader, active, takes, filming, published,
                                    owner, digest, stops>>
      PROVE  FilmsInv'
  <2>1. HandlersAreSound'
    BY <1>a, <1>2, HandlerCloses DEF GiveUp
  <2>2. /\ evidence' \in [Session -> {"none", "PENDING", "READY", "FAILED"}]
        /\ clip' \in [Session -> Nat] /\ clip'[r] = 0
        /\ \A q \in Session \ {r} : clip'[q] = clip[q]
    BY <1>b, <1>0, <1>2 DEF RowsTyped, TakesAreSound, GiveUp, Failed, Run
  <2>3. Filmed(r)'
    BY <1>1, <1>2, <2>2 DEF Filmed
  <2> QED BY <1>0, <1>2, <2>1, <2>2, <2>3, FilmsOfOneRun DEF RowsTyped, TakesAreSound
<1>3. CASE ProcessStops(h)
  <2>1. /\ UNCHANGED <<state, served, leader, active, takes, clip, published, evidence, owner,
                       digest, stops>>
        /\ Goto(h, "stat")
        /\ \/ filming' = [filming EXCEPT ![r] = @ \ {takes[r]}]
           \/ UNCHANGED filming
    BY <1>b, <1>3 DEF ProcessStops, Run, record
  <2>2. HandlersAreSound'
    BY <1>a, <1>1, <2>1, HandlerGoes DEF Places
  <2>3. /\ filming' \in [Session -> SUBSET Nat] /\ filming'[r] \subseteq filming[r]
        /\ \A q \in Session \ {r} : filming'[q] = filming[q]
    BY <1>0, <1>1, <2>1 DEF TakesAreSound
  <2>4. Filmed(r)'
    BY <1>1, <2>1, <2>3 DEF Filmed
  <2> QED BY <1>0, <2>1, <2>2, <2>3, <2>4, FilmsOfOneRun DEF RowsTyped, TakesAreSound
<1>4. CASE CheckClip(h)
  <2>1. CASE Goto(h, "available") /\ UNCHANGED <<evidence, clip>>
    <3>1. UNCHANGED <<state, served, leader, active, takes, filming, clip, published, evidence,
                      owner, digest, stops>>
      BY <1>4, <2>1 DEF CheckClip
    <3>2. HandlersAreSound'
      BY <1>a, <1>1, <2>1, <3>1, HandlerGoes DEF Places
    <3> QED BY <3>1, <3>2 DEF FilmsInv, RowsTyped, TakesAreSound
  <2> QED BY <1>2, <1>4, <2>1 DEF CheckClip
<1>5. CASE CheckAvailable(h)
  <2>1. CASE /\ handler' = [handler EXCEPT ![h].pc = "copying", ![h].copy = clip[Run(h)]]
             /\ UNCHANGED <<evidence, clip>>
    <3> DEFINE x == handler[h]
               y == handler'[h]
    <3>1. UNCHANGED <<state, served, leader, active, takes, filming, clip, published, evidence,
                      owner, digest, stops>>
      BY <1>5, <2>1 DEF CheckAvailable
    <3>2. /\ DOMAIN handler' = Handler
          /\ handler'[h] = [[handler[h] EXCEPT !.pc = "copying"] EXCEPT !.copy = clip[r]]
          /\ \A g \in Handler \ {h} : handler'[g] = handler[g]
      BY <1>b, <2>1 DEF FilmsInv, HandlersAreSound, Run
    <3>3. x \in HandlerRecord /\ clip[r] <= takes[r] /\ x.run = r
      BY <1>a, <1>b, <1>1, HandlerAtWork DEF Filmed
    <3>4. y \in HandlerRecord /\ y.pc = "copying" /\ y.run = r /\ y.copy = clip[r]
      BY <1>1, <3>2, <3>3 DEF HandlerRecord, Places
    <3> HIDE DEF x, y
    <3>5. HandlerIsSound(y, takes')
      BY <3>1, <3>3, <3>4 DEF HandlerIsSound
    <3>6. HandlersAreSound'
      BY <1>1, <3>1, <3>2, <3>5, OneHandlerSteps DEF y
    <3> QED BY <3>1, <3>6 DEF FilmsInv, RowsTyped, TakesAreSound
  <2> QED BY <1>2, <1>5, <2>1 DEF CheckAvailable
<1>6. CASE Publish(h)
  <2> DEFINE c == handler[h].copy
  <2>1. /\ UNCHANGED <<state, served, leader, active, takes, filming, owner, stops>>
        /\ published' = [published EXCEPT ![r] = c]
        /\ evidence' = Ready(r)
        /\ digest' = [digest EXCEPT ![r] = IF evidence[r] = "PENDING" THEN c ELSE @]
        /\ \E left \in {0, clip[r]} : clip' = [clip EXCEPT ![r] = left]
    BY <1>b, <1>6 DEF Publish, Run
  <2>2. HandlersAreSound'
    BY <1>a, <1>6, <2>1, HandlerCloses DEF Publish
  <2>3. evidence' \in [Session -> {"none", "PENDING", "READY", "FAILED"}]
    BY <1>0, <2>1 DEF RowsTyped, Ready
  <2>4. /\ published' \in [Session -> Nat] /\ digest' \in [Session -> Nat]
        /\ clip' \in [Session -> Nat] /\ clip'[r] \in {0, clip[r]}
        /\ published'[r] = c /\ digest'[r] \in {c, digest[r]}
        /\ \A q \in Session \ {r} :
             published'[q] = published[q] /\ digest'[q] = digest[q] /\ clip'[q] = clip[q]
    BY <1>0, <1>1, <2>1 DEF TakesAreSound
  <2>5. c \in 0..takes[r]
    BY <1>0, <1>1
  <2>6. Filmed(r)'
    <3> HIDE DEF c
    <3> QED BY <1>1, <2>1, <2>4, <2>5 DEF Filmed
  <2> QED BY <1>0, <2>1, <2>2, <2>3, <2>4, <2>6, FilmsOfOneRun DEF RowsTyped, TakesAreSound
<1>7. CASE PublishFails(h)
  BY <1>2, <1>7 DEF PublishFails
<1> QED BY <1>3, <1>4, <1>5, <1>6, <1>7

(* A process exits, or the server is killed and launched again.            *)
LEMMA ProcessExitsKeepsFilms ==
  ASSUME FilmsInv, ProcessExits \/ Relaunch
  PROVE  FilmsInv'
<1>0. RowsTyped /\ TakesAreSound
  BY DEF FilmsInv
<1>1. CASE ProcessExits
  <2>1. PICK r \in Session : \E t \in filming[r] : filming' = [filming EXCEPT ![r] = @ \ {t}]
    BY <1>1 DEF ProcessExits
  <2>2. UNCHANGED <<state, served, leader, active, takes, clip, published, evidence, owner, digest,
                    handler, stops>>
    BY <1>1 DEF ProcessExits, record
  <2>3. filming' \in [Session -> SUBSET Nat] /\ \A q \in Session : filming'[q] \subseteq filming[q]
    BY <1>0, <2>1 DEF TakesAreSound
  <2>4. TakesAreSound' /\ HandlersAreSound'
    BY <2>2, <2>3 DEF FilmsInv, TakesAreSound, HandlersAreSound, HandlerIsSound
  <2>5. RowsTyped'
    BY <1>0, <2>2, <2>3 DEF RowsTyped
  <2> QED BY <2>4, <2>5 DEF FilmsInv
<1>2. CASE Relaunch
  <2>1. /\ UNCHANGED <<state, leader, takes, filming, clip, published, evidence, owner, digest>>
        /\ served' = [r \in Session |-> FALSE] /\ active' = "none"
        /\ handler' = [h \in Handler |-> Free] /\ stops < MaxStops /\ stops' = stops + 1
    BY <1>2 DEF Relaunch, record
  <2>2. TakesAreSound' /\ HandlersAreSound'
    BY <1>0, <2>1 DEF TakesAreSound, HandlersAreSound, HandlerIsSound
  <2>3. stops' \in 0..MaxStops
    BY <1>0, <2>1, LeaderRecordingAssumption DEF RowsTyped
  <2>4. RowsTyped'
    BY <1>0, <2>1, <2>3 DEF RowsTyped
  <2> QED BY <2>2, <2>4 DEF FilmsInv
<1> QED BY <1>1, <1>2

LEMMA RecordingNextHolds == FilmsInv /\ [RecordingNext]_recordingVars => FilmsInv'
<1> SUFFICES ASSUME FilmsInv, [RecordingNext]_recordingVars PROVE FilmsInv'
  OBVIOUS
<1>1. CASE RecordingNext
  BY <1>1, ControlKeepsFilms, StartKeepsFilms, StopKeepsFilms, ProcessExitsKeepsFilms
     DEF RecordingNext
<1>2. CASE UNCHANGED recordingVars
  BY <1>2 DEF recordingVars, record, FilmsInv, RowsTyped, TakesAreSound, HandlersAreSound,
              HandlerIsSound
<1> QED BY <1>1, <1>2

LEMMA RecordingTypes == RecordingSpec => []FilmsInv
BY RecordingInitHolds, RecordingNextHolds, PTL DEF RecordingSpec

(* A step settles PENDING rows, or creates one, and takes no hash back.    *)
LEMMA EvidenceStep ==
  ASSUME FilmsInv, [RecordingNext]_recordingVars, NEW r \in Session,
         evidence[r] \in {"READY", "FAILED"}
  PROVE  evidence'[r] = evidence[r] /\ digest'[r] = digest[r]
<1>0. evidence \in [Session -> {"none", "PENDING", "READY", "FAILED"}] /\ DOMAIN digest = Session
  BY DEF FilmsInv, RowsTyped, TakesAreSound
<1>1. ASSUME NEW h \in Handler,
             \/ Open(h) \/ BeginRecording(h) \/ CommitOpen(h) \/ CloseRun(h) \/ StopRecording(h)
             \/ CommitClose(h) \/ ProcessStops(h) \/ Spawned(h)
      PROVE  UNCHANGED <<evidence, digest>>
  BY <1>1 DEF Open, BeginRecording, CommitOpen, CloseRun, StopRecording, CommitClose,
              ProcessStops, Spawned, record
<1>2. ASSUME NEW h \in Handler,
             \/ Spawn(h) \/ SpawnFails(h) \/ CheckClip(h) \/ CheckAvailable(h) \/ PublishFails(h)
      PROVE  digest' = digest /\ evidence'[r] = evidence[r]
  BY <1>0, <1>2 DEF Spawn, SpawnFails, CheckClip, CheckAvailable, PublishFails, GiveUp, Failed, Run
<1>3. ASSUME NEW h \in Handler, Publish(h)
      PROVE  digest'[r] = digest[r] /\ evidence'[r] = evidence[r]
  BY <1>0, <1>3 DEF Publish, Ready, Run
<1>4. CASE ProcessExits \/ Relaunch \/ UNCHANGED recordingVars
  BY <1>4 DEF ProcessExits, Relaunch, recordingVars, record
<1> QED BY <1>1, <1>2, <1>3, <1>4 DEF RecordingNext

(* For any number of runs, leaders, handlers and crashes: a recording that *)
(* is READY or FAILED stays so, with its hash (evidence-repository.ts,     *)
(* leader-video-recorder.ts).                                              *)
THEOREM EvidenceStaysFinal == RecordingSpec => EvidenceIsFinal
<1>1. FilmsInv /\ [RecordingNext]_recordingVars
      => [\A r \in Session : evidence[r] \in {"READY", "FAILED"}
            => evidence'[r] = evidence[r] /\ digest'[r] = digest[r]]_recordingVars
  BY EvidenceStep
<1> QED BY <1>1, RecordingTypes, PTL DEF RecordingSpec, EvidenceIsFinal

(* A handler is publishing the clip of r, or giving it up: whatever comes  *)
(* of it, its row is settled.                                              *)
Settling(r) ==
  \E h \in Handler :
    handler[h].run = r /\ handler[h].pc \in {"exiting", "stat", "available", "copying"}

(* The one handler of r is starting it for the first time.                 *)
Opening(r, places) ==
  \E h \in Handler :
    /\ handler[h].run = r /\ handler[h].from = "PREFLIGHT" /\ handler[h].pc \in places
    /\ \A g \in Handler : handler[g].run = r => g = h

(* Until a run has a row it has not begun.  While its row is PENDING it is *)
(* being settled, or being opened, or it runs and the recorder holds it    *)
(* for the handler that will stop it.                                      *)
Owned(r) ==
  /\ evidence[r] = "none" =>
       /\ state[r] = "PREFLIGHT" /\ active # r
       /\ \/ \A h \in Handler : handler[h].run # r
          \/ served[r] /\ Opening(r, {"begin", "mkdir"})
  /\ evidence[r] = "PENDING" =>
       \/ Settling(r)
       \/ /\ state[r] = "PREFLIGHT" /\ served[r]
          /\ \/ Opening(r, {"spawned"})
             \/ active = r /\ Opening(r, {"commit"})
       \/ /\ state[r] = "RUNNING" /\ active = r
          /\ \A h \in Handler : handler[h].run = r => handler[h].pc = "stop"

(* The recorder has one recording to hold: of two runs that meet there one *)
(* is turned away, or loses its recording to the other.                    *)
OwnedInv ==
  /\ FilmsInv /\ Remembered
  /\ stops = 0 => \A r \in Session \ collided : Owned(r)

(* What a step counts and remembers; who collided is not forgotten.        *)
LEMMA RememberedStays ==
  ASSUME FilmsInv, Remembered, [RecordingNext]_recordingVars
  PROVE  Remembered' /\ collided \subseteq collided'
<1>0. /\ opens \in 0..MaxOpens /\ MaxOpens \in Nat /\ collided \subseteq Session
      /\ active \in Session \cup {"none"}
  BY LeaderRecordingAssumption DEF Remembered, FilmsInv, RowsTyped
<1>1. ASSUME NEW h \in Handler, BeginRecording(h) \/ Spawned(h)
      PROVE  /\ UNCHANGED opens
             /\ collided' = collided \cup Collision(Run(h)) /\ Run(h) \in Session
  BY <1>1, HandlerAtWork DEF BeginRecording, Spawned, In, Run
<1>2. \A r \in Session : Collision(r) \subseteq Session
  BY <1>0 DEF Collision
<1>3. ASSUME NEW h \in Handler, Open(h)
      PROVE  opens' \in 0..MaxOpens /\ UNCHANGED collided
  BY <1>0, <1>3 DEF Open
<1>4. ASSUME NEW h \in Handler,
             \/ Spawn(h) \/ SpawnFails(h) \/ CommitOpen(h) \/ CloseRun(h) \/ StopRecording(h)
             \/ ProcessStops(h) \/ CheckClip(h) \/ CheckAvailable(h) \/ Publish(h)
             \/ PublishFails(h) \/ CommitClose(h)
      PROVE  UNCHANGED <<opens, collided>>
  BY <1>4 DEF Spawn, SpawnFails, CommitOpen, CloseRun, StopRecording, ProcessStops, CheckClip,
              CheckAvailable, Publish, PublishFails, CommitClose
<1>5. ASSUME ProcessExits \/ Relaunch \/ UNCHANGED recordingVars
      PROVE  UNCHANGED <<opens, collided>>
  BY <1>5 DEF ProcessExits, Relaunch, recordingVars
<1>6. CASE \E h \in Handler : BeginRecording(h) \/ Spawned(h)
  BY <1>0, <1>1, <1>2, <1>6 DEF Remembered
<1> QED BY <1>0, <1>3, <1>4, <1>5, <1>6 DEF Remembered, RecordingNext

LEMMA OwnedAtFirst == RecordingInit => OwnedInv
<1>0. RecordingInit => Remembered
  BY LeaderRecordingAssumption DEF RecordingInit, Remembered
<1> SUFFICES ASSUME RecordingInit, NEW r \in Session PROVE Owned(r)
  BY <1>0, RecordingInitHolds DEF OwnedInv
<1>1. /\ evidence[r] = "none" /\ state[r] = "PREFLIGHT" /\ active = "none"
      /\ \A h \in Handler : handler[h].run = "none"
  BY FreeFields DEF RecordingInit
<1> QED BY <1>1, LeaderRecordingAssumption DEF Owned

(* What a handler of r may read of it.                                     *)
LEMMA HandlerOf ==
  ASSUME NEW r \in Session, Owned(r), NEW h \in Handler, handler[h].run = r
  PROVE  /\ evidence[r] = "none" =>
              /\ state[r] = "PREFLIGHT" /\ active # r /\ served[r]
              /\ handler[h].from = "PREFLIGHT" /\ handler[h].pc \in {"begin", "mkdir"}
              /\ \A g \in Handler : handler[g].run = r => g = h
         /\ evidence[r] = "PENDING" =>
              \/ Settling(r)
              \/ /\ state[r] = "PREFLIGHT" /\ served[r] /\ handler[h].from = "PREFLIGHT"
                 /\ \/ handler[h].pc = "spawned"
                    \/ active = r /\ handler[h].pc = "commit"
                 /\ \A g \in Handler : handler[g].run = r => g = h
              \/ /\ state[r] = "RUNNING" /\ active = r /\ handler[h].pc = "stop"
                 /\ \A g \in Handler : handler[g].run = r => handler[g].pc = "stop"
BY DEF Owned, Opening

(* A handler that does not settle r leaves those that do at it.            *)
LEMMA SettlingGoesOn ==
  ASSUME NEW r \in Session, NEW h \in Handler, Settling(r),
         handler[h].pc \notin {"exiting", "stat", "available", "copying"},
         \A g \in Handler \ {h} : handler'[g] = handler[g]
  PROVE  Settling(r)'
BY DEF Settling

(* A handler of another run leaves r as it is, unless it takes the         *)
(* recorder away from it.                                                  *)
LEMMA OtherRunLeavesOwned ==
  ASSUME NEW r \in Session, Owned(r), NEW h \in Handler,
         handler[h].run # r, handler'[h].run # r,
         \A g \in Handler \ {h} : handler'[g] = handler[g],
         evidence'[r] = evidence[r], state'[r] = state[r], served'[r] = served[r],
         active' = r <=> active = r
  PROVE  Owned(r)'
<1>1. \A g \in Handler : /\ handler'[g].run = r <=> handler[g].run = r
                         /\ handler[g].run = r => handler'[g] = handler[g]
  OBVIOUS
<1>2. Settling(r)' <=> Settling(r)
  BY <1>1 DEF Settling
<1>3. \A places : Opening(r, places)' <=> Opening(r, places)
  BY <1>1 DEF Opening
<1>4. (\A g \in Handler : handler'[g].run # r) <=> (\A g \in Handler : handler[g].run # r)
  BY <1>1
<1>5. (\A g \in Handler : handler'[g].run = r => handler'[g].pc = "stop")
      <=> (\A g \in Handler : handler[g].run = r => handler[g].pc = "stop")
  BY <1>1
<1> HIDE <1>1
<1> QED BY <1>2, <1>3, <1>4, <1>5 DEF Owned

LEMMA OpenKeepsOwned ==
  ASSUME OwnedInv, stops = 0, NEW h \in Handler, NEW r \in Session,
         Owned(r), r \notin collided',
         handler[h].pc = "free" => handler'[h].run = r,
         handler[h].pc # "free" => handler[h].run = r,
         Open(h) \/ BeginRecording(h) \/ CommitOpen(h) \/ CloseRun(h)
  PROVE  Owned(r)'
<1>0. /\ FilmsInv /\ Owned(r) /\ DOMAIN handler = Handler
      /\ served \in [Session -> BOOLEAN] /\ active \in Session \cup {"none"}
      /\ DOMAIN state = Session
  BY DEF OwnedInv, FilmsInv, HandlersAreSound, RowsTyped
<1>1. UNCHANGED evidence
  BY DEF Open, BeginRecording, CommitOpen, CloseRun, record
<1>2. CASE Open(h)
  <2>1. PICK s \in Leader :
          /\ state[r] \in {"PREFLIGHT", "PAUSED"} /\ ~ served[r]
          /\ served' = [served EXCEPT ![r] = TRUE]
          /\ handler' = [handler EXCEPT ![h] = [op |-> "open", pc |-> "begin", run |-> r,
                                                from |-> state[r], lead |-> s, copy |-> 0]]
    <3>1. PICK q \in Session, s \in Leader :
            /\ state[q] \in {"PREFLIGHT", "PAUSED"} /\ ~ served[q]
            /\ served' = [served EXCEPT ![q] = TRUE]
            /\ handler' = [handler EXCEPT ![h] = [op |-> "open", pc |-> "begin", run |-> q,
                                                  from |-> state[q], lead |-> s, copy |-> 0]]
      BY <1>2 DEF Open
    <3>2. handler'[h].run = q /\ handler[h].pc = "free"
      BY <1>0, <1>2, <3>1 DEF Open, In
    <3> QED BY <3>1, <3>2
  <2>2. UNCHANGED <<state, active>> /\ handler[h].pc = "free"
    BY <1>2 DEF Open, In
  <2>3. /\ handler'[h].run = r /\ handler'[h].pc = "begin" /\ handler'[h].from = state[r]
        /\ \A g \in Handler \ {h} : handler'[g] = handler[g]
        /\ served'[r]
    BY <1>0, <2>1
  <2>4. CASE evidence[r] = "none"
    <3>1. state[r] = "PREFLIGHT" /\ active # r /\ \A g \in Handler : handler[g].run # r
      BY <1>0, <2>1, <2>4 DEF Owned
    <3>2. Opening(r, {"begin", "mkdir"})'
      BY <2>3, <3>1 DEF Opening
    <3> QED BY <1>1, <2>2, <2>3, <2>4, <3>1, <3>2 DEF Owned
  <2>5. CASE evidence[r] = "PENDING"
    <3>1. Settling(r)
      BY <1>0, <2>1, <2>5 DEF Owned
    <3>2. Settling(r)'
      BY <2>2, <2>3, <3>1, SettlingGoesOn
    <3> QED BY <1>1, <2>5, <3>2 DEF Owned
  <2> QED BY <1>1, <2>4, <2>5 DEF Owned
<1>3. ASSUME BeginRecording(h) \/ CommitOpen(h)
      PROVE  handler[h].run = r /\ handler[h].pc \in {"begin", "commit"}
  BY <1>0, <1>3 DEF BeginRecording, CommitOpen, In
<1>4. CASE BeginRecording(h)
  <2>1. /\ handler[h].pc = "begin" /\ UNCHANGED <<state, served, active>>
        /\ handler' = [handler EXCEPT ![h].pc = IF active = "none" THEN "mkdir" ELSE "commit"]
    BY <1>4 DEF BeginRecording, In, Goto
  <2>2. /\ \A g \in Handler \ {h} : handler'[g] = handler[g]
        /\ handler'[h] = [handler[h] EXCEPT !.pc = IF active = "none" THEN "mkdir" ELSE "commit"]
    BY <1>0, <2>1
  <2>3. handler[h] \in HandlerRecord /\ handler[h].run = r
    BY <1>0, <1>3, <1>4, <2>1, HandlerAtWork
  <2>4. /\ handler'[h].run = r /\ handler'[h].from = handler[h].from
        /\ handler'[h].pc = IF active = "none" THEN "mkdir" ELSE "commit"
    BY <2>2, <2>3 DEF HandlerRecord
  <2>5. CASE evidence[r] = "none"
    <3>1. /\ state[r] = "PREFLIGHT" /\ active # r /\ served[r] /\ handler[h].from = "PREFLIGHT"
          /\ \A g \in Handler : handler[g].run = r => g = h
      BY <1>0, <2>3, <2>5, HandlerOf
    <3>2. active = "none"
      BY <1>0, <1>4, <2>3, <3>1 DEF BeginRecording, Collision, Run
    <3>3. /\ handler'[h].pc = "mkdir" /\ handler'[h].run = r
          /\ handler'[h].from = "PREFLIGHT"
      BY <2>4, <3>1, <3>2
    <3>4. \A g \in Handler : handler'[g].run = r => g = h
      BY <2>2, <3>1
    <3>5. Opening(r, {"begin", "mkdir"})'
      BY <3>3, <3>4 DEF Opening
    <3> QED BY <1>1, <2>1, <2>5, <3>1, <3>5 DEF Owned
  <2>6. CASE evidence[r] = "PENDING"
    <3>1. Settling(r)
      BY <1>0, <2>1, <2>3, <2>6, HandlerOf
    <3>2. Settling(r)'
      BY <2>1, <2>2, <3>1, SettlingGoesOn
    <3> QED BY <1>1, <2>6, <3>2 DEF Owned
  <2> QED BY <1>1, <2>5, <2>6 DEF Owned
<1>5. CASE CommitOpen(h)
  <2>1. handler[h].pc = "commit" /\ handler[h].run = r /\ UNCHANGED <<served, active>>
    BY <1>3, <1>5 DEF CommitOpen, In
  <2>2. \A g \in Handler \ {h} : handler'[g] = handler[g]
    BY <1>0, <1>5 DEF CommitOpen, Free1
  <2>3. evidence[r] # "none"
    BY <1>0, <2>1, HandlerOf
  <2>4. CASE evidence[r] = "PENDING" /\ ~ Settling(r)
    <3>1. /\ state[r] = "PREFLIGHT" /\ handler[h].from = "PREFLIGHT" /\ active = r
          /\ \A g \in Handler : handler[g].run = r => g = h
      BY <1>0, <2>1, <2>4, HandlerOf
    <3>2. state' = [state EXCEPT ![r] = "RUNNING"] /\ handler' = [handler EXCEPT ![h] = Free]
      BY <1>5, <2>1, <3>1 DEF CommitOpen, Run, Free1
    <3>3. state'[r] = "RUNNING" /\ handler'[h] = Free
      BY <1>0, <3>2
    <3>4. handler'[h].run # r
      BY <3>3, FreeFields, LeaderRecordingAssumption
    <3>5. \A g \in Handler : handler'[g].run # r
      BY <2>2, <3>1, <3>4
    <3> QED BY <1>1, <2>1, <2>3, <3>1, <3>3, <3>5 DEF Owned
  <2>5. CASE evidence[r] = "PENDING" /\ Settling(r)
    <3>1. Settling(r)'
      BY <2>1, <2>2, <2>5, SettlingGoesOn
    <3> QED BY <1>1, <2>5, <3>1 DEF Owned
  <2> QED BY <1>1, <2>3, <2>4, <2>5 DEF Owned
<1>6. CASE CloseRun(h)
  <2>1. PICK op \in {"pause", "complete"} :
          /\ state[r] \in {"RUNNING", "PAUSED"}
          /\ handler' = [handler EXCEPT ![h] = [op |-> op, pc |-> "stop", run |-> r,
                                                from |-> state[r], lead |-> leader[r],
                                                copy |-> 0]]
    <3>1. PICK q \in Session, op \in {"pause", "complete"} :
            /\ state[q] \in {"RUNNING", "PAUSED"}
            /\ handler' = [handler EXCEPT ![h] = [op |-> op, pc |-> "stop", run |-> q,
                                                  from |-> state[q], lead |-> leader[q],
                                                  copy |-> 0]]
      BY <1>6 DEF CloseRun
    <3>2. handler'[h].run = q /\ handler[h].pc = "free"
      BY <1>0, <1>6, <3>1 DEF CloseRun, In
    <3> QED BY <3>1, <3>2
  <2>2. UNCHANGED <<state, active>> /\ handler[h].pc = "free"
    BY <1>6 DEF CloseRun, In
  <2>3. /\ handler'[h].run = r /\ handler'[h].pc = "stop"
        /\ \A g \in Handler \ {h} : handler'[g] = handler[g]
    BY <1>0, <2>1
  <2>4. evidence[r] # "none"
    BY <1>0, <2>1 DEF Owned
  <2>5. CASE evidence[r] = "PENDING" /\ ~ Settling(r)
    <3>1. /\ state[r] = "RUNNING" /\ active = r
          /\ \A g \in Handler : handler[g].run = r => handler[g].pc = "stop"
      BY <1>0, <2>1, <2>5 DEF Owned
    <3> QED BY <1>1, <2>2, <2>3, <2>5, <3>1 DEF Owned
  <2>6. CASE evidence[r] = "PENDING" /\ Settling(r)
    <3>1. Settling(r)'
      BY <2>2, <2>3, <2>6, SettlingGoesOn
    <3> QED BY <1>1, <2>6, <3>1 DEF Owned
  <2> QED BY <1>1, <2>4, <2>5, <2>6 DEF Owned
<1> QED BY <1>2, <1>4, <1>5, <1>6

LEMMA StartKeepsOwned ==
  ASSUME OwnedInv, stops = 0, NEW h \in Handler, NEW r \in Session,
         Owned(r), handler[h].run = r,
         Spawn(h) \/ Spawned(h) \/ SpawnFails(h)
  PROVE  Owned(r)'
<1>0. /\ FilmsInv /\ Owned(r) /\ DOMAIN handler = Handler
      /\ evidence \in [Session -> {"none", "PENDING", "READY", "FAILED"}]
  BY DEF OwnedInv, FilmsInv, HandlersAreSound, RowsTyped
<1>1. /\ handler[h].run = r /\ handler[h] \in HandlerRecord
      /\ handler[h].pc \in {"mkdir", "spawned"}
  BY <1>0, HandlerAtWork DEF Spawn, Spawned, SpawnFails, In
<1>2. PICK p \in {"spawned", "commit"} : Goto(h, p)
  BY DEF Spawn, Spawned, SpawnFails
<1>3. /\ \A g \in Handler \ {h} : handler'[g] = handler[g]
      /\ handler'[h] = [handler[h] EXCEPT !.pc = p]
  BY <1>0, <1>2 DEF Goto
<1>4. handler'[h].run = r /\ handler'[h].from = handler[h].from /\ handler'[h].pc = p
  BY <1>1, <1>3 DEF HandlerRecord
<1>5. UNCHANGED <<state, served>>
  BY DEF Spawn, Spawned, SpawnFails
<1>6. CASE evidence[r] \in {"READY", "FAILED"}
  <2>1. evidence'[r] = evidence[r]
    BY <1>0, <1>6, EvidenceStep DEF RecordingNext
  <2> QED BY <1>6, <2>1 DEF Owned
<1>7. CASE evidence[r] = "none"
  <2>1. /\ state[r] = "PREFLIGHT" /\ served[r] /\ handler[h].from = "PREFLIGHT"
        /\ handler[h].pc = "mkdir" /\ \A g \in Handler : handler[g].run = r => g = h
    BY <1>0, <1>1, <1>7, HandlerOf
  <2>2. Spawn(h) /\ SameRecording(h)
    BY <1>1, <1>7, <2>1 DEF Spawned, SpawnFails, In, SameRecording, Run
  <2>3. evidence'[r] = "PENDING" /\ Goto(h, "spawned")
    BY <1>0, <1>1, <1>7, <2>2 DEF Spawn, Run
  <2>4. handler'[h] = [handler[h] EXCEPT !.pc = "spawned"]
    BY <1>0, <2>3 DEF Goto
  <2>5. handler'[h].pc = "spawned"
    BY <1>1, <2>4 DEF HandlerRecord
  <2>6. \A g \in Handler : handler'[g].run = r => g = h
    BY <1>3, <2>1
  <2>7. Opening(r, {"spawned"})'
    BY <1>4, <2>1, <2>5, <2>6 DEF Opening
  <2> QED BY <1>5, <2>1, <2>3, <2>7 DEF Owned
<1>8. CASE evidence[r] = "PENDING" /\ Settling(r)
  <2>1. Settling(r)'
    BY <1>1, <1>3, <1>8, SettlingGoesOn
  <2>2. evidence'[r] # "none"
    BY <1>0, <1>1, <1>8 DEF Spawn, Spawned, SpawnFails, Failed, Run, record
  <2> QED BY <2>1, <2>2 DEF Owned
<1>9. CASE evidence[r] = "PENDING" /\ ~ Settling(r)
  <2>1. /\ state[r] = "PREFLIGHT" /\ served[r] /\ handler[h].from = "PREFLIGHT"
        /\ handler[h].pc = "spawned" /\ \A g \in Handler : handler[g].run = r => g = h
    BY <1>0, <1>1, <1>9, HandlerOf
  <2>2. CASE SpawnFails(h)
    <3>1. evidence'[r] = "FAILED"
      BY <1>0, <1>1, <1>9, <2>2 DEF SpawnFails, Failed, Run
    <3> QED BY <3>1 DEF Owned
  <2>3. CASE Spawned(h)
    <3>1. evidence'[r] = "PENDING" /\ active' = r /\ Goto(h, "commit")
      BY <1>1, <1>9, <2>3 DEF Spawned, Run, record
    <3>2. handler'[h] = [handler[h] EXCEPT !.pc = "commit"]
      BY <1>0, <3>1 DEF Goto
    <3>3. handler'[h].pc = "commit"
      BY <1>1, <3>2 DEF HandlerRecord
    <3>4. \A g \in Handler : handler'[g].run = r => g = h
      BY <1>3, <2>1
    <3>5. Opening(r, {"commit"})'
      BY <1>4, <2>1, <3>3, <3>4 DEF Opening
    <3> QED BY <1>5, <2>1, <3>1, <3>5 DEF Owned
  <2> QED BY <2>1, <2>2, <2>3 DEF Spawn, In
<1> QED BY <1>0, <1>6, <1>7, <1>8, <1>9

LEMMA StopKeepsOwned ==
  ASSUME OwnedInv, stops = 0, NEW h \in Handler, NEW r \in Session,
         Owned(r), handler[h].run = r,
         \/ StopRecording(h) \/ ProcessStops(h) \/ CheckClip(h) \/ CheckAvailable(h)
         \/ Publish(h) \/ PublishFails(h) \/ CommitClose(h)
  PROVE  Owned(r)'
<1>0. /\ FilmsInv /\ Owned(r) /\ DOMAIN handler = Handler
      /\ evidence \in [Session -> {"none", "PENDING", "READY", "FAILED"}]
  BY DEF OwnedInv, FilmsInv, HandlersAreSound, RowsTyped
<1>1. /\ handler[h].run = r /\ handler[h] \in HandlerRecord
      /\ handler[h].pc \in {"stop", "exiting", "stat", "available", "copying", "closing"}
  BY <1>0, HandlerAtWork
     DEF StopRecording, ProcessStops, CheckClip, CheckAvailable, Publish, PublishFails,
         CommitClose, In
<1>2. evidence[r] # "none"
  BY <1>0, <1>1, HandlerOf
<1>3. \A g \in Handler \ {h} : handler'[g] = handler[g]
  BY <1>0 DEF StopRecording, ProcessStops, CheckClip, CheckAvailable, Publish, PublishFails,
              CommitClose, Goto, GiveUp, Free1
<1>4. CASE evidence[r] \in {"READY", "FAILED"}
  <2>1. evidence'[r] = evidence[r]
    BY <1>0, <1>4, EvidenceStep DEF RecordingNext
  <2> QED BY <1>4, <2>1 DEF Owned
<1>5. CASE evidence[r] = "PENDING"
  <2>1. ASSUME Goto(h, "exiting") \/ Goto(h, "stat") \/ Goto(h, "available")
               \/ handler' = [handler EXCEPT ![h].pc = "copying", ![h].copy = clip[Run(h)]],
               UNCHANGED evidence
        PROVE  Owned(r)'
    <3> DEFINE z == handler'[h]
    <3>1. z.run = r /\ z.pc \in {"exiting", "stat", "available", "copying"}
      <4>1. CASE handler' = [handler EXCEPT ![h].pc = "copying", ![h].copy = clip[Run(h)]]
        <5>1. z = [[handler[h] EXCEPT !.pc = "copying"] EXCEPT !.copy = clip[Run(h)]]
          BY <1>0, <4>1
        <5> QED BY <1>1, <5>1 DEF HandlerRecord
      <4>2. ASSUME NEW p \in {"exiting", "stat", "available"}, Goto(h, p)
            PROVE  z.run = r /\ z.pc = p
        <5>1. z = [handler[h] EXCEPT !.pc = p]
          BY <1>0, <4>2 DEF Goto
        <5> QED BY <1>1, <5>1 DEF HandlerRecord
      <4> QED BY <2>1, <4>1, <4>2
    <3>2. Settling(r)'
      BY <3>1 DEF Settling
    <3> QED BY <1>5, <2>1, <3>2 DEF Owned
  <2>2. ASSUME GiveUp(h)  PROVE  Owned(r)'
    <3>1. evidence'[r] = "FAILED"
      BY <1>0, <1>1, <1>5, <2>2 DEF GiveUp, Failed, Run
    <3> QED BY <3>1 DEF Owned
  <2>3. CASE StopRecording(h)
    <3>1. handler[h].pc = "stop" /\ UNCHANGED <<evidence, state>>
      BY <2>3 DEF StopRecording, In, record
    <3>2. CASE Settling(r)
      <4>1. Settling(r)'
        BY <1>3, <3>1, <3>2, SettlingGoesOn
      <4> QED BY <1>5, <3>1, <4>1 DEF Owned
    <3>3. CASE ~ Settling(r)
      <4>1. active = r
        BY <1>0, <1>1, <1>5, <3>1, <3>3, HandlerOf
      <4>2. Goto(h, "exiting")
        BY <1>1, <2>3, <4>1 DEF StopRecording, Run
      <4> QED BY <2>1, <3>1, <4>2
    <3> QED BY <3>2, <3>3
  <2>4. CASE ProcessStops(h)
    BY <2>1, <2>4 DEF ProcessStops, record
  <2>5. CASE CheckClip(h)
    BY <2>1, <2>2, <2>5 DEF CheckClip
  <2>6. CASE CheckAvailable(h)
    BY <2>1, <2>2, <2>6 DEF CheckAvailable
  <2>7. CASE Publish(h)
    <3>1. evidence'[r] = "READY"
      BY <1>0, <1>1, <1>5, <2>7 DEF Publish, Ready, Run
    <3> QED BY <3>1 DEF Owned
  <2>8. CASE PublishFails(h)
    BY <2>2, <2>8 DEF PublishFails
  <2>9. CASE CommitClose(h)
    <3>1. handler[h].pc = "closing" /\ UNCHANGED evidence
      BY <2>9 DEF CommitClose, In, record
    <3>2. Settling(r)
      BY <1>0, <1>1, <1>5, <3>1, HandlerOf
    <3>3. Settling(r)'
      BY <1>3, <3>1, <3>2, SettlingGoesOn
    <3> QED BY <1>5, <3>1, <3>3 DEF Owned
  <2> QED BY <2>3, <2>4, <2>5, <2>6, <2>7, <2>8, <2>9
<1> QED BY <1>0, <1>2, <1>4, <1>5

LEMMA OthersKeepOwned ==
  ASSUME OwnedInv, NEW h \in Handler, NEW r \in Session, Owned(r), r \notin collided',
         handler[h].pc = "free" => handler'[h].run # r,
         handler[h].pc # "free" => handler[h].run # r,
         \/ Open(h) \/ BeginRecording(h) \/ CommitOpen(h) \/ CloseRun(h)
         \/ Spawn(h) \/ Spawned(h) \/ SpawnFails(h) \/ StopRecording(h) \/ ProcessStops(h)
         \/ CheckClip(h) \/ CheckAvailable(h) \/ Publish(h) \/ PublishFails(h)
         \/ CommitClose(h)
  PROVE  Owned(r)'
<1>0. /\ FilmsInv /\ DOMAIN handler = Handler /\ DOMAIN state = Session
      /\ DOMAIN served = Session /\ DOMAIN evidence = Session
      /\ r # "none" /\ Free.run = "none"
  BY LeaderRecordingAssumption, FreeFields DEF OwnedInv, FilmsInv, HandlersAreSound, RowsTyped
<1>1. CASE Open(h) \/ CloseRun(h)
  <2>1. /\ handler[h].pc = "free" /\ UNCHANGED <<evidence, state, active>>
        /\ \A g \in Handler \ {h} : handler'[g] = handler[g]
    BY <1>0, <1>1 DEF Open, CloseRun, In, record
  <2>2. handler[h] = Free
    BY <2>1 DEF OwnedInv, FilmsInv, HandlersAreSound, HandlerIsSound, HandlerRecord, Places
  <2>3. served'[r] = served[r]
    <3>1. PICK q \in Session : handler'[h].run = q /\ \E b : served' = [served EXCEPT ![q] = b]
      BY <1>0, <1>1 DEF Open, CloseRun
    <3> QED BY <1>0, <2>1, <3>1
  <2> QED BY <1>0, <2>1, <2>2, <2>3, OtherRunLeavesOwned
<1>2. CASE \/ BeginRecording(h) \/ CommitOpen(h) \/ Spawn(h) \/ Spawned(h) \/ SpawnFails(h)
           \/ StopRecording(h) \/ ProcessStops(h) \/ CheckClip(h) \/ CheckAvailable(h)
           \/ Publish(h) \/ PublishFails(h) \/ CommitClose(h)
  <2> DEFINE q == handler[h].run
  <2>1. handler[h].pc # "free"
    BY <1>2 DEF BeginRecording, CommitOpen, Spawn, Spawned, SpawnFails, StopRecording,
                ProcessStops, CheckClip, CheckAvailable, Publish, PublishFails, CommitClose, In
  <2>2. q \in Session /\ q # r /\ Run(h) = q /\ handler[h] \in HandlerRecord
    BY <1>0, <2>1, HandlerAtWork DEF Run
  <2>3. /\ DOMAIN handler' = Handler /\ \A g \in Handler \ {h} : handler'[g] = handler[g]
        /\ \/ handler'[h] = Free
           \/ \E p, x : handler'[h] = [handler[h] EXCEPT !.pc = p, !.copy = x]
           \/ \E p, x : handler'[h] = [handler[h] EXCEPT !.pc = p, !.op = x]
           \/ \E p : handler'[h] = [handler[h] EXCEPT !.pc = p]
    <3>1. CASE \E p : Goto(h, p)
      BY <1>0, <3>1 DEF Goto
    <3>2. CASE Free1(h)
      BY <1>0, <3>2 DEF Free1
    <3>3. CASE GiveUp(h) \/ Publish(h)
      <4>1. handler' = [handler EXCEPT ![h].pc = "closing", ![h].copy = 0]
        BY <3>3 DEF GiveUp, Publish
      <4>2. handler'[h] = [handler[h] EXCEPT !.pc = "closing", !.copy = 0]
        BY <1>0, <4>1
      <4> QED BY <1>0, <4>1, <4>2
    <3>4. CASE handler' = [handler EXCEPT ![h].pc = "copying", ![h].copy = clip[Run(h)]]
      BY <1>0, <3>4
    <3>5. CASE handler' = [handler EXCEPT ![h].pc = "stop", ![h].op = "unwind"]
      BY <1>0, <3>5
    <3> QED BY <1>2, <3>1, <3>2, <3>3, <3>4, <3>5
            DEF BeginRecording, CommitOpen, Spawn, Spawned, SpawnFails, StopRecording,
                ProcessStops, CheckClip, CheckAvailable, PublishFails, CommitClose
  <2>4. handler'[h].run # r
    <3> HIDE DEF q
    <3> QED BY <1>0, <2>2, <2>3 DEF HandlerRecord, q
  <2>5. evidence'[r] = evidence[r]
    BY <1>0, <1>2, <2>2
       DEF BeginRecording, CommitOpen, Spawn, Spawned, SpawnFails, StopRecording, ProcessStops,
           CheckClip, CheckAvailable, Publish, PublishFails, CommitClose, GiveUp, Failed, Ready,
           record
  <2>6. state'[r] = state[r] /\ served'[r] = served[r]
    BY <1>0, <1>2, <2>2
       DEF BeginRecording, CommitOpen, Spawn, Spawned, SpawnFails, StopRecording, ProcessStops,
           CheckClip, CheckAvailable, Publish, PublishFails, CommitClose
  <2>7. active' = r <=> active = r
    <3>1. CASE Spawned(h)
      BY <1>0, <2>2, <3>1 DEF Spawned, Collision
    <3>2. CASE StopRecording(h)
      BY <1>0, <2>2, <3>2 DEF StopRecording
    <3>3. CASE UNCHANGED active
      BY <3>3
    <3> QED BY <1>2, <3>1, <3>2, <3>3
            DEF BeginRecording, CommitOpen, Spawn, SpawnFails, ProcessStops, CheckClip,
                CheckAvailable, Publish, PublishFails, CommitClose
  <2> QED BY <2>2, <2>3, <2>4, <2>5, <2>6, <2>7, OtherRunLeavesOwned
<1> QED BY <1>1, <1>2

LEMMA OwnedNextHolds == OwnedInv /\ [RecordingNext]_recordingVars => OwnedInv'
<1> SUFFICES ASSUME OwnedInv, [RecordingNext]_recordingVars, stops' = 0, NEW r \in Session,
                    r \notin collided'
             PROVE  Owned(r)'
  BY RecordingNextHolds, RememberedStays DEF OwnedInv
<1>0. r \notin collided /\ FilmsInv
  BY RememberedStays DEF OwnedInv
<1>1. CASE \E h \in Handler :
             \/ Open(h) \/ BeginRecording(h) \/ CommitOpen(h) \/ CloseRun(h)
             \/ Spawn(h) \/ Spawned(h) \/ SpawnFails(h) \/ StopRecording(h) \/ ProcessStops(h)
             \/ CheckClip(h) \/ CheckAvailable(h) \/ Publish(h) \/ PublishFails(h)
             \/ CommitClose(h)
  <2>1. stops = 0
    BY <1>1 DEF Open, BeginRecording, CommitOpen, CloseRun, Spawn, Spawned, SpawnFails,
                StopRecording, ProcessStops, CheckClip, CheckAvailable, Publish, PublishFails,
                CommitClose
  <2>2. Owned(r)
    BY <1>0, <2>1 DEF OwnedInv
  <2>3. PICK h \in Handler :
             \/ Open(h) \/ BeginRecording(h) \/ CommitOpen(h) \/ CloseRun(h)
             \/ Spawn(h) \/ Spawned(h) \/ SpawnFails(h) \/ StopRecording(h) \/ ProcessStops(h)
             \/ CheckClip(h) \/ CheckAvailable(h) \/ Publish(h) \/ PublishFails(h)
             \/ CommitClose(h)
    BY <1>1
  <2>4. (Open(h) \/ CloseRun(h)) <=> handler[h].pc = "free"
    BY <2>3 DEF Open, BeginRecording, CommitOpen, CloseRun, Spawn, Spawned, SpawnFails,
                StopRecording, ProcessStops, CheckClip, CheckAvailable, Publish, PublishFails,
                CommitClose, In
  <2>5. CASE IF handler[h].pc = "free" THEN handler'[h].run = r ELSE handler[h].run = r
    BY <1>0, <2>1, <2>2, <2>3, <2>4, <2>5, OpenKeepsOwned, StartKeepsOwned, StopKeepsOwned
  <2>6. CASE ~ IF handler[h].pc = "free" THEN handler'[h].run = r ELSE handler[h].run = r
    BY <2>2, <2>3, <2>6, OthersKeepOwned
  <2> QED BY <2>5, <2>6
<1>2. CASE ProcessExits \/ UNCHANGED recordingVars
  <2>1. UNCHANGED <<state, served, active, evidence, handler, stops>>
    BY <1>2 DEF ProcessExits, recordingVars, record
  <2> QED BY <1>0, <2>1 DEF OwnedInv, Owned, Settling, Opening
<1>3. ~ Relaunch
  BY DEF Relaunch, OwnedInv, FilmsInv, RowsTyped
<1> QED BY <1>1, <1>2, <1>3 DEF RecordingNext

(* For any number of runs and overlapping handlers: the recording of a     *)
(* FINISHED run that no handler is closing is settled, unless the server   *)
(* was killed meanwhile, or another run's recording met it at the recorder *)
(* (session-runtime.ts, leader-video-recorder.ts).                         *)
THEOREM RecordingsSettle == RecordingSpec => [](RecordingTypeOK /\ SettledAtTheEnd)
<1>1. RecordingSpec => []OwnedInv
  BY OwnedAtFirst, OwnedNextHolds, PTL DEF RecordingSpec
<1>2. OwnedInv => RecordingTypeOK /\ SettledAtTheEnd
  <2>1. OwnedInv => RecordingTypeOK
    BY DEF OwnedInv, FilmsInv, RowsTyped, Remembered, RecordingTypeOK
  <2>2. ASSUME OwnedInv, NEW r \in Session \ collided, state[r] = "FINISHED", stops = 0,
               \A h \in Handler : handler[h].run # r
        PROVE  evidence[r] # "PENDING"
    BY <2>2 DEF OwnedInv, Owned, Settling, Opening
  <2> QED BY <2>1, <2>2 DEF SettledAtTheEnd
<1> QED BY <1>1, <1>2, PTL
-----------------------------------------------------------------------------
(* What a gesture looks like.                                              *)

LEMMA QuotientIsBelow ==
  ASSUME NEW a \in Nat, NEW d \in Nat \ {0}, NEW k \in Nat, a < d * k
  PROVE  a \div d \in Nat /\ a \div d < k
<1> DEFINE q == a \div d
<1>1. q \in Int /\ d * q <= a
  OBVIOUS
<1>2. q >= 0
  OBVIOUS
<1> HIDE DEF q
<1>3. ASSUME q >= k PROVE FALSE
  <2>1. d * q >= d * k
    BY <1>1, <1>3
  <2> QED BY <1>1, <2>1
<1> QED BY <1>1, <1>2, <1>3

(* A coordinate is rounded to a pixel of the screen.                       *)
LEMMA PixelIsOnScreen ==
  ASSUME NEW n \in 0..Scale, NEW size \in Nat \ {0, 1}
  PROVE  Pixel(n, size) \in Nat /\ Pixel(n, size) < size
<1>1. Scale \in Nat \ {0}
  BY WorkerGesturesAssumption
<1> DEFINE a == 2 * n * (size - 1) + Scale
           d == 2 * Scale
<1>2. n * (size - 1) \in Nat /\ n * (size - 1) <= Scale * (size - 1)
  BY <1>1
<1>3. Scale * size = Scale * (size - 1) + Scale /\ Scale * (size - 1) \in Nat
  BY <1>1
<1>4. 2 * n * (size - 1) = 2 * (n * (size - 1)) /\ d * size = 2 * (Scale * size)
  BY <1>1
<1>5. a \in Nat /\ d \in Nat \ {0} /\ a < d * size
  BY <1>1, <1>2, <1>3, <1>4
<1> HIDE DEF a, d
<1>6. a \div d \in Nat /\ a \div d < size
  BY <1>5, QuotientIsBelow
<1> QED BY <1>6 DEF a, d, Pixel

LEMMA PointIsOnScreen ==
  ASSUME NEW p \in (0..Scale) \X (0..Scale)
  PROVE  Point(p)[1] < Width /\ Point(p)[2] < Height
BY PixelIsOnScreen, WorkerGesturesAssumption DEF Point

\* The time that the first i of the pointer actions m take, as the property
\* adds it up.
TimeTaken(m) ==
  LET took[i \in 0..Len(m)] == IF i = 0 THEN 0 ELSE took[i - 1] + m[i].ms
  IN  took[Len(m)]

\* Added up from the first, a sum is determined.
LEMMA SumsAreDetermined ==
  ASSUME NEW m, Len(m) \in Nat, NEW g, 
         g = [i \in 0..Len(m) |-> IF i = 0 THEN 0 ELSE g[i - 1] + m[i].ms]
  PROVE  TimeTaken(m) = g[Len(m)]
<1> DEFINE Sums(h) == h = [i \in 0..Len(m) |-> IF i = 0 THEN 0 ELSE h[i - 1] + m[i].ms]
           f == CHOOSE h : Sums(h)
<1>1. Sums(f)
  <2>1. Sums(g)
    OBVIOUS
  <2> HIDE DEF Sums
  <2> QED BY <2>1
<1>2. TimeTaken(m) = f[Len(m)]
  BY DEF TimeTaken
<1> HIDE DEF f
<1> DEFINE Off == {i \in 0..Len(m) : f[i] # g[i]}
<1>3. ASSUME Off # {} PROVE FALSE
  <2>1. Off \subseteq Nat
    OBVIOUS
  <2>2. PICK i \in Off : \A j \in Off : i <= j
    <3> HIDE DEF Off
    <3> QED BY <1>3, <2>1, LeastOf
  <2>3. i \in 0..Len(m) /\ f[i] # g[i]
    OBVIOUS
  <2>4. CASE i = 0
    BY <1>1, <2>3, <2>4
  <2>5. CASE i # 0
    <3>1. i - 1 \in 0..Len(m) /\ i - 1 \in Nat /\ i \in Nat /\ ~(i <= i - 1)
      BY <2>3, <2>5
    <3>2. f[i - 1] = g[i - 1]
      BY <2>2, <3>1
    <3>3. f[i] = f[i - 1] + m[i].ms
      BY <1>1, <2>3, <2>5
    <3>4. g[i] = g[i - 1] + m[i].ms
      BY <2>3, <2>5
    <3> QED BY <2>3, <3>2, <3>3, <3>4
  <2> QED BY <2>4, <2>5
<1> QED BY <1>2, <1>3

PointerStep ==
  [is : {"move", "down", "up", "pause"}, at : {<<>>} \cup (Int \X Int), ms : Nat]

\* How a gesture with the path p and the time t looks.
Drawn(m, p, t) ==
  /\ m[1].at = Point(p[1]) /\ m[2] = Press /\ m[Len(m)] = Lift
  /\ \E i \in DOMAIN m : /\ m[i].is = "move" /\ m[i].at = Point(p[Len(p)])
                         /\ \A j \in DOMAIN m : m[j].is = "move" => j <= i
  /\ \A i \in DOMAIN m : m[i].is = "move" => m[i].at[1] < Width /\ m[i].at[2] < Height
  /\ TimeTaken(m) = t

\* The elements of two sequences, one behind the other.
LEMMA Joined ==
  ASSUME NEW S, NEW a \in Seq(S), NEW b \in Seq(S), NEW m, m = a \o b
  PROVE  /\ m \in Seq(S) /\ Len(m) = Len(a) + Len(b)
         /\ \A i \in 1..Len(a) : m[i] = a[i]
         /\ \A i \in 1..Len(b) : m[Len(a) + i] = b[i]
<1>1. /\ a \o b \in Seq(S)
      /\ Len(a \o b) = Len(a) + Len(b)
      /\ \A i \in 1 .. Len(a) + Len(b) : (a \o b)[i] =
                     IF i <= Len(a) THEN a[i] ELSE b[i - Len(a)]
  BY ConcatProperties
<1>2. Len(a) \in Nat /\ Len(b) \in Nat
  BY LenProperties
<1> DEFINE k == Len(a)
           n == Len(b)
           Part(i) == m[i] = IF i <= k THEN a[i] ELSE b[i - k]
<1>3. k \in Nat /\ n \in Nat /\ \A i \in 1..(k + n) : Part(i)
  BY <1>1, <1>2, Zenon
<1> HIDE DEF k, n, Part
<1>4. ASSUME NEW i \in 1..k PROVE m[i] = a[i]
  <2>1. i \in 1..(k + n) /\ i <= k
    BY <1>3
  <2>2. Part(i)
    BY <1>3, <2>1
  <2> QED BY <2>1, <2>2 DEF Part
<1>5. ASSUME NEW i \in 1..n PROVE m[k + i] = b[i]
  <2> DEFINE j == k + i
  <2>1. j \in 1..(k + n) /\ ~(j <= k) /\ j - k = i
    BY <1>3
  <2> HIDE DEF j
  <2>2. Part(j)
    BY <1>3, <2>1
  <2>3. m[j] = b[j - k]
    BY <2>1, <2>2 DEF Part
  <2>4. m[j] = b[i]
    BY <2>1, <2>3
  <2> QED BY <2>4 DEF j
<1> QED BY <1>1, <1>4, <1>5 DEF k, n

\* Two actions before and one behind those in the middle.
LEMMA PressedAndLifted ==
  ASSUME NEW S, NEW x \in S, NEW y \in S, NEW z \in S, NEW mid \in Seq(S),
         NEW m, m = <<x, y>> \o mid \o <<z>>
  PROVE  /\ m \in Seq(S) /\ Len(mid) \in Nat /\ Len(m) = Len(mid) + 3
         /\ DOMAIN m = 1..(Len(mid) + 3)
         /\ m[1] = x /\ m[2] = y /\ m[Len(mid) + 3] = z
         /\ \A i \in 1..Len(mid) : m[i + 2] = mid[i]
<1> DEFINE a == <<x, y>>
           b == a \o mid
           c == <<z>>
           k == Len(mid)
<1>1. /\ a \in Seq(S) /\ Len(a) = 2 /\ a[1] = x /\ a[2] = y
      /\ c \in Seq(S) /\ Len(c) = 1 /\ c[1] = z
      /\ m = b \o c
  OBVIOUS
<1>2. k \in Nat
  BY LenProperties
<1> HIDE DEF a, c
<1>3. /\ b \in Seq(S) /\ Len(b) = Len(a) + Len(mid)
      /\ \A i \in 1..Len(a) : b[i] = a[i]
      /\ \A i \in 1..Len(mid) : b[Len(a) + i] = mid[i]
  <2>1. a \in Seq(S) /\ b = a \o mid
    BY <1>1
  <2> HIDE DEF b
  <2> QED BY <2>1, Joined
<1>4. Len(b) = k + 2
  BY <1>1, <1>2, <1>3
<1> HIDE DEF b
<1>5. /\ m \in Seq(S) /\ Len(m) = Len(b) + Len(c)
      /\ \A i \in 1..Len(b) : m[i] = b[i]
      /\ \A i \in 1..Len(c) : m[Len(b) + i] = c[i]
  BY <1>1, <1>3, Joined
<1>6. Len(m) = k + 3
  BY <1>1, <1>2, <1>4, <1>5
<1>7. DOMAIN m = 1..(k + 3)
  BY <1>5, <1>6, LenProperties
<1>8. m[1] = x /\ m[2] = y /\ m[k + 3] = z
  <2>1. 1 \in 1..(k + 2) /\ 2 \in 1..(k + 2) /\ k + 2 + 1 = k + 3
    BY <1>2
  <2>2. m[1] = b[1] /\ m[2] = b[2] /\ m[k + 2 + 1] = c[1]
    BY <1>1, <1>4, <1>5, <2>1
  <2> QED BY <1>1, <1>3, <2>1, <2>2
<1>9. ASSUME NEW i \in 1..k PROVE m[i + 2] = mid[i]
  <2>1. 2 + i = i + 2 /\ i + 2 \in 1..(k + 2)
    BY <1>2
  <2>2. b[2 + i] = mid[i]
    BY <1>1, <1>3 DEF k
  <2> QED BY <1>4, <1>5, <2>1, <2>2
<1> QED BY <1>2, <1>5, <1>6, <1>7, <1>8, <1>9 DEF k

\* The command of a gesture, and the pointer actions it is sent as.
LEMMA PointerCommand ==
  ASSUME NEW c \in ActionCommand, c.type \in Pointer
  PROVE  /\ c.path \in Seq((0..Scale) \X (0..Scale)) /\ c.durationMs \in Nat
         /\ Len(c.path) \in Nat \ {0} /\ c.path[1] \in (0..Scale) \X (0..Scale)
         /\ c.type \in {"tap", "longPress"} => Len(c.path) = 1
         /\ c.type \in {"swipe", "drag"} => Len(c.path) > 1
<1> DEFINE Points == (0..Scale) \X (0..Scale)
<1>1. /\ c.path \in Seq(Points) /\ c.durationMs \in Nat
      /\ c.type \in {"tap", "longPress"} => Len(c.path) = 1
      /\ c.type \in {"swipe", "drag"} => Len(c.path) > 1
  BY WorkerGesturesAssumption
<1> HIDE DEF Points
<1>2. Len(c.path) \in Nat
  BY <1>1, LenProperties
<1>3. Len(c.path) \in Nat \ {0}
  <2> DEFINE k == Len(c.path)
  <2>1. k \in Nat /\ (k = 1 \/ k > 1)
    BY <1>1, <1>2 DEF Pointer
  <2> HIDE DEF k
  <2>2. k \in Nat \ {0}
    BY <2>1
  <2> QED BY <2>2 DEF k
<1>4. 1 \in 1..Len(c.path)
  BY <1>3
<1>5. c.path[1] \in Points
  BY <1>1, <1>4, ElementOfSeq
<1> QED BY <1>1, <1>3, <1>5 DEF Points

\* A point of a command is one of the screen, as two numbers.
LEMMA MoveIsOnScreen ==
  ASSUME NEW p \in (0..Scale) \X (0..Scale), NEW ms \in Nat
  PROVE  /\ MoveTo(p, ms) \in PointerStep
         /\ MoveTo(p, ms).is = "move" /\ MoveTo(p, ms).at = Point(p) /\ MoveTo(p, ms).ms = ms
         /\ MoveTo(p, ms).at[1] < Width /\ MoveTo(p, ms).at[2] < Height
<1>1. Point(p) \in Int \X Int
  BY PixelIsOnScreen, WorkerGesturesAssumption DEF Point
<1> QED BY <1>1, PointIsOnScreen DEF MoveTo, PointerStep

LEMMA OtherSteps ==
  ASSUME NEW ms \in Nat
  PROVE  /\ Press \in PointerStep /\ Press.is # "move" /\ Press.ms = 0
         /\ Lift \in PointerStep /\ Lift.is # "move" /\ Lift.ms = 0
         /\ Hold(ms) \in PointerStep /\ Hold(ms).is # "move" /\ Hold(ms).ms = ms
BY DEF Press, Lift, Hold, PointerStep

\* Places between the first two and the last of k + 3.
LEMMA InTheMiddle ==
  ASSUME NEW k \in Nat, NEW i \in 3..(k + 2)
  PROVE  /\ i - 2 \in 1..k /\ i - 2 + 2 = i /\ i # 0 /\ i # k + 3 /\ ~(i <= 2)
         /\ i - 1 \in 0..(k + 3) /\ i - 1 # k + 3
         /\ \A last \in Nat : i - 2 <= last => last # 0 /\ i <= last + 2
OBVIOUS

\* The places of a sequence of k + 3.
LEMMA PlacesFromOne ==
  ASSUME NEW k \in Nat, NEW i \in 1..(k + 3)
  PROVE  i = 1 \/ i = 2 \/ i = k + 3 \/ i \in 3..(k + 2)
OBVIOUS

LEMMA PlacesFromZero ==
  ASSUME NEW k \in Nat, NEW i \in 0..(k + 3)
  PROVE  i = 0 \/ i \in {1, 2} \/ i = k + 3 \/ i \in 3..(k + 2)
OBVIOUS

\* What the three kinds of gestures have in common: what is in the middle moves
\* on the screen, the last move is to the last point, and the times before it
\* are known.
LEMMA DrawnByItsMiddle ==
  ASSUME NEW p \in Seq((0..Scale) \X (0..Scale)), Len(p) \in Nat \ {0},
         NEW t \in Nat, NEW mid \in Seq(PointerStep), NEW last \in 0..Len(mid),
         NEW m, m = <<MoveTo(p[1], 0), Press>> \o mid \o <<Lift>>,
         \A i \in 1..Len(mid) : mid[i].is = "move" =>
           mid[i].at[1] < Width /\ mid[i].at[2] < Height /\ i <= last,
         IF last = 0 THEN Len(p) = 1 ELSE mid[last].is = "move" /\ mid[last].at = Point(p[Len(p)]),
         NEW sum \in [0..Len(mid) -> Nat], sum[0] = 0, sum[Len(mid)] = t,
         \A i \in 1..Len(mid) : sum[i] = sum[i - 1] + mid[i].ms
  PROVE  Drawn(m, p, t)
<1> DEFINE k == Len(mid)
           x == MoveTo(p[1], 0)
<1>1. p[1] \in (0..Scale) \X (0..Scale)
  <2> DEFINE Points == (0..Scale) \X (0..Scale)
  <2>1. p \in Seq(Points) /\ 1 \in 1..Len(p)
    OBVIOUS
  <2> HIDE DEF Points
  <2>2. p[1] \in Points
    BY <2>1, ElementOfSeq
  <2> QED BY <2>2 DEF Points
<1>2. /\ x \in PointerStep /\ x.is = "move" /\ x.at = Point(p[1]) /\ x.ms = 0
      /\ x.at[1] < Width /\ x.at[2] < Height
  <2> DEFINE q == p[1]
  <2>1. q \in (0..Scale) \X (0..Scale) /\ 0 \in Nat /\ x = MoveTo(q, 0)
    BY <1>1
  <2> HIDE DEF q, x
  <2>2. /\ MoveTo(q, 0) \in PointerStep /\ MoveTo(q, 0).is = "move"
        /\ MoveTo(q, 0).at = Point(q) /\ MoveTo(q, 0).ms = 0
        /\ MoveTo(q, 0).at[1] < Width /\ MoveTo(q, 0).at[2] < Height
    BY <2>1, MoveIsOnScreen
  <2> QED BY <2>1, <2>2 DEF q
<1>3. Press \in PointerStep /\ Press.is # "move" /\ Press.ms = 0
      /\ Lift \in PointerStep /\ Lift.is # "move" /\ Lift.ms = 0
  BY OtherSteps
<1> HIDE DEF x
<1>4. /\ k \in Nat /\ Len(m) = k + 3 /\ DOMAIN m = 1..(k + 3)
      /\ m[1] = x /\ m[2] = Press /\ m[k + 3] = Lift
      /\ \A i \in 1..k : m[i + 2] = mid[i]
  <2>1. m = <<x, Press>> \o mid \o <<Lift>>
    BY DEF x
  <2> QED BY <1>2, <1>3, <2>1, PressedAndLifted
<1>0. k \in Nat /\ last \in Nat /\ last <= k
  BY <1>4
<1> HIDE DEF k
<1>5. ASSUME NEW i \in DOMAIN m, m[i].is = "move"
      PROVE  m[i].at[1] < Width /\ m[i].at[2] < Height /\ i <= IF last = 0 THEN 1 ELSE last + 2
  <2>1. CASE i = 1
    <3>1. m[i].at[1] < Width /\ m[i].at[2] < Height
      BY <2>1, <1>2, <1>4
    <3>2. 1 <= IF last = 0 THEN 1 ELSE last + 2
      BY <1>0
    <3> QED BY <2>1, <3>1, <3>2
  <2>2. CASE i \in 3..(k + 2)
    <3>1. /\ i - 2 \in 1..k /\ i - 2 + 2 = i
          /\ i - 2 <= last => last # 0 /\ i <= last + 2
      BY <2>2, <1>0, InTheMiddle
    <3>2. m[i] = mid[i - 2]
      BY <1>4, <3>1
    <3>3. mid[i - 2].at[1] < Width /\ mid[i - 2].at[2] < Height /\ i - 2 <= last
      BY <1>5, <3>1, <3>2 DEF k
    <3>4. last # 0 /\ i <= last + 2
      BY <3>1, <3>3
    <3> QED BY <3>2, <3>3, <3>4
  <2>3. i = 1 \/ i \in 3..(k + 2) \/ i = 2 \/ i = k + 3
    <3>1. i \in 1..(k + 3)
      BY <1>4
    <3> QED BY <1>0, <3>1, PlacesFromOne
  <2> QED BY <2>1, <2>2, <2>3, <1>3, <1>4, <1>5
<1>6. \E i \in DOMAIN m : /\ m[i].is = "move" /\ m[i].at = Point(p[Len(p)])
                          /\ \A j \in DOMAIN m : m[j].is = "move" => j <= i
  <2>1. CASE last = 0
    <3>1. 1 \in 1..(k + 3) /\ Len(p) = 1
      BY <2>1, <1>0
    <3>3. 1 \in DOMAIN m /\ m[1].is = "move" /\ m[1].at = Point(p[Len(p)])
      BY <3>1, <1>2, <1>4
    <3>2. \A j \in DOMAIN m : m[j].is = "move" => j <= 1
      BY <2>1, <1>5
    <3> QED BY <3>3, <3>2
  <2>2. CASE last # 0
    <3>1. last \in 1..k /\ last + 2 \in 1..(k + 3)
      BY <2>2, <1>0
    <3>2. last + 2 \in DOMAIN m /\ m[last + 2] = mid[last]
      BY <3>1, <1>4
    <3>3. m[last + 2].is = "move" /\ m[last + 2].at = Point(p[Len(p)])
      BY <2>2, <3>2
    <3>4. \A j \in DOMAIN m : m[j].is = "move" => j <= last + 2
      BY <2>2, <1>5
    <3> QED BY <3>2, <3>3, <3>4
  <2> QED BY <2>1, <2>2
<1> DEFINE g == [i \in 0..(k + 3) |-> IF i <= 2 THEN 0 ELSE IF i = k + 3 THEN t ELSE sum[i - 2]]
<1>7. g = [i \in 0..Len(m) |-> IF i = 0 THEN 0 ELSE g[i - 1] + m[i].ms]
  <2> SUFFICES ASSUME NEW i \in 0..(k + 3)
               PROVE  g[i] = IF i = 0 THEN 0 ELSE g[i - 1] + m[i].ms
    BY <1>4
  <2>1. CASE i = 0
    BY <2>1, <1>4
  <2>2. CASE i \in {1, 2}
    <3>1. g[i] = 0 /\ g[i - 1] = 0 /\ m[i].ms = 0
      BY <2>2, <1>2, <1>3, <1>4
    <3> HIDE DEF g
    <3>2. 0 = IF i = 0 THEN 0 ELSE 0 + 0
      OBVIOUS
    <3> QED BY <3>1, <3>2
  <2>3. CASE i = k + 3
    <3>1. m[i].ms = 0 /\ g[i] = t
      BY <2>3, <1>3, <1>4
    <3>2. CASE k = 0
      <4>1. i # 0 /\ i - 1 \in 0..(k + 3) /\ i - 1 <= 2
        BY <2>3, <3>2, <1>0
      <4>2. g[i - 1] = 0
        <5> DEFINE j == i - 1
        <5>1. j \in 0..(k + 3) /\ j <= 2
          BY <4>1
        <5> HIDE DEF j
        <5>2. g[j] = 0
          BY <5>1
        <5> QED BY <5>2 DEF j
      <4>3. t = 0
        <5>1. sum[k] = t /\ sum[0] = 0
          BY DEF k
        <5> QED BY <3>2, <5>1
      <4> HIDE DEF g
      <4> QED BY <3>1, <4>1, <4>2, <4>3
    <3>3. CASE k # 0
      <4>1. g[k + 2] = sum[k]
        <5> DEFINE j == k + 2
        <5>2. j \in 0..(k + 3) /\ ~(j <= 2) /\ j # k + 3 /\ j - 2 = k
          BY <3>3, <1>0
        <5> HIDE DEF j
        <5>3. g[j] = sum[j - 2]
          BY <5>2
        <5>4. g[j] = sum[k]
          BY <5>2, <5>3
        <5> QED BY <5>4 DEF j
      <4>2. i - 1 = k + 2 /\ i # 0
        BY <2>3, <1>0
      <4>3. g[i - 1] = t
        <5>1. sum[k] = t
          BY DEF k
        <5> HIDE DEF g
        <5> QED BY <4>1, <4>2, <5>1
      <4>4. t + 0 = t
        OBVIOUS
      <4> HIDE DEF g
      <4> QED BY <3>1, <4>2, <4>3, <4>4
    <3> QED BY <3>2, <3>3
  <2>4. CASE i \in 3..(k + 2)
    <3> DEFINE j == i - 2
    <3>1. j \in 1..k /\ j + 2 = i /\ i # 0 /\ i # k + 3 /\ ~(i <= 2) /\ i - 1 \in 0..(k + 3)
          /\ i - 1 # k + 3
      BY <2>4, <1>0, InTheMiddle
    <3>2. m[i] = mid[j]
      BY <1>4, <3>1
    <3>3. g[i] = sum[j]
      BY <3>1
    <3>4. g[i - 1] = sum[j - 1]
      <4>1. CASE j = 1
        <5>1. i - 1 <= 2 /\ j - 1 = 0
          BY <4>1, <3>1
        <5> QED BY <3>1, <5>1
      <4>2. CASE j # 1
        <5>1. ~(i - 1 <= 2) /\ i - 1 - 2 = j - 1
          BY <4>2, <3>1
        <5> QED BY <3>1, <5>1
      <4> QED BY <4>1, <4>2
    <3>5. sum[j] = sum[j - 1] + mid[j].ms
      BY <3>1 DEF k
    <3> QED BY <3>1, <3>2, <3>3, <3>4, <3>5
  <2>5. i = 0 \/ i \in {1, 2} \/ i = k + 3 \/ i \in 3..(k + 2)
    BY <1>0, PlacesFromZero
  <2> QED BY <2>1, <2>2, <2>3, <2>4, <2>5
<1>8. g[k + 3] = t
  BY <1>4
<1> HIDE DEF g
<1>9. TimeTaken(m) = t
  <2>1. Len(m) \in Nat
    BY <1>4
  <2>2. TimeTaken(m) = g[Len(m)]
    BY <1>7, <2>1, SumsAreDetermined
  <2> QED BY <2>2, <1>4, <1>8
<1>10. \A i \in DOMAIN m : m[i].is = "move" => m[i].at[1] < Width /\ m[i].at[2] < Height
  BY <1>5
<1>11. m[1].at = Point(p[1]) /\ m[2] = Press /\ m[Len(m)] = Lift
  BY <1>2, <1>4
<1> QED BY <1>6, <1>9, <1>10, <1>11 DEF Drawn

\* Equal shares of a time.
LEMMA Shares ==
  ASSUME NEW t \in Nat, NEW n \in Nat \ {0}
  PROVE  t \div n \in Int /\ n * (t \div n) <= t /\ t \div n >= 0
OBVIOUS

LEMMA TapIsDrawn ==
  ASSUME NEW c \in ActionCommand, c.type = "tap"
  PROVE  Drawn(PointerActions(c), c.path, 0)
<1> DEFINE m == PointerActions(c)
           mid == <<>>
           sum == [i \in {0} |-> 0]
<1>1. /\ c.path \in Seq((0..Scale) \X (0..Scale)) /\ Len(c.path) \in Nat \ {0}
      /\ Len(c.path) = 1
  BY PointerCommand DEF Pointer
<1>2. /\ mid \in Seq(PointerStep) /\ Len(mid) = 0
      /\ m = <<MoveTo(c.path[1], 0), Press>> \o mid \o <<Lift>>
  BY DEF PointerActions
<1>3. sum \in [0..0 -> Nat] /\ sum[0] = 0
  OBVIOUS
<1> HIDE DEF m, mid, sum
<1>4. /\ 0 \in Nat /\ 0 \in 0..Len(mid) /\ 1..Len(mid) = {}
      /\ sum \in [0..Len(mid) -> Nat] /\ sum[Len(mid)] = 0
  BY <1>2, <1>3
<1>5. Drawn(m, c.path, 0)
  BY <1>1, <1>2, <1>3, <1>4, DrawnByItsMiddle
<1> QED BY <1>5 DEF m

LEMMA LongPressIsDrawn ==
  ASSUME NEW c \in ActionCommand, c.type = "longPress"
  PROVE  Drawn(PointerActions(c), c.path, c.durationMs)
<1> DEFINE m == PointerActions(c)
           h == Hold(c.durationMs)
           mid == <<h>>
           sum == [i \in 0..1 |-> IF i = 0 THEN 0 ELSE c.durationMs]
<1>1. /\ c.path \in Seq((0..Scale) \X (0..Scale)) /\ Len(c.path) \in Nat \ {0}
      /\ Len(c.path) = 1 /\ c.durationMs \in Nat
  BY PointerCommand DEF Pointer
<1>2. h \in PointerStep /\ h.is # "move" /\ h.ms = c.durationMs
  BY <1>1, OtherSteps
<1>3. m = <<MoveTo(c.path[1], 0), Press>> \o mid \o <<Lift>>
  BY DEF PointerActions
<1> HIDE DEF m, h
<1>4. mid \in Seq(PointerStep) /\ Len(mid) = 1 /\ mid[1] = h
  BY <1>2
<1>5. sum \in [0..1 -> Nat] /\ sum[0] = 0 /\ sum[1] = c.durationMs
  BY <1>1
<1> HIDE DEF mid, sum
<1>6. /\ 0 \in 0..Len(mid) /\ sum \in [0..Len(mid) -> Nat] /\ sum[Len(mid)] = c.durationMs
      /\ \A i \in 1..Len(mid) : i = 1
  BY <1>4, <1>5
<1>7. \A i \in 1..Len(mid) : mid[i].is # "move" /\ sum[i] = sum[i - 1] + mid[i].ms
  <2> SUFFICES mid[1].is # "move" /\ sum[1] = sum[1 - 1] + mid[1].ms
    BY <1>6
  <2>1. 1 - 1 = 0
    OBVIOUS
  <2> QED BY <1>1, <1>2, <1>4, <1>5, <2>1
<1>8. Drawn(m, c.path, c.durationMs)
  BY <1>1, <1>3, <1>4, <1>5, <1>6, <1>7, DrawnByItsMiddle
<1> QED BY <1>8 DEF m

\* The moves along a path take the time they are given, the last what is left.
LEMMA PathIsDrawn ==
  ASSUME NEW c \in ActionCommand, c.type \in {"swipe", "drag"}
  PROVE  Drawn(PointerActions(c), c.path, c.durationMs)
<1> DEFINE m == PointerActions(c)
           ms == c.durationMs
           n == Len(c.path) - 1
           mid == Along(c.path, ms)
           q == ms \div n
           rest == ms - q * n
           sum == [i \in 0..n |-> IF i = n THEN ms ELSE i * q]
<1>1. /\ c.path \in Seq((0..Scale) \X (0..Scale)) /\ Len(c.path) \in Nat \ {0}
      /\ Len(c.path) > 1 /\ ms \in Nat
  BY PointerCommand DEF Pointer
<1>2. n \in Nat \ {0} /\ Len(c.path) = n + 1
  <2> DEFINE k == Len(c.path)
  <2>1. k \in Nat /\ k > 1 /\ n = k - 1
    BY <1>1
  <2> HIDE DEF k, n
  <2>2. n \in Nat \ {0} /\ k = n + 1
    BY <2>1
  <2> QED BY <2>2 DEF k
<1>3. m = <<MoveTo(c.path[1], 0), Press>> \o mid \o <<Lift>>
  BY DEF PointerActions
<1>4. mid = [i \in 1..n |-> MoveTo(c.path[i + 1], q + IF i = n THEN rest ELSE 0)]
  BY DEF Along
<1>5. q \in Nat /\ q * n \in Nat /\ rest \in Nat
  <2> HIDE DEF n, ms
  <2>1. q \in Int /\ n * q <= ms /\ q >= 0
    BY <1>1, <1>2, Shares
  <2> HIDE DEF q
  <2>2. q \in Nat /\ q * n = n * q
    BY <2>1, <1>2
  <2>3. q * n \in Nat
    BY <2>2, <1>2
  <2> QED BY <2>1, <2>2, <2>3, <1>1
<1> HIDE DEF m, ms, n, mid, q, rest
<1>6. ASSUME NEW i \in 1..n
      PROVE  /\ mid[i] \in PointerStep /\ mid[i].is = "move" /\ mid[i].at = Point(c.path[i + 1])
             /\ mid[i].ms = q + IF i = n THEN rest ELSE 0
             /\ mid[i].at[1] < Width /\ mid[i].at[2] < Height
  <2> DEFINE p == c.path[i + 1]
             t == q + IF i = n THEN rest ELSE 0
             Points == (0..Scale) \X (0..Scale)
  <2>1. p \in Points
    <3>1. c.path \in Seq(Points) /\ i + 1 \in 1..Len(c.path)
      BY <1>1, <1>2
    <3> HIDE DEF Points
    <3> QED BY <3>1, ElementOfSeq
  <2>2. t \in Nat
    BY <1>5
  <2>3. mid[i] = MoveTo(p, t)
    BY <1>4
  <2> HIDE DEF p, t
  <2>4. mid[i] \in PointerStep /\ mid[i].is = "move" /\ mid[i].at = Point(p)
        /\ mid[i].ms = t /\ mid[i].at[1] < Width /\ mid[i].at[2] < Height
    BY <2>1, <2>2, <2>3, MoveIsOnScreen
  <2> QED BY <2>4 DEF p, t
<1>7. mid \in Seq(PointerStep) /\ Len(mid) = n
  <2>1. mid \in [1..n -> PointerStep]
    BY <1>4, <1>6
  <2> QED BY <2>1, <1>2
<1>8. sum \in [0..n -> Nat] /\ sum[0] = 0 /\ sum[n] = ms
  <2>1. \A i \in 0..n : i * q \in Nat
    BY <1>2, <1>5
  <2>2. ms \in Nat /\ 0 * q = 0 /\ 0 # n /\ 0 \in 0..n /\ n \in 0..n
    BY <1>1, <1>2, <1>5
  <2> QED BY <2>1, <2>2
<1>9. ASSUME NEW i \in 1..n PROVE sum[i] = sum[i - 1] + mid[i].ms
  <2>1. i \in 0..n /\ i - 1 \in 0..n /\ i - 1 # n /\ i - 1 \in Nat
    BY <1>2
  <2>2. sum[i - 1] = (i - 1) * q
    BY <2>1
  <2>3. (i - 1) * q + q = i * q
    BY <1>2, <1>5
  <2>4. CASE i = n
    <3>1. sum[i] = ms /\ mid[i].ms = q + rest
      BY <2>1, <2>4, <1>6
    <3>2. (i - 1) * q + (q + rest) = ms
      <4>1. i * q = q * n /\ (i - 1) * q \in Int
        BY <2>4, <1>2, <1>5
      <4>2. rest = ms - q * n
        BY DEF rest
      <4> QED BY <4>1, <4>2, <2>3, <1>1, <1>5
    <3> QED BY <2>2, <3>1, <3>2
  <2>5. CASE i # n
    <3>1. sum[i] = i * q /\ mid[i].ms = q + 0
      BY <2>1, <2>5, <1>6
    <3>2. q + 0 = q
      BY <1>5
    <3> QED BY <2>2, <2>3, <3>1, <3>2
  <2> QED BY <2>4, <2>5
<1> HIDE DEF sum
<1>10. n \in 0..Len(mid) /\ n # 0 /\ n \in 1..n
  BY <1>2, <1>7
<1>11. mid[n].is = "move" /\ mid[n].at = Point(c.path[Len(c.path)])
  BY <1>2, <1>6, <1>10
<1>12. \A i \in 1..n : mid[i].at[1] < Width /\ mid[i].at[2] < Height /\ i <= n
  BY <1>2, <1>6
<1>13. Drawn(m, c.path, ms)
  BY <1>1, <1>3, <1>7, <1>8, <1>9, <1>10, <1>11, <1>12, DrawnByItsMiddle
<1> QED BY <1>13 DEF m, ms

(* Every gesture is drawn as it was asked for.                             *)
LEMMA PointerIsDrawn ==
  ASSUME NEW c \in ActionCommand, c.type \in Pointer
  PROVE  Drawn(PointerActions(c), c.path, IF c.type = "tap" THEN 0 ELSE c.durationMs)
BY TapIsDrawn, LongPressIsDrawn, PathIsDrawn DEF Pointer
-----------------------------------------------------------------------------
(* The actions a worker performs: where, when and how a gesture is made.   *)
(* What a call has done so far follows from its program counter, and each  *)
(* request the server still has is of the session of its call.             *)

Outcomes == {"gesture", "performed", "failed"}

CallRecord ==
  [pc : Requests \cup {"free", "performed", "failed"}, fence : Nat, born : Nat,
   answer : {"none", "ok", "other", "gone", "late"}, seen : BOOLEAN,
   late : {"no", "server", "gesture"}, command : ActionCommand \cup {"none"}]

IsDone(c) == \E p \in done : p.call = c

\* What the record r of call c says was done.
CallIsSound(r, c) ==
  /\ r.pc # "free" => r.fence \in 1..made
  /\ r.pc \in {"gesture", "terminate", "reactivate", "performed"} => r.seen
  /\ r.pc = "terminate" => r.command.type \in {"terminate", "restart"}
  /\ r.pc = "reactivate" => r.command.type = "restart"
  /\ r.pc = "gesture" /\ r.answer = "ok" => IsDone(c)
  /\ r.pc = "performed" =>
       r.command.type \in {"terminate", "restart", "activate"} \/ IsDone(c)

CallsInv ==
  /\ GestureTypeOK
  /\ call \in [Call -> CallRecord]
  /\ \A c \in Call : CallIsSound(call[c], c)

AskedInv ==
  \A q \in asked :
    /\ q \in [call : Call, pc : Requests, session : 1..made]
    /\ call[q.call].pc # "free" /\ q.session = call[q.call].fence
    /\ q.pc = "gesture" => call[q.call].pc \in Outcomes /\ ~ IsDone(q.call)

DoneInv ==
  \A p \in done :
    /\ p.call \in Call /\ call[p.call].pc \in Outcomes
    /\ p.session = call[p.call].fence
    /\ \A o \in done : o.call = p.call => o = p

GesturesInv == CallsInv /\ AskedInv /\ DoneInv

LEMMA GesturesAtFirst == GestureInit => GesturesInv
BY WorkerGesturesAssumption
   DEF GestureInit, GesturesInv, CallsInv, AskedInv, DoneInv, GestureTypeOK, NoCall,
       CallRecord, CallIsSound, Requests

(* A step of the worker or of the device leaves the calls alone.           *)
LEMMA WorkerKeepsGestures ==
  ASSUME GesturesInv, UNCHANGED <<call, asked, done>>, GestureTypeOK', made' >= made
  PROVE  GesturesInv'
<1>1. made \in Nat /\ made' \in Nat /\ 1..made \subseteq 1..(made')
  BY WorkerGesturesAssumption DEF GesturesInv, CallsInv, GestureTypeOK
<1>2. CallsInv'
  BY <1>1 DEF GesturesInv, CallsInv, CallIsSound, IsDone
<1>3. AskedInv'
  BY <1>1 DEF GesturesInv, AskedInv, IsDone
<1>4. DoneInv'
  BY DEF GesturesInv, DoneInv
<1> QED BY <1>2, <1>3, <1>4 DEF GesturesInv

(* A step of one call that asks for one request at most.                   *)
LEMMA CallKeepsGestures ==
  ASSUME GesturesInv, NEW c \in Call, UNCHANGED <<workerVars, alive, done>>,
         call' \in [Call -> CallRecord], \A d \in Call \ {c} : call'[d] = call[d],
         call'[c].pc # "free", call[c].pc \in Outcomes => call'[c].pc \in Outcomes,
         call[c].pc # "free" => call'[c].fence = call[c].fence,
         CallIsSound(call[c], c)',
         \A q \in asked' \ asked :
           /\ q \in [call : {c}, pc : Requests, session : 1..made]
           /\ q.session = call'[c].fence
           /\ q.pc = "gesture" => call'[c].pc = "gesture" /\ call[c].pc \notin Outcomes
  PROVE  GesturesInv'
<1>0. made' = made /\ done' = done
  BY DEF workerVars
<1>1. CallsInv'
  <2>1. ASSUME NEW d \in Call PROVE CallIsSound(call[d], d)'
    <3>1. CASE d = c
      BY <3>1
    <3>2. CASE d # c
      <4>1. CallIsSound(call[d], d) /\ call'[d] = call[d]
        BY <3>2 DEF GesturesInv, CallsInv
      <4> QED BY <4>1, <1>0 DEF CallIsSound, IsDone
    <3> QED BY <3>1, <3>2
  <2>2. \A d \in Call : call'[d].pc \in Requests \cup {"free", "performed", "failed"}
    BY DEF CallRecord
  <2>3. \A q \in asked' : q.call \in Call /\ q.pc \in Requests /\ q.session \in 1..made
    BY DEF GesturesInv, AskedInv
  <2>4. GestureTypeOK'
    BY <2>2, <2>3 DEF GesturesInv, CallsInv, GestureTypeOK, workerVars
  <2> QED BY <2>1, <2>4 DEF CallsInv
<1>2. \A p \in done : call'[p.call].pc \in Outcomes /\ call'[p.call].fence = call[p.call].fence
  BY DEF GesturesInv, DoneInv, Outcomes
<1>3. DoneInv'
  BY <1>0, <1>2 DEF GesturesInv, DoneInv
<1>4. AskedInv'
  <2> SUFFICES ASSUME NEW q \in asked'
               PROVE  /\ q \in [call : Call, pc : Requests, session : 1..made]
                      /\ call'[q.call].pc # "free" /\ q.session = call'[q.call].fence
                      /\ q.pc = "gesture" =>
                           call'[q.call].pc \in Outcomes /\ ~ \E p \in done : p.call = q.call
    BY <1>0 DEF AskedInv, IsDone
  <2>1. CASE q \in asked
    BY <2>1 DEF GesturesInv, AskedInv, IsDone
  <2>2. CASE q \notin asked
    BY <2>2 DEF GesturesInv, DoneInv, Outcomes
  <2> QED BY <2>1, <2>2
<1> QED BY <1>1, <1>3, <1>4 DEF GesturesInv

LEMMA WorkerActions ==
  ASSUME GesturesInv,
         StartWorker \/ WorkerReady \/ WorkerFailsToStart \/ StopWorker \/ DeleteSession
         \/ WorkerStops \/ SessionLost \/ FrontChanges
  PROVE  GesturesInv'
<1>0. GestureTypeOK /\ made \in Nat /\ MaxSessions \in Nat
  BY WorkerGesturesAssumption DEF GesturesInv, CallsInv, GestureTypeOK
<1>1. UNCHANGED <<call, asked, done>> /\ made' >= made
  BY <1>0 DEF StartWorker, WorkerReady, WorkerFailsToStart, StopWorker, DeleteSession,
              WorkerStops, SessionLost, FrontChanges, workerVars
<1>2. GestureTypeOK'
  <2>1. CASE StartWorker
    <3>1. /\ worker' = "STARTING" /\ made' = made + 1 /\ made < MaxSessions
          /\ UNCHANGED <<generation, fence, call, asked>>
      BY <2>1 DEF StartWorker
    <3>2. alive' = alive \cup {made + 1} /\ holds' = holds \cup {made + 1}
      BY <2>1 DEF StartWorker
    <3>3. made + 1 \in 0..MaxSessions /\ 1..made \subseteq 1..(made + 1)
      BY <1>0, <3>1
    <3>4. alive' \subseteq 1..(made + 1) /\ holds' \subseteq 1..(made + 1)
      BY <1>0, <3>2, <3>3 DEF GestureTypeOK
    <3> QED BY <1>0, <3>1, <3>3, <3>4 DEF GestureTypeOK
  <2>2. CASE WorkerReady
    BY <2>2, <1>0 DEF WorkerReady, GestureTypeOK
  <2>3. CASE WorkerFailsToStart
    BY <2>3, <1>0 DEF WorkerFailsToStart, GestureTypeOK
  <2>4. CASE StopWorker
    BY <2>4, <1>0 DEF StopWorker, GestureTypeOK
  <2>5. CASE DeleteSession
    BY <2>5, <1>0 DEF DeleteSession, GestureTypeOK
  <2>6. CASE WorkerStops
    <3>1. alive' \subseteq alive /\ worker' \in {"STOPPED", "ERROR"}
      BY <2>6 DEF WorkerStops
    <3>2. fence' = 0 /\ generation' = generation + 1 /\ UNCHANGED <<made, holds, call, asked>>
      BY <2>6 DEF WorkerStops
    <3> QED BY <3>1, <3>2, <1>0 DEF GestureTypeOK
  <2>7. CASE SessionLost \/ FrontChanges
    BY <2>7, <1>0 DEF SessionLost, FrontChanges, GestureTypeOK, workerVars
  <2> QED BY <2>1, <2>2, <2>3, <2>4, <2>5, <2>6, <2>7
<1> QED BY <1>1, <1>2, WorkerKeepsGestures

LEMMA ExecuteKeepsGestures ==
  ASSUME GesturesInv, NEW c \in Call, ExecuteAction(c)
  PROVE  GesturesInv'
<1>0. /\ call \in [Call -> CallRecord] /\ fence \in 0..made /\ made \in Nat
      /\ generation \in Nat
  BY DEF GesturesInv, CallsInv, GestureTypeOK
<1>1. PICK command \in ActionCommand :
        /\ call[c].pc = "free" /\ fence # 0
        /\ call' = [call EXCEPT ![c] = [NoCall EXCEPT !.pc = "activate", !.fence = fence,
                                           !.born = generation, !.command = command]]
        /\ asked' = asked \cup {[call |-> c, pc |-> "activate", session |-> fence]}
        /\ UNCHANGED <<workerVars, alive, front, done, reported>>
  BY DEF ExecuteAction
<1>2. /\ call'[c] = [pc |-> "activate", fence |-> fence, born |-> generation,
                    answer |-> "none", seen |-> FALSE, late |-> "no", command |-> command]
      /\ \A d \in Call \ {c} : call'[d] = call[d]
  BY <1>0, <1>1 DEF NoCall
<1>3. call' \in [Call -> CallRecord]
  <2>1. call'[c] \in CallRecord
    BY <1>0, <1>2 DEF CallRecord, Requests
  <2>2. DOMAIN call' = Call /\ call' = [d \in Call |-> call'[d]]
    BY <1>0, <1>1
  <2>3. \A d \in Call : call'[d] \in CallRecord
    BY <1>0, <1>2, <2>1
  <2> HIDE DEF CallRecord
  <2> QED BY <2>2, <2>3
<1>4. CallIsSound(call[c], c)'
  BY <1>0, <1>1, <1>2 DEF CallIsSound, workerVars
<1>5. \A q \in asked' \ asked :
        /\ q \in [call : {c}, pc : Requests, session : 1..made]
        /\ q.session = call'[c].fence /\ q.pc # "gesture"
  BY <1>0, <1>1, <1>2 DEF Requests
<1> QED BY <1>1, <1>2, <1>3, <1>4, <1>5, CallKeepsGestures DEF Outcomes

(* A call that has begun goes on, or fails, by asking for a request.       *)
LEMMA SendKeepsGestures ==
  ASSUME GesturesInv, NEW c \in Call, NEW request \in Requests \ {"gesture"},
         Send(c, request), UNCHANGED <<workerVars, alive, done>>,
         call[c].pc \in Requests, call[c].pc \notin Outcomes,
         request \in {"terminate", "reactivate"} => call[c].seen,
         request = "terminate" => call[c].command.type \in {"terminate", "restart"},
         request = "reactivate" => call[c].command.type = "restart"
  PROVE  GesturesInv'
<1>0. call \in [Call -> CallRecord] /\ CallIsSound(call[c], c)
  BY DEF GesturesInv, CallsInv
<1>1. call[c].fence \in 1..made /\ "free" \notin Requests
  BY <1>0 DEF CallIsSound, Requests
<1>2. CASE SessionOf(c) \in holds
  <2>1. /\ call' = [call EXCEPT ![c].pc = request, ![c].answer = "none"]
        /\ asked' = asked \cup {[call |-> c, pc |-> request, session |-> call[c].fence]}
    BY <1>2 DEF Send, SessionOf
  <2>2. /\ call'[c].pc = request /\ call'[c].fence = call[c].fence
        /\ call'[c].seen = call[c].seen /\ call'[c].command = call[c].command
        /\ call' \in [Call -> CallRecord] /\ \A d \in Call \ {c} : call'[d] = call[d]
    <3>1. call'[c] = [call[c] EXCEPT !.pc = request, !.answer = "none"]
      BY <1>0, <2>1
    <3>2. call[c] \in CallRecord /\ \A d \in Call \ {c} : call'[d] = call[d]
      BY <1>0, <2>1
    <3>3. /\ call'[c] \in CallRecord
          /\ call'[c].pc = request /\ call'[c].fence = call[c].fence
          /\ call'[c].seen = call[c].seen /\ call'[c].command = call[c].command
      BY <3>1, <3>2 DEF CallRecord
    <3>4. call' \in [Call -> CallRecord]
      BY <1>0, <2>1, <3>1, <3>3
    <3> QED BY <3>2, <3>3, <3>4
  <2>3. CallIsSound(call[c], c)'
    BY <1>1, <2>2 DEF CallIsSound, workerVars, Requests
  <2>4. \A q \in asked' \ asked :
          /\ q \in [call : {c}, pc : Requests, session : 1..made]
          /\ q.session = call'[c].fence /\ q.pc # "gesture"
    BY <1>1, <2>1, <2>2
  <2> QED BY <1>1, <2>2, <2>3, <2>4, CallKeepsGestures
<1>3. CASE SessionOf(c) \notin holds
  <2>1. call' = [call EXCEPT ![c].pc = "failed"] /\ asked' = asked
    BY <1>3 DEF Send, Fails
  <2>2. /\ call'[c].pc = "failed" /\ call'[c].fence = call[c].fence
        /\ call' \in [Call -> CallRecord] /\ \A d \in Call \ {c} : call'[d] = call[d]
    BY <1>0, <2>1 DEF CallRecord
  <2>3. CallIsSound(call[c], c)'
    BY <1>1, <2>2 DEF CallIsSound, workerVars
  <2> QED BY <2>1, <2>2, <2>3, CallKeepsGestures
<1> QED BY <1>2, <1>3

(* A call that ends leaves its requests with the server, or takes some     *)
(* away.                                                                   *)
LEMMA EndKeepsGestures ==
  ASSUME GesturesInv, NEW c \in Call, UNCHANGED <<workerVars, alive, done>>,
         asked' \subseteq asked, call' \in [Call -> CallRecord],
         \A d \in Call \ {c} : call'[d] = call[d],
         call[c].pc \in Requests, call'[c].fence = call[c].fence,
         call'[c].pc = "failed" \/ (call'[c].pc = "performed" /\ CallIsSound(call[c], c)')
  PROVE  GesturesInv'
<1>1. call[c].fence \in 1..made
  BY DEF GesturesInv, CallsInv, CallIsSound, Requests
<1>2. CallIsSound(call[c], c)'
  BY <1>1 DEF CallIsSound, workerVars
<1> QED BY <1>2, CallKeepsGestures DEF Outcomes

\* What EXCEPT does to the record of one call.
LEMMA CallFails ==
  ASSUME GesturesInv, NEW c \in Call, Fails(c)
  PROVE  /\ call' \in [Call -> CallRecord] /\ \A d \in Call \ {c} : call'[d] = call[d]
         /\ call'[c].pc = "failed" /\ call'[c].fence = call[c].fence
<1>1. call \in [Call -> CallRecord]
  BY DEF GesturesInv, CallsInv
<1> QED BY <1>1 DEF Fails, CallRecord

LEMMA FrontKeepsGestures ==
  ASSUME GesturesInv, NEW c \in Call, AppInFront(c)
  PROVE  GesturesInv'
<1>0. /\ call \in [Call -> CallRecord] /\ CallIsSound(call[c], c)
      /\ call[c].pc = "look" /\ call[c].answer = "ok"
      /\ UNCHANGED <<workerVars, alive, front, done>>
  BY DEF GesturesInv, CallsInv, AppInFront, Sees, Answered
<1>1. call[c].fence \in 1..made /\ call[c].pc \in Requests
  BY <1>0 DEF CallIsSound, Requests
<1>2. call[c] \in CallRecord
  BY <1>0
<1>3. CASE call[c].command.type = "activate"
  <2>1. /\ call' = [call EXCEPT ![c].pc = "performed", ![c].seen = call[c].answer = "ok"]
        /\ asked' = asked
    BY <1>3 DEF AppInFront
  <2>2. call'[c] = [call[c] EXCEPT !.pc = "performed", !.seen = TRUE]
    BY <1>0, <2>1
  <2>3. /\ call'[c] \in CallRecord /\ call'[c].pc = "performed" /\ call'[c].seen
        /\ call'[c].command = call[c].command /\ call'[c].fence = call[c].fence
    BY <1>2, <2>2 DEF CallRecord
  <2>4. call' \in [Call -> CallRecord] /\ \A d \in Call \ {c} : call'[d] = call[d]
    BY <1>0, <2>1, <2>2, <2>3
  <2>5. CallIsSound(call[c], c)'
    BY <1>0, <1>1, <1>3, <2>3 DEF CallIsSound, workerVars
  <2> QED BY <1>0, <1>1, <2>1, <2>3, <2>4, <2>5, EndKeepsGestures
<1>4. CASE call[c].command.type # "activate" /\ SessionOf(c) \in holds
  <2> DEFINE next == NextRequest(call[c].command)
  <2>1. /\ call' = [call EXCEPT ![c].pc = next, ![c].answer = "none",
                                ![c].seen = call[c].answer = "ok"]
        /\ asked' = asked \cup {[call |-> c, pc |-> next, session |-> call[c].fence]}
    BY <1>4 DEF AppInFront, SessionOf
  <2>2. /\ next \in {"terminate", "gesture"}
        /\ next = "terminate" => call[c].command.type \in {"terminate", "restart"}
    BY DEF NextRequest
  <2> HIDE DEF next
  <2>3. call'[c] = [call[c] EXCEPT !.pc = next, !.answer = "none", !.seen = TRUE]
    BY <1>0, <2>1
  <2>4. /\ call'[c] \in CallRecord /\ call'[c].pc = next /\ call'[c].seen
        /\ call'[c].answer = "none"
        /\ call'[c].command = call[c].command /\ call'[c].fence = call[c].fence
    BY <1>2, <2>2, <2>3 DEF CallRecord, Requests
  <2>5. call' \in [Call -> CallRecord] /\ \A d \in Call \ {c} : call'[d] = call[d]
    BY <1>0, <2>1, <2>3, <2>4
  <2>6. CallIsSound(call[c], c)'
    BY <1>0, <1>1, <2>2, <2>4 DEF CallIsSound, workerVars
  <2>7. \A q \in asked' \ asked :
          /\ q \in [call : {c}, pc : Requests, session : 1..made]
          /\ q.session = call'[c].fence /\ q.pc = call'[c].pc
    BY <1>1, <2>1, <2>2, <2>4 DEF Requests
  <2>8. call[c].pc \notin Outcomes /\ call'[c].pc # "free"
    BY <1>0, <2>2, <2>4 DEF Outcomes
  <2> QED BY <1>0, <2>4, <2>5, <2>6, <2>7, <2>8, CallKeepsGestures
<1>5. CASE call[c].command.type # "activate" /\ SessionOf(c) \notin holds
  <2>1. Fails(c) /\ asked' = asked
    BY <1>5 DEF AppInFront
  <2> QED BY <2>1, <1>0, <1>1, CallFails, EndKeepsGestures
<1> QED BY <1>3, <1>4, <1>5

LEMMA CallActions ==
  ASSUME GesturesInv, NEW c \in Call,
         \/ ExecuteAction(c) \/ Activated(c) \/ AppInFront(c) \/ OtherInFront(c)
         \/ Terminated(c) \/ Performed(c) \/ SessionGone(c) \/ TimesOut(c)
         \/ RequestFails(c)
  PROVE  GesturesInv'
<1>0. call \in [Call -> CallRecord] /\ CallIsSound(call[c], c) /\ call[c] \in CallRecord
  BY DEF GesturesInv, CallsInv
<1>1. CASE ExecuteAction(c) \/ AppInFront(c)
  BY <1>1, ExecuteKeepsGestures, FrontKeepsGestures
<1>2. CASE Activated(c)
  BY <1>2, SendKeepsGestures DEF Activated, Answered, Requests, Outcomes
<1>3. CASE OtherInFront(c)
  <2>1. call[c].pc = "look" /\ UNCHANGED <<workerVars, alive, front, done>>
    BY <1>3 DEF OtherInFront, Answered
  <2>2. CASE Send(c, "look")
    BY <2>1, <2>2, SendKeepsGestures DEF Requests, Outcomes
  <2>3. CASE Fails(c) /\ asked' = asked
    BY <2>1, <2>3, CallFails, EndKeepsGestures DEF Requests
  <2> QED BY <1>3, <2>2, <2>3 DEF OtherInFront
<1>4. CASE Terminated(c)
  <2>1. /\ call[c].pc = "terminate" /\ call[c].command.type = "restart"
        /\ Send(c, "reactivate") /\ UNCHANGED <<workerVars, alive, front, done>>
    BY <1>4 DEF Terminated, Answered
  <2>2. call[c].seen
    BY <1>0, <2>1 DEF CallIsSound
  <2> QED BY <2>1, <2>2, SendKeepsGestures DEF Requests, Outcomes
<1>5. CASE Performed(c)
  <2>1. /\ call' = [call EXCEPT ![c].pc = "performed"]
        /\ UNCHANGED <<workerVars, alive, front, asked, done, reported>>
        /\ \/ call[c].pc = "gesture" /\ call[c].answer = "ok"
           \/ call[c].pc = "reactivate"
           \/ call[c].pc = "terminate"
    BY <1>5 DEF Performed, Answered
  <2>2. call'[c] = [call[c] EXCEPT !.pc = "performed"]
    BY <1>0, <2>1
  <2>3. /\ call'[c] \in CallRecord /\ call'[c].pc = "performed"
        /\ call'[c].seen = call[c].seen
        /\ call'[c].command = call[c].command /\ call'[c].fence = call[c].fence
    BY <1>0, <2>2 DEF CallRecord
  <2>4. call' \in [Call -> CallRecord] /\ \A d \in Call \ {c} : call'[d] = call[d]
    BY <1>0, <2>1, <2>2, <2>3
  <2>5. CallIsSound(call[c], c)'
    <3>1. /\ call[c].fence \in 1..made /\ call[c].seen
          /\ call[c].command.type \in {"terminate", "restart"} \/ IsDone(c)
      BY <1>0, <2>1 DEF CallIsSound
    <3>2. made' = made /\ done' = done
      BY <2>1 DEF workerVars
    <3> QED BY <3>1, <3>2, <2>3 DEF CallIsSound, IsDone
  <2>6. call[c].pc \in Requests
    BY <2>1 DEF Requests
  <2> QED BY <2>1, <2>3, <2>4, <2>5, <2>6, EndKeepsGestures
<1>6. CASE SessionGone(c) \/ RequestFails(c)
  <2>1. /\ Fails(c) /\ asked' \subseteq asked /\ call[c].pc \in Requests
        /\ UNCHANGED <<workerVars, alive, done>>
    BY <1>6 DEF SessionGone, RequestFails
  <2> QED BY <2>1, CallFails, EndKeepsGestures
<1>7. CASE TimesOut(c)
  <2>1. /\ call' = [call EXCEPT ![c].pc = "failed",
                      ![c].late = IF call[c].answer = "none" THEN "server" ELSE "gesture"]
        /\ call[c].pc \in Requests /\ UNCHANGED <<workerVars, alive, front, asked, done>>
    BY <1>7 DEF TimesOut
  <2>2. call'[c] = [call[c] EXCEPT !.pc = "failed",
                      !.late = IF call[c].answer = "none" THEN "server" ELSE "gesture"]
    BY <1>0, <2>1
  <2>3. call'[c] \in CallRecord /\ call'[c].pc = "failed" /\ call'[c].fence = call[c].fence
    BY <1>0, <2>2 DEF CallRecord
  <2>4. call' \in [Call -> CallRecord] /\ \A d \in Call \ {c} : call'[d] = call[d]
    BY <1>0, <2>1, <2>2, <2>3
  <2> QED BY <2>1, <2>3, <2>4, EndKeepsGestures
<1> QED BY <1>1, <1>2, <1>3, <1>4, <1>5, <1>6, <1>7

(* The server handles a request: a gesture is done then, if the session is *)
(* still there, and no other request for it is left.                       *)
LEMMA ServeKeepsGestures ==
  ASSUME GesturesInv, NEW q \in asked, Serve(q)
  PROVE  GesturesInv'
<1> DEFINE held == q.session \in alive
           new  == [call |-> q.call, session |-> q.session,
                    moves |-> IF call[q.call].command.type \in Pointer
                              THEN PointerActions(call[q.call].command) ELSE <<>>]
<1>0. /\ call \in [Call -> CallRecord] /\ asked' = asked \ {q}
      /\ UNCHANGED <<workerVars, alive, reported>>
      /\ q \in [call : Call, pc : Requests, session : 1..made]
      /\ q.session = call[q.call].fence /\ call[q.call] \in CallRecord
      /\ q.pc = "gesture" => call[q.call].pc \in Outcomes /\ ~ IsDone(q.call)
  BY DEF GesturesInv, CallsInv, AskedInv, Serve
<1>1. done' = IF held /\ q.pc = "gesture" THEN done \cup {new} ELSE done
  BY DEF Serve
<1>2. new.call = q.call /\ new.session = q.session
  OBVIOUS
<1> HIDE DEF new
<1>3. PICK answer \in {"none", "ok", "other", "gone", "late"} :
        /\ call' = IF call[q.call].pc # q.pc THEN call
                   ELSE [call EXCEPT ![q.call].answer = answer]
        /\ answer = "ok" => held
  BY DEF Serve
<1>4. \A d \in Call : /\ call'[d] \in CallRecord /\ call'[d].pc = call[d].pc
                      /\ call'[d].fence = call[d].fence /\ call'[d].seen = call[d].seen
                      /\ call'[d].command = call[d].command
  <2>1. CASE call[q.call].pc # q.pc
    BY <2>1, <1>0, <1>3
  <2>2. CASE call[q.call].pc = q.pc
    <3>1. call' = [call EXCEPT ![q.call].answer = answer]
      BY <2>2, <1>3
    <3>2. call'[q.call] = [call[q.call] EXCEPT !.answer = answer]
      BY <3>1, <1>0
    <3>3. /\ call'[q.call] \in CallRecord /\ call'[q.call].pc = call[q.call].pc
          /\ call'[q.call].fence = call[q.call].fence
          /\ call'[q.call].seen = call[q.call].seen
          /\ call'[q.call].command = call[q.call].command
      BY <3>2, <1>0 DEF CallRecord
    <3>4. \A d \in Call \ {q.call} : call'[d] = call[d] /\ call[d] \in CallRecord
      BY <3>1, <1>0
    <3> QED BY <3>3, <3>4
  <2> QED BY <2>1, <2>2
<1>5. call' \in [Call -> CallRecord]
  <2>1. DOMAIN call' = Call /\ call' = [d \in Call |-> call'[d]]
    BY <1>0, <1>3
  <2> HIDE DEF CallRecord
  <2> QED BY <2>1, <1>4
<1>6. \A d \in Call : call'[d].pc = "gesture" /\ call'[d].answer = "ok" =>
                        \E p \in done' : p.call = d
  <2> SUFFICES ASSUME NEW d \in Call, call'[d].pc = "gesture", call'[d].answer = "ok"
               PROVE  \E p \in done' : p.call = d
    OBVIOUS
  <2>1. done \subseteq done' /\ call[d].pc = "gesture"
    BY <1>1, <1>4
  <2>2. CASE call[d].answer = "ok"
    BY <2>1, <2>2 DEF GesturesInv, CallsInv, CallIsSound, IsDone
  <2>3. CASE call[d].answer # "ok"
    <3>1. d = q.call /\ call[q.call].pc = q.pc /\ held
      BY <2>3, <1>0, <1>3
    <3> QED BY <3>1, <2>1, <1>1, <1>2
  <2> QED BY <2>2, <2>3
<1>7. CallsInv'
  <2>1. ASSUME NEW d \in Call PROVE CallIsSound(call[d], d)'
    <3>1. CallIsSound(call[d], d) /\ done \subseteq done' /\ made' = made
      BY <1>0, <1>1 DEF GesturesInv, CallsInv, workerVars
    <3> QED BY <3>1, <1>4, <1>6 DEF CallIsSound, IsDone
  <2>2. \A d \in Call : call'[d].pc \in Requests \cup {"free", "performed", "failed"}
    BY <1>4 DEF CallRecord
  <2>3. GestureTypeOK'
    BY <2>2, <1>0 DEF GesturesInv, CallsInv, GestureTypeOK, workerVars
  <2> QED BY <2>1, <2>3, <1>5 DEF CallsInv
<1>8. AskedInv'
  <2> SUFFICES ASSUME NEW r \in asked, r # q
               PROVE  /\ r \in [call : Call, pc : Requests, session : 1..made]
                      /\ call'[r.call].pc # "free" /\ r.session = call'[r.call].fence
                      /\ r.pc = "gesture" =>
                           call'[r.call].pc \in Outcomes /\ ~ \E p \in done' : p.call = r.call
    BY <1>0 DEF AskedInv, IsDone, workerVars
  <2>1. /\ r \in [call : Call, pc : Requests, session : 1..made]
        /\ call[r.call].pc # "free" /\ r.session = call[r.call].fence
        /\ r.pc = "gesture" => call[r.call].pc \in Outcomes /\ ~ IsDone(r.call)
    BY DEF GesturesInv, AskedInv
  <2>2. r.pc = "gesture" /\ q.pc = "gesture" => r.call # q.call
    BY <2>1, <1>0
  <2>3. r.pc = "gesture" => ~ \E p \in done' : p.call = r.call
    BY <2>1, <2>2, <1>1, <1>2 DEF IsDone
  <2> QED BY <2>1, <2>3, <1>4
<1>9. DoneInv'
  <2> SUFFICES ASSUME NEW p \in done'
               PROVE  /\ p.call \in Call /\ call'[p.call].pc \in Outcomes
                      /\ p.session = call'[p.call].fence
                      /\ \A o \in done' : o.call = p.call => o = p
    BY DEF DoneInv
  <2>1. CASE done' = done
    BY <2>1, <1>4 DEF GesturesInv, DoneInv
  <2>2. CASE done' # done
    <3>1. done' = done \cup {new} /\ q.pc = "gesture"
      BY <2>2, <1>1
    <3>2. \A o \in done : o.call # q.call
      BY <3>1, <1>0 DEF IsDone
    <3>3. CASE p = new
      BY <3>1, <3>2, <3>3, <1>0, <1>2, <1>4
    <3>4. CASE p \in done
      BY <3>1, <3>2, <3>4, <1>2, <1>4 DEF GesturesInv, DoneInv
    <3> QED BY <3>1, <3>3, <3>4
  <2> QED BY <2>1, <2>2
<1> QED BY <1>7, <1>8, <1>9 DEF GesturesInv

LEMMA GesturesStep == GesturesInv /\ [GestureNext]_gestureVars => GesturesInv'
<1> SUFFICES ASSUME GesturesInv, [GestureNext]_gestureVars PROVE GesturesInv'
  OBVIOUS
<1>1. CASE GestureNext
  <2>1. CASE \E c \in Call :
               \/ ExecuteAction(c) \/ Activated(c) \/ AppInFront(c) \/ OtherInFront(c)
               \/ Terminated(c) \/ Performed(c) \/ SessionGone(c) \/ TimesOut(c)
               \/ RequestFails(c)
    BY <2>1, CallActions
  <2>2. CASE \E q \in asked : Serve(q)
    BY <2>2, ServeKeepsGestures
  <2> QED BY <1>1, <2>1, <2>2, WorkerActions DEF GestureNext
<1>2. CASE UNCHANGED gestureVars
  BY <1>2 DEF gestureVars, workerVars, GesturesInv, CallsInv, AskedInv, DoneInv,
              GestureTypeOK, CallIsSound, IsDone
<1> QED BY <1>1, <1>2

\* What a call was asked for is kept from its first request on, and what the
\* device did for it are the pointer actions of it.
DrawnInv ==
  /\ \A c \in Call : call[c].pc # "free" => call[c].command \in ActionCommand
  /\ \A p \in done : call[p.call].command.type \in Pointer =>
       p.moves = PointerActions(call[p.call].command)

\* No step changes what a call that has begun was asked for.
CommandsStay ==
  \A c \in Call :
    IF call[c].pc # "free" THEN call'[c].command = call[c].command
    ELSE call'[c].pc # "free" => call'[c].command \in ActionCommand

LEMMA CommandStays ==
  ASSUME GesturesInv, GestureNext
  PROVE  CommandsStay
<1>1. call \in [Call -> CallRecord] /\ \A q \in asked : q.call \in Call
  BY DEF GesturesInv, CallsInv, AskedInv
<1>2. CASE UNCHANGED call
  BY <1>2 DEF CommandsStay
<1>3. CASE \/ StartWorker \/ WorkerReady \/ WorkerFailsToStart \/ StopWorker
           \/ DeleteSession \/ WorkerStops \/ SessionLost \/ FrontChanges
  BY <1>2, <1>3 DEF StartWorker, WorkerReady, WorkerFailsToStart, StopWorker, DeleteSession,
                    WorkerStops, SessionLost, FrontChanges
<1>4. ASSUME NEW c \in Call, NEW r,
             call' = [call EXCEPT ![c] = r],
             IF call[c].pc # "free" THEN r.command = call[c].command
             ELSE r.command \in ActionCommand
      PROVE  CommandsStay
  BY <1>1, <1>4 DEF CommandsStay
<1>5. ASSUME NEW c \in Call, ExecuteAction(c) PROVE CommandsStay
  <2>1. PICK command \in ActionCommand :
          call' = [call EXCEPT ![c] = [NoCall EXCEPT !.pc = "activate", !.fence = fence,
                                         !.born = generation, !.command = command]]
          /\ call[c].pc = "free"
    BY <1>5 DEF ExecuteAction
  <2> DEFINE r == [NoCall EXCEPT !.pc = "activate", !.fence = fence,
                                 !.born = generation, !.command = command]
  <2>2. r.command = command
    BY DEF NoCall
  <2>3. call' = [call EXCEPT ![c] = r]
    BY <2>1
  <2> HIDE DEF r
  <2> QED BY <1>4, <2>1, <2>2, <2>3
<1>6. ASSUME NEW c \in Call, NEW request, Send(c, request), call[c].pc # "free"
      PROVE  CommandsStay
  <2>1. CASE call' = [call EXCEPT ![c].pc = request, ![c].answer = "none"]
    <3> DEFINE r == [call[c] EXCEPT !.pc = request, !.answer = "none"]
    <3>1. r.command = call[c].command /\ call' = [call EXCEPT ![c] = r]
      BY <1>1, <2>1 DEF CallRecord
    <3> HIDE DEF r
    <3> QED BY <1>4, <1>6, <3>1
  <2>2. CASE call' = [call EXCEPT ![c].pc = "failed"]
    <3> DEFINE r == [call[c] EXCEPT !.pc = "failed"]
    <3>1. r.command = call[c].command /\ call' = [call EXCEPT ![c] = r]
      BY <1>1, <2>2 DEF CallRecord
    <3> HIDE DEF r
    <3> QED BY <1>4, <1>6, <3>1
  <2> QED BY <1>6, <2>1, <2>2 DEF Send, Fails
<1>7. ASSUME NEW c \in Call, Fails(c), call[c].pc # "free" PROVE CommandsStay
  <2> DEFINE r == [call[c] EXCEPT !.pc = "failed"]
  <2>1. r.command = call[c].command /\ call' = [call EXCEPT ![c] = r]
    BY <1>1, <1>7 DEF CallRecord, Fails
  <2> HIDE DEF r
  <2> QED BY <1>4, <1>7, <2>1
<1>8. ASSUME NEW c \in Call, AppInFront(c) PROVE CommandsStay
  <2>1. call[c].pc = "look"
    BY <1>8 DEF AppInFront, Sees, Answered
  <2>2. CASE Fails(c)
    BY <1>7, <2>1, <2>2
  <2>3. CASE call' = [call EXCEPT ![c].pc = "performed", ![c].seen = call[c].answer = "ok"]
    <3> DEFINE r == [call[c] EXCEPT !.pc = "performed", !.seen = call[c].answer = "ok"]
    <3>1. r.command = call[c].command /\ call' = [call EXCEPT ![c] = r]
      BY <1>1, <2>3 DEF CallRecord
    <3> HIDE DEF r
    <3> QED BY <1>4, <2>1, <3>1
  <2>4. ASSUME NEW next,
               call' = [call EXCEPT ![c].pc = next, ![c].answer = "none",
                                    ![c].seen = call[c].answer = "ok"]
        PROVE  CommandsStay
    <3> DEFINE r == [call[c] EXCEPT !.pc = next, !.answer = "none",
                                    !.seen = call[c].answer = "ok"]
    <3>1. r.command = call[c].command /\ call' = [call EXCEPT ![c] = r]
      BY <1>1, <2>4 DEF CallRecord
    <3> HIDE DEF r
    <3> QED BY <1>4, <2>1, <3>1
  <2> QED BY <1>8, <2>2, <2>3, <2>4 DEF AppInFront
<1>9. ASSUME NEW c \in Call, Activated(c) \/ OtherInFront(c) \/ Terminated(c)
      PROVE  CommandsStay
  BY <1>6, <1>7, <1>9 DEF Activated, OtherInFront, Terminated, Answered
<1>10. ASSUME NEW c \in Call, SessionGone(c) \/ RequestFails(c) PROVE CommandsStay
  BY <1>7, <1>10 DEF SessionGone, RequestFails, Requests
<1>11. ASSUME NEW c \in Call, Performed(c) PROVE CommandsStay
  <2> DEFINE r == [call[c] EXCEPT !.pc = "performed"]
  <2>1. /\ r.command = call[c].command /\ call' = [call EXCEPT ![c] = r]
        /\ call[c].pc # "free"
    BY <1>1, <1>11 DEF CallRecord, Performed, Answered
  <2> HIDE DEF r
  <2> QED BY <1>4, <2>1
<1>12. ASSUME NEW c \in Call, TimesOut(c) PROVE CommandsStay
  <2> DEFINE late == IF call[c].answer = "none" THEN "server" ELSE "gesture"
             r == [call[c] EXCEPT !.pc = "failed", !.late = late]
  <2>1. /\ r.command = call[c].command /\ call' = [call EXCEPT ![c] = r]
        /\ call[c].pc # "free"
    BY <1>1, <1>12 DEF CallRecord, TimesOut, Requests
  <2> HIDE DEF r
  <2> QED BY <1>4, <2>1
<1>13. ASSUME NEW q \in asked, Serve(q) PROVE CommandsStay
  <2>1. CASE call[q.call].pc # q.pc
    BY <1>2, <1>13, <2>1 DEF Serve
  <2>2. CASE call[q.call].pc = q.pc
    <3>1. PICK answer : call' = [call EXCEPT ![q.call].answer = answer]
      BY <1>13, <2>2 DEF Serve
    <3> DEFINE r == [call[q.call] EXCEPT !.answer = answer]
    <3>2. /\ r.command = call[q.call].command /\ call' = [call EXCEPT ![q.call] = r]
          /\ call[q.call].pc # "free"
      BY <1>1, <3>1 DEF CallRecord, GesturesInv, AskedInv
    <3> HIDE DEF r
    <3> QED BY <1>1, <1>4, <3>2
  <2> QED BY <2>1, <2>2
<1> QED BY <1>3, <1>5, <1>8, <1>9, <1>10, <1>11, <1>12, <1>13 DEF GestureNext

LEMMA DrawnStep ==
  ASSUME GesturesInv, DrawnInv, [GestureNext]_gestureVars
  PROVE  DrawnInv'
<1>1. CASE UNCHANGED gestureVars
  BY <1>1 DEF gestureVars, DrawnInv
<1>2. CASE GestureNext
  <2>1. CommandsStay
    BY <1>2, CommandStays
  <2>2. \A c \in Call : call'[c].pc # "free" => call'[c].command \in ActionCommand
    BY <2>1 DEF DrawnInv, CommandsStay
  <2>3. \A p \in done : /\ p.call \in Call /\ call[p.call].pc # "free"
                        /\ call'[p.call].command = call[p.call].command
    BY <2>1 DEF GesturesInv, DoneInv, Outcomes, CommandsStay
  <2>4. CASE done' = done
    BY <2>2, <2>3, <2>4 DEF DrawnInv
  <2>5. CASE done' # done
    <3>1. PICK q \in asked : Serve(q)
      BY <1>2, <2>5
      DEF GestureNext, StartWorker, WorkerReady, WorkerFailsToStart, StopWorker,
          DeleteSession, WorkerStops, SessionLost, FrontChanges, ExecuteAction, Activated,
          AppInFront, OtherInFront, Terminated, Performed, SessionGone, TimesOut, RequestFails
    <3> DEFINE moves == IF call[q.call].command.type \in Pointer
                        THEN PointerActions(call[q.call].command) ELSE <<>>
               new == [call |-> q.call, session |-> q.session, moves |-> moves]
    <3>2. done' \subseteq done \cup {new}
      BY <3>1 DEF Serve
    <3>3. new.call = q.call /\ new.moves = moves
      OBVIOUS
    <3> HIDE DEF new
    <3>4. q.call \in Call /\ call'[q.call].command = call[q.call].command
      BY <2>1, <3>1 DEF GesturesInv, AskedInv, CommandsStay
    <3>5. \A p \in done' : call'[p.call].command.type \in Pointer =>
                             p.moves = PointerActions(call'[p.call].command)
      BY <2>3, <3>2, <3>3, <3>4 DEF DrawnInv
    <3> QED BY <2>2, <3>5 DEF DrawnInv
  <2> QED BY <2>4, <2>5
<1> QED BY <1>1, <1>2

\* What the invariants say of a gesture that was done.
LEMMA DrawnSuffices ==
  ASSUME GesturesInv, DrawnInv
  PROVE  GesturesAreAsDrawn
<1> SUFFICES ASSUME NEW p \in done, call[p.call].command.type \in Pointer
             PROVE  LET m     == p.moves
                        c     == call[p.call].command
                        moved == {i \in DOMAIN m : m[i].is = "move"}
                        took[i \in 0..Len(m)] == IF i = 0 THEN 0 ELSE took[i - 1] + m[i].ms
                    IN  /\ m[1].at = Point(c.path[1]) /\ m[2] = Press /\ m[Len(m)] = Lift
                        /\ \E i \in moved : m[i].at = Point(c.path[Len(c.path)])
                                            /\ \A j \in moved : j <= i
                        /\ \A i \in moved : m[i].at[1] < Width /\ m[i].at[2] < Height
                        /\ took[Len(m)] = IF c.type = "tap" THEN 0 ELSE c.durationMs
  BY DEF GesturesAreAsDrawn
<1> DEFINE m == p.moves
           c == call[p.call].command
           t == IF c.type = "tap" THEN 0 ELSE c.durationMs
<1>1. c \in ActionCommand /\ m = PointerActions(c)
  BY DEF GesturesInv, DoneInv, DrawnInv, Outcomes
<1>2. Drawn(m, c.path, t)
  <2>1. c.type \in Pointer
    OBVIOUS
  <2> HIDE DEF c
  <2> QED BY <1>1, <2>1, PointerIsDrawn
<1>3. /\ m[1].at = Point(c.path[1]) /\ m[2] = Press /\ m[Len(m)] = Lift
      /\ \E i \in DOMAIN m : /\ m[i].is = "move" /\ m[i].at = Point(c.path[Len(c.path)])
                             /\ \A j \in DOMAIN m : m[j].is = "move" => j <= i
      /\ \A i \in DOMAIN m : m[i].is = "move" => m[i].at[1] < Width /\ m[i].at[2] < Height
      /\ TimeTaken(m) = t
  BY <1>2 DEF Drawn
<1> HIDE DEF m, c, t
<1>4. LET took[i \in 0..Len(m)] == IF i = 0 THEN 0 ELSE took[i - 1] + m[i].ms
      IN  took[Len(m)] = t
  BY <1>3 DEF TimeTaken
<1> DEFINE moved == {i \in DOMAIN m : m[i].is = "move"}
<1>5. /\ m[1].at = Point(c.path[1]) /\ m[2] = Press /\ m[Len(m)] = Lift
      /\ \E i \in moved : m[i].at = Point(c.path[Len(c.path)]) /\ \A j \in moved : j <= i
      /\ \A i \in moved : m[i].at[1] < Width /\ m[i].at[2] < Height
  BY <1>3
<1> QED BY <1>4, <1>5 DEF m, c, t

(* For any calls, stops and starts of their worker: a gesture is made in   *)
(* the session its action began in and once at most; what reads as         *)
(* performed was done after the app had been seen in front; and a gesture  *)
(* begins and ends where its path does, stays on the screen and takes the  *)
(* time it was asked to (device-worker.ts, w3c-client.ts,                  *)
(* appium-action.ts).                                                      *)
THEOREM GesturesHold == GestureSpec => []GesturesAreTheirs
<1>1. GestureInit => GesturesInv /\ DrawnInv
  BY GesturesAtFirst DEF GestureInit, DrawnInv, NoCall
<1>2. GesturesInv /\ DrawnInv /\ [GestureNext]_gestureVars => (GesturesInv /\ DrawnInv)'
  BY GesturesStep, DrawnStep
<1>3. GesturesInv /\ DrawnInv => GesturesAreTheirs
  <2>1. GesturesInv => GestureTypeOK /\ GesturesStayInTheirSession /\ PerformedIsDone
    BY DEF GesturesInv, CallsInv, DoneInv, CallIsSound, IsDone, GesturesStayInTheirSession,
           PerformedIsDone
  <2> QED BY <2>1, DrawnSuffices DEF GesturesAreTheirs
<1> QED BY <1>1, <1>2, <1>3, PTL DEF GestureSpec
-----------------------------------------------------------------------------
(* The log of a device.                                                    *)

LineText  == Seq(Nat)
FileName  == [index : Nat, kind : {"partial", "raw", "recovered"}]
Queued    == [text : LineText, late : BOOLEAN]

Announced ==
  [file : FileName, digest : Seq(LineText), count : Nat \cup {CountOf(t) : t \in Seq(LineText)}]

FilesTyped ==
  /\ folder \in BOOLEAN /\ IsFiniteSet(DOMAIN segments) /\ DOMAIN segments \subseteq FileName
  /\ \A p \in DOMAIN segments : segments[p] \in Seq(LineText)

PipeTyped ==
  /\ host \in {"up", "crashed", "fell"} /\ listening \in BOOLEAN
  /\ child \in {"none", "alive", "killed", "closed"}
  /\ said \in 0..2 * LineCount /\ inputBuffer \in LineText /\ processing \in Seq(Queued)

WriterTyped ==
  /\ appending \in {"idle", "seal", "write", "count"}
  /\ segment \in [index : Nat, records : 0..SegmentLimit] /\ nextIndex \in Nat \ {0}
  /\ sealing \in [at : {"no", "read", "rename", "tell"}, bytes : Seq(LineText)]
  /\ closed \in Seq(Announced) /\ sunk \in Seq(LineText)

EndsTyped ==
  /\ ending \in [Ender -> {"idle", "flush", "join", "done", "failed"}]
  /\ waits \in [Ender -> Nat] /\ broken \in BOOLEAN

\* A stamp is a reading of the clock.
WatchInv ==
  /\ pausing \subseteq {"monitor", "operator"} /\ runs \in BOOLEAN
  /\ streams \in 0..MaxStreams /\ clock \in Nat /\ clock <= MaxTicks + streams
  /\ chain \in Seq(0..clock) /\ incidents \subseteq 0..clock

\* While adb runs nobody ends the stream, and what was said and not queued is
\* the first half of a line.
PipeInv ==
  /\ child = "alive" => listening /\ ending["stop"] = "idle" /\ ending["close"] = "idle"
  /\ child = "alive" => inputBuffer = IF said % 2 = 1 THEN <<said>> ELSE <<>>
  /\ ending["close"] # "idle" => child = "closed"
  /\ ending["stop"] # "idle" => child \in {"killed", "closed"}
  /\ EndedWhole /\ child # "alive" => inputBuffer = <<>>
  /\ ~folder /\ child # "none" => ending["stop"] \in {"done", "failed"}

\* No stream has started, or its memory went with the server.
OffInv ==
  /\ child = "none" => StreamInit
  /\ host # "up" => child = "none" /\ chain = <<>> /\ pausing = {}

\* What is queued are lines the device wrote, unless the output ended in one.
RecordsInv ==
  \A i \in 1..Len(processing) :
    IF processing[i].late THEN ~EndedWhole
    ELSE \E k \in 1..LineCount : WholeLine(processing[i].text, k) /\ 2 * k <= said

AppendInv ==
  /\ appending \in {"write", "count"} => segment.records < SegmentLimit
  /\ appending # "idle" => processing # <<>> /\ sunk # <<>>

BlankSaid == \E k \in BlankLine : 2 * k <= said

\* Nobody seals under the record that is being appended, and nobody appends to
\* a segment that was sealed: whoever ends the stream waits for the queue.
OrderlyInv ==
  EndedWhole =>
    /\ \A h \in Ender : /\ ending[h] = "flush" => waits[h] = Len(processing)
                        /\ ending[h] \in {"join", "done", "failed"} => processing = <<>>
                        /\ ending[h] = "join" => sealing.at # "no"
                        /\ ending[h] = "done" => segment = NoSegment
    /\ ending["stop"] = "failed" <=> broken
    /\ broken => BlankSaid
    /\ ending["close"] # "failed"
    /\ sealing.at # "no" => /\ segment.records > 0 /\ ~broken
                            /\ appending = "seal" \/ "join" \in {ending["stop"], ending["close"]}
    /\ appending = "seal" => sealing.at # "no"
    /\ appending # "idle" => segment # NoSegment
    /\ appending = "idle" /\ segment # NoSegment => segment.records > 0
    /\ segment # NoSegment => segment.index + 1 = nextIndex

LogTyped == FilesTyped /\ PipeTyped /\ WriterTyped /\ EndsTyped

\* The state of the stream, apart from what its files hold.
StreamInv == LogTyped /\ WatchInv /\ PipeInv /\ OffInv /\ RecordsInv /\ AppendInv /\ OrderlyInv

InUse == EndedWhole /\ folder /\ child # "none"

\* What the open segment holds, by its file or, once renamed, by what was read.
InFile ==
  IF sealing.at = "tell" THEN sealing.bytes ELSE Content(Partial(segment.index))

\* The record being appended, while it is in no file.
Pending == IF appending \in {"seal", "write"} THEN <<sunk[Len(sunk)]>> ELSE <<>>

PartialsInv ==
  \A p \in DOMAIN segments : p.kind = "partial" =>
    segment # NoSegment /\ p = Partial(segment.index) /\ sealing.at # "tell"

IsSealed(e) ==
  /\ e.file \in DOMAIN segments /\ segments[e.file] = e.digest
  /\ e.count = IF e.file.kind = "raw" THEN Len(e.digest) ELSE CountOf(e.digest)
  /\ \/ e.file.kind = "recovered"
     \/ /\ e.file.kind = "raw" /\ e.file.index < nextIndex
        /\ segment # NoSegment => e.file.index < segment.index

SealedInv == \A k \in 1..Len(closed) : IsSealed(closed[k])

OpenInv ==
  /\ segment # NoSegment =>
       Len(InFile) = segment.records + IF appending = "count" THEN 1 ELSE 0
  /\ sealing.at = "rename" => sealing.bytes = Content(Partial(segment.index))
  /\ sealing.at = "tell" =>
       Raw(segment.index) \in DOMAIN segments /\ segments[Raw(segment.index)] = sealing.bytes

\* The records of a segment that was announced, if it is of this stream.
RecordsOf(e) == IF e.file.kind = "raw" THEN e.digest ELSE <<>>

\* f joins the records of the first segments of c.
Joins(f, c) ==
  /\ f \in [0..Len(c) -> Seq(LineText)] /\ f[0] = <<>>
  /\ \A i \in 1..Len(c) : f[i] = f[i - 1] \o RecordsOf(c[i])

\* Every record that was read is in a sealed segment, the open one or underway.
SpelledInv ==
  \E f : Joins(f, closed) /\ sunk = f[Len(closed)] \o InFile \o Pending

KeptInv == InUse => PartialsInv /\ SealedInv /\ OpenInv /\ SpelledInv

\* The server falls by what the device wrote, or by two incidents that collide.
FallInv == host = "fell" => BlankSaid \/ said % 2 = 1 \/ (runs /\ incidents # {})

LogInv == StreamInv /\ KeptInv /\ FallInv

\* Two lemmas on joining.
LEMMA JoinsMore ==
  ASSUME NEW c \in Seq(Announced), NEW e \in Announced, NEW f, Joins(f, c)
  PROVE  \E g : Joins(g, Append(c, e)) /\ g[Len(c) + 1] = f[Len(c)] \o RecordsOf(e)
<1> DEFINE n == Len(c)
           d == Append(c, e)
           new == f[n] \o RecordsOf(e)
           g == [i \in 0..(n + 1) |-> IF i = n + 1 THEN new ELSE f[i]]
<1>1. n \in Nat /\ Len(d) = n + 1 /\ d[n + 1] = e /\ \A i \in 1..n : d[i] = c[i]
  BY AppendProperties, LenProperties
<1>2. new \in Seq(LineText)
  <2>1. RecordsOf(e) \in Seq(LineText) /\ f[n] \in Seq(LineText)
    <3>1. <<>> \in Seq(LineText)
      OBVIOUS
    <3> QED BY <1>1, <3>1 DEF Announced, RecordsOf, Joins
  <2> QED BY <2>1, ConcatProperties
<1> HIDE DEF n, d, new
<1>3. f \in [0..n -> Seq(LineText)] /\ f[0] = <<>>
      /\ \A i \in 1..n : f[i] = f[i - 1] \o RecordsOf(c[i])
  BY DEF Joins, n
<1>4. g \in [0..Len(d) -> Seq(LineText)]
  BY <1>1, <1>2, <1>3
<1>5. g[0] = <<>>
  BY <1>1, <1>3
<1>6. ASSUME NEW i \in 1..Len(d) PROVE g[i] = g[i - 1] \o RecordsOf(d[i])
  <2>1. CASE i = n + 1
    <3>1. g[i] = new /\ g[i - 1] = f[n] /\ d[i] = e
      BY <1>1, <2>1
    <3> HIDE DEF g
    <3> QED BY <3>1 DEF new
  <2>2. CASE i \in 1..n
    <3>1. g[i] = f[i] /\ g[i - 1] = f[i - 1] /\ d[i] = c[i]
      BY <1>1, <2>2
    <3> HIDE DEF g
    <3> QED BY <3>1, <1>3, <2>2
  <2>3. i = n + 1 \/ i \in 1..n
    BY <1>1
  <2> QED BY <2>1, <2>2, <2>3
<1>7. g[n + 1] = new
  BY <1>1
<1> HIDE DEF g
<1>8. Joins(g, d)
  BY <1>4, <1>5, <1>6 DEF Joins
<1> QED BY <1>7, <1>8 DEF d, n, new

\* Joined from the first, the records of segments are determined.
LEMMA JoinsAreFlat ==
  ASSUME NEW c \in Seq(Announced), NEW f, Joins(f, c)
  PROVE  Seqs!FlattenSeq([k \in DOMAIN c |-> RecordsOf(c[k])]) = f[Len(c)]
<1> DEFINE n == Len(c)
           s == [k \in DOMAIN c |-> RecordsOf(c[k])]
<1>1. n \in Nat /\ DOMAIN c = 1..n
  BY LenProperties
<1>2. /\ \A i \in 1..n : s[i] = RecordsOf(c[i])
      /\ \A i \in 1..n : s[i] \in Seq(LineText)
      /\ s = [k \in 1..n |-> RecordsOf(c[k])]
  <2>1. <<>> \in Seq(LineText)
    OBVIOUS
  <2>2. \A i \in 1..n : c[i] \in Announced
    BY ElementOfSeq
  <2>3. \A i \in 1..n : RecordsOf(c[i]) \in Seq(LineText)
    BY <2>1, <2>2 DEF Announced, RecordsOf
  <2> QED BY <1>1, <2>3
<1>3. Len(s) = n
  <2>1. s \in Seq(Seq(LineText))
    BY <1>1, <1>2
  <2> QED BY <1>1, <1>2, <2>1, LenProperties
<1>4. f \in [0..n -> Seq(LineText)] /\ f[0] = <<>>
      /\ \A i \in 1..n : f[i] = f[i - 1] \o s[i]
  BY <1>2 DEF Joins
<1> HIDE DEF s, n
<1>5. CASE n = 0
  <2>1. s = <<>>
    BY <1>2, <1>5
  <2> QED BY <1>3, <1>4, <1>5, <2>1 DEF Seqs!FlattenSeq, s, n
<1>6. CASE n # 0
  <2> DEFINE Adds(h) == h = [i \in 1..n |-> IF i = 1 THEN s[i] ELSE h[i - 1] \o s[i]]
             g == [i \in 1..n |-> f[i]]
             h == CHOOSE x : Adds(x)
  <2>1. Adds(g)
    <3>1. ASSUME NEW i \in 1..n
          PROVE  g[i] = IF i = 1 THEN s[i] ELSE g[i - 1] \o s[i]
      <4>1. CASE i = 1
        <5>1. f[i] = f[i - 1] \o s[i] /\ s[i] \in Seq(LineText)
          BY <1>2, <1>4
        <5>2. f[i - 1] = <<>>
          BY <1>4, <4>1
        <5>3. f[i] = s[i]
          BY <5>1, <5>2, ConcatEmptySeq
        <5> QED BY <4>1, <5>3
      <4>2. CASE i # 1
        <5>1. i - 1 \in 1..n
          BY <1>1, <4>2
        <5> QED BY <1>4, <4>2, <5>1
      <4> QED BY <4>1, <4>2
    <3> QED BY <3>1
  <2>2. Adds(h)
    <3> HIDE DEF Adds
    <3> QED BY <2>1
  <2>3. Seqs!FlattenSeq(s) = h[n]
    BY <1>3, <1>6 DEF Seqs!FlattenSeq
  <2> HIDE DEF h
  <2> DEFINE Off == {i \in 1..n : h[i] # f[i]}
  <2>4. ASSUME Off # {} PROVE FALSE
    <3>1. Off \in SUBSET Nat
      BY <1>1
    <3>2. PICK i \in Off : \A j \in Off : i <= j
      <4> HIDE DEF Off
      <4> QED BY <2>4, <3>1, LeastOf
    <3>3. i \in 1..n /\ h[i] # f[i]
      OBVIOUS
    <3>4. CASE i = 1
      <4>1. h[1] = s[1] /\ g[1] = s[1] /\ g[1] = f[1]
        BY <2>1, <2>2, <3>3, <3>4
      <4> QED BY <3>3, <3>4, <4>1
    <3>5. CASE i # 1
      <4>1. i - 1 \in 1..n /\ i \in Nat /\ ~(i <= i - 1)
        BY <1>1, <3>3, <3>5
      <4>2. i - 1 \notin Off
        <5> HIDE DEF Off
        <5> QED BY <3>2, <4>1
      <4>3. h[i - 1] = f[i - 1]
        BY <4>1, <4>2
      <4>4. h[i] = h[i - 1] \o s[i]
        BY <2>2, <3>3, <3>5
      <4>5. f[i] = f[i - 1] \o s[i]
        BY <1>4, <3>3
      <4> QED BY <3>3, <4>3, <4>4, <4>5
    <3> QED BY <3>4, <3>5
  <2>5. n \in 1..n
    BY <1>1, <1>6
  <2> QED BY <2>3, <2>4, <2>5 DEF s, n
<1> QED BY <1>5, <1>6

LEMMA OddOrEven ==
  ASSUME NEW n \in Nat
  PROVE  /\ n % 2 \in {0, 1} /\ (n + 1) % 2 \in {0, 1} /\ (n % 2 = 1 <=> (n + 1) % 2 = 0)
OBVIOUS

LEMMA SaidIsNatural == PipeTyped => said \in Nat /\ said % 2 \in {0, 1}
<1> SUFFICES ASSUME PipeTyped PROVE said \in Nat /\ said % 2 \in {0, 1}
  OBVIOUS
<1>1. said \in Nat
  BY LogcatAssumption DEF PipeTyped
<1> QED BY <1>1, OddOrEven

\* The server goes down: what is left is on disk.
LEMMA DownKeepsLog ==
  ASSUME LogInv, NEW how \in {"crashed", "fell"}, Down(how),
         UNCHANGED <<onDisk, said, incidents, runs, clock, streams>>,
         how = "fell" => BlankSaid \/ said % 2 = 1 \/ (runs /\ incidents # {})
  PROVE  LogInv'
<1>1. /\ host' = how /\ child' = "none" /\ inputBuffer' = <<>> /\ processing' = <<>>
      /\ listening' = FALSE
      /\ appending' = "idle" /\ segment' = NoSegment /\ sealing' = NotSealing /\ nextIndex' = 1
      /\ ending' = [h \in Ender |-> "idle"] /\ waits' = [h \in Ender |-> 0]
      /\ broken' = FALSE /\ closed' = <<>> /\ sunk' = <<>> /\ chain' = <<>> /\ pausing' = {}
  BY DEF Down
<1>2. FilesTyped'
  BY DEF LogInv, StreamInv, LogTyped, FilesTyped, onDisk
<1>3. PipeTyped'
  <2>1. <<>> \in LineText /\ <<>> \in Seq(Queued)
    BY DEF LineText
  <2> QED BY <1>1, <2>1 DEF LogInv, StreamInv, LogTyped, PipeTyped
<1>4. WriterTyped'
  <2>1. <<>> \in Seq(LineText) /\ <<>> \in Seq(Announced) /\ 0 \in 0..SegmentLimit
    BY LogcatAssumption
  <2> QED BY <1>1, <2>1 DEF WriterTyped, NoSegment, NotSealing
<1>5. EndsTyped'
  BY <1>1 DEF EndsTyped
<1>6. WatchInv'
  <2>1. <<>> \in Seq(0..clock)
    OBVIOUS
  <2> QED BY <1>1, <2>1 DEF LogInv, StreamInv, WatchInv
<1>7. PipeInv'
  BY <1>1 DEF PipeInv, Ender
<1>8. OffInv'
  BY <1>1 DEF OffInv, StreamInit
<1>9. RecordsInv'
  <2>1. Len(<<>>) = 0
    OBVIOUS
  <2> QED BY <1>1, <2>1 DEF RecordsInv
<1>10. AppendInv'
  BY <1>1 DEF AppendInv
<1>11. OrderlyInv'
  BY <1>1 DEF OrderlyInv, NotSealing, Ender
<1>12. KeptInv'
  BY <1>1 DEF KeptInv, InUse
<1>13. FallInv'
  BY <1>1 DEF FallInv, BlankSaid
<1> QED BY <1>2, <1>3, <1>4, <1>5, <1>6, <1>7, <1>8, <1>9, <1>10, <1>11, <1>12, <1>13
        DEF LogInv, StreamInv, LogTyped

\* A record was refused: by the schema, or after the output ended within a line.
LEMMA RejectKeepsLog ==
  ASSUME LogInv, Reject, UNCHANGED <<onDisk, incidents, runs, clock, streams>>,
         BlankSaid \/ ~EndedWhole,
         EndedWhole => appending = "idle" /\ processing # <<>>
  PROVE  LogInv'
<1>1. CASE Fall /\ UNCHANGED said
  <2>1. BlankSaid \/ said % 2 = 1
    BY SaidIsNatural DEF LogInv, StreamInv, LogTyped, EndedWhole
  <2> QED BY <1>1, <2>1, DownKeepsLog DEF Fall
<1>2. CASE /\ ending["stop"] = "flush" /\ ending["close"] # "flush"
           /\ ending' = [ending EXCEPT !["stop"] = "failed"]
           /\ broken' = TRUE
           /\ processing' = <<>> /\ appending' = "idle"
           /\ UNCHANGED <<host, pipe, segment, nextIndex, sealing, waits, heard, chain, pausing>>
  <2>0. /\ ending["stop"] = "flush" /\ ending["close"] # "flush"
        /\ ending' = [ending EXCEPT !["stop"] = "failed"]
        /\ ending'["stop"] = "failed" /\ ending'["close"] = ending["close"]
        /\ broken' = TRUE /\ processing' = <<>> /\ appending' = "idle"
        /\ UNCHANGED <<host, child, listening, said, inputBuffer, segment, nextIndex, sealing,
                       waits, closed, sunk, chain, pausing, folder, segments,
                       incidents, runs, clock, streams>>
    BY <1>2 DEF LogInv, StreamInv, LogTyped, EndsTyped, pipe, heard, onDisk, Ender
  <2>1. EndedWhole' = EndedWhole
    BY <2>0 DEF EndedWhole
  <2>2. FilesTyped' /\ WriterTyped' /\ EndsTyped'
    BY <2>0 DEF LogInv, StreamInv, LogTyped, FilesTyped, WriterTyped, EndsTyped, Ender
  <2>3. PipeTyped'
    <3>1. <<>> \in Seq(Queued)
      OBVIOUS
    <3> QED BY <2>0, <3>1 DEF LogInv, StreamInv, LogTyped, PipeTyped
  <2>4. WatchInv'
    BY <2>0 DEF LogInv, StreamInv, WatchInv
  <2>5. PipeInv' /\ child # "none" /\ child # "alive"
    BY <2>0, <2>1 DEF LogInv, StreamInv, PipeInv
  <2>6. OffInv'
    BY <2>0, <2>5 DEF LogInv, StreamInv, OffInv
  <2>7. RecordsInv'
    <3>1. Len(<<>>) = 0
      OBVIOUS
    <3> QED BY <2>0, <3>1 DEF RecordsInv
  <2>8. AppendInv'
    BY <2>0 DEF AppendInv
  <2>9. OrderlyInv'
    <3> SUFFICES ASSUME EndedWhole PROVE OrderlyInv'
      BY <2>1 DEF OrderlyInv
    <3>1. ending["close"] = "idle" /\ sealing.at = "no" /\ BlankSaid'
      BY <2>0, <2>2 DEF LogInv, StreamInv, LogTyped, OrderlyInv, EndsTyped, BlankSaid, Ender
    <3>2. segment # NoSegment => segment.index + 1 = nextIndex /\ segment.records > 0
      BY DEF LogInv, StreamInv, OrderlyInv
    <3> QED BY <2>0, <3>1, <3>2 DEF OrderlyInv, Ender
  <2>10. KeptInv'
    <3> SUFFICES ASSUME InUse PROVE KeptInv'
      BY <2>0, <2>1 DEF KeptInv, InUse
    <3>1. appending = "idle" /\ PartialsInv /\ SealedInv /\ OpenInv /\ SpelledInv
      BY DEF LogInv, KeptInv, InUse
    <3>2. PartialsInv' /\ SealedInv'
      BY <2>0, <3>1 DEF PartialsInv, SealedInv, IsSealed
    <3>3. OpenInv' /\ SpelledInv'
      BY <2>0, <3>1 DEF OpenInv, SpelledInv, InFile, Content, Pending
    <3> QED BY <3>2, <3>3 DEF KeptInv
  <2>11. FallInv'
    BY <2>0 DEF LogInv, FallInv, BlankSaid
  <2> QED BY <2>2, <2>3, <2>4, <2>5, <2>6, <2>7, <2>8, <2>9, <2>10, <2>11
          DEF LogInv, StreamInv, LogTyped
<1> QED BY <1>1, <1>2 DEF Reject

\* What the monitor and the clock do leaves the stream alone.
LEMMA WatchKeepsLog ==
  ASSUME LogInv, UNCHANGED <<host, onDisk, pipe, writer, ends, heard>>, WatchInv',
         host # "up" => chain' = <<>> /\ pausing' = {} /\ UNCHANGED <<runs, incidents>>
  PROVE  LogInv'
<1>0. UNCHANGED <<host, folder, segments, child, listening, said, inputBuffer, processing,
                  appending, segment, nextIndex, sealing, ending, waits, broken, closed, sunk>>
  BY DEF onDisk, pipe, writer, ends, heard
<1>1. EndedWhole' = EndedWhole /\ BlankSaid' = BlankSaid
  BY <1>0 DEF EndedWhole, BlankSaid
<1>2. LogTyped'
  BY <1>0 DEF LogInv, StreamInv, LogTyped, FilesTyped, PipeTyped, WriterTyped, EndsTyped
<1>3. PipeInv' /\ OffInv' /\ RecordsInv' /\ AppendInv' /\ OrderlyInv'
  BY <1>0, <1>1 DEF LogInv, StreamInv, PipeInv, OffInv, StreamInit, RecordsInv, AppendInv, OrderlyInv
<1>4. KeptInv'
  BY <1>0, <1>1 DEF LogInv, KeptInv, InUse, PartialsInv, SealedInv, IsSealed, OpenInv, SpelledInv,
                    InFile, Content, Pending
<1>5. FallInv'
  BY <1>0, <1>1 DEF LogInv, FallInv
<1> QED BY <1>2, <1>3, <1>4, <1>5 DEF LogInv, StreamInv

\* The workers are stopped, if they have not been.
LEMMA StopKeepsLog ==
  ASSUME LogInv, host = "up", StopWorkers,
         UNCHANGED <<host, onDisk, said, inputBuffer, writer, broken, heard>>, WatchInv'
  PROVE  LogInv'
<1>1. CASE UNCHANGED <<listening, child, ending, waits>>
  BY <1>1, WatchKeepsLog DEF pipe, ends
<1>2. CASE ending["stop"] = "idle" /\ child # "none" /\ Stopping
  <2>0. /\ ending["stop"] = "idle" /\ child # "none" /\ listening' = FALSE
        /\ child' = IF child = "alive" THEN "killed" ELSE child
        /\ ending' = [ending EXCEPT !["stop"] = "flush"]
        /\ waits' = [waits EXCEPT !["stop"] = Len(processing)]
        /\ ending'["stop"] = "flush" /\ ending'["close"] = ending["close"]
        /\ waits'["stop"] = Len(processing) /\ waits'["close"] = waits["close"]
        /\ UNCHANGED <<host, folder, segments, said, inputBuffer, processing, appending, segment,
                       nextIndex, sealing, broken, closed, sunk>>
    BY <1>2 DEF LogInv, StreamInv, LogTyped, EndsTyped, onDisk, writer, heard, Ender, Stopping,
                KillLogcat
  <2>1. /\ EndedWhole' => EndedWhole
        /\ child' # "none" /\ child' # "alive" /\ (child # "alive" => EndedWhole' = EndedWhole)
    BY <2>0 DEF EndedWhole
  <2>2. FilesTyped' /\ WriterTyped'
    BY <2>0 DEF LogInv, StreamInv, LogTyped, FilesTyped, WriterTyped
  <2>3. PipeTyped'
    BY <2>0 DEF LogInv, StreamInv, LogTyped, PipeTyped
  <2>4. EndsTyped'
    <3>1. Len(processing) \in Nat
      BY LenProperties DEF LogInv, StreamInv, LogTyped, PipeTyped
    <3> QED BY <2>0, <3>1 DEF LogInv, StreamInv, LogTyped, EndsTyped, Ender
  <2>5. PipeInv'
    <3>1. EndedWhole' => inputBuffer = <<>>
      <4> SUFFICES ASSUME EndedWhole' PROVE inputBuffer = <<>>
        OBVIOUS
      <4>1. said % 2 = 0
        BY <2>0, <2>1 DEF EndedWhole
      <4> QED BY <4>1, <2>1 DEF LogInv, StreamInv, PipeInv
    <3>2. child' = "closed" <=> child = "closed"
      BY <2>0
    <3>3. child' \in {"killed", "closed"}
      BY <2>0, <2>1 DEF LogInv, StreamInv, LogTyped, PipeTyped
    <3>4. folder
      BY <2>0 DEF LogInv, StreamInv, PipeInv, LogTyped, FilesTyped
    <3> QED BY <2>0, <2>1, <3>1, <3>2, <3>3, <3>4 DEF LogInv, StreamInv, PipeInv
  <2>6. OffInv'
    BY <2>0, <2>1 DEF OffInv
  <2>7. RecordsInv'
    BY <2>0, <2>1 DEF LogInv, StreamInv, RecordsInv
  <2>8. AppendInv'
    BY <2>0 DEF LogInv, StreamInv, AppendInv
  <2>9. OrderlyInv'
    <3> SUFFICES ASSUME EndedWhole' PROVE OrderlyInv'
      BY DEF OrderlyInv
    <3>1. EndedWhole /\ BlankSaid' = BlankSaid
      BY <2>0, <2>1 DEF BlankSaid
    <3> QED BY <2>0, <3>1 DEF LogInv, StreamInv, OrderlyInv, Ender
  <2>10. KeptInv'
    <3> SUFFICES ASSUME InUse' PROVE KeptInv'
      BY DEF KeptInv
    <3>1. InUse
      BY <2>0, <2>1 DEF InUse
    <3> QED BY <2>0, <3>1 DEF LogInv, KeptInv, PartialsInv, SealedInv, IsSealed, OpenInv,
                SpelledInv, InFile, Content, Pending
  <2>11. FallInv'
    BY <2>0 DEF FallInv
  <2> QED BY <2>2, <2>3, <2>4, <2>5, <2>6, <2>7, <2>8, <2>9, <2>10, <2>11
          DEF LogInv, StreamInv, LogTyped
<1> QED BY <1>1, <1>2 DEF StopWorkers

LEMMA WatchingKeepsLog ==
  ASSUME LogInv,
         \/ StopStream \/ OperatorPauses \/ MonitorDrops \/ MonitorRecords \/ MonitorPauses
         \/ LogcatTick \/ MonitorCollides \/ HostCrashes
  PROVE  LogInv'
<1>0. /\ WatchInv /\ clock \in Nat /\ streams \in Nat /\ clock <= MaxTicks + streams
      /\ MaxTicks \in Nat /\ chain \in Seq(0..clock) /\ incidents \subseteq 0..clock
      /\ host # "up" => chain = <<>> /\ pausing = {}
  BY LogcatAssumption DEF LogInv, StreamInv, WatchInv, OffInv
<1>1. chain # <<>> => Head(chain) \in 0..clock /\ Tail(chain) \in Seq(0..clock)
  BY <1>0, HeadTailProperties
<1>2. CASE StopStream
  <2>1. WatchInv'
    BY <1>2, <1>0 DEF StopStream, WatchInv
  <2> QED BY <1>2, <2>1, StopKeepsLog DEF StopStream
<1>3. CASE OperatorPauses
  <2>1. WatchInv' /\ "operator" \in pausing
    BY <1>3, <1>0 DEF OperatorPauses, WatchInv
  <2>2. host = "up"
    BY <2>1, <1>0
  <2> QED BY <1>3, <2>1, <2>2, WatchKeepsLog DEF OperatorPauses
<1>4. CASE MonitorDrops
  <2>1. WatchInv'
    BY <1>4, <1>0, <1>1 DEF MonitorDrops, WatchInv
  <2>2. host = "up"
    BY <1>4, <1>0 DEF MonitorDrops
  <2> QED BY <1>4, <2>1, <2>2, WatchKeepsLog DEF MonitorDrops
<1>5. CASE MonitorRecords
  <2>1. WatchInv'
    BY <1>5, <1>0, <1>1 DEF MonitorRecords, WatchInv
  <2>2. host = "up"
    BY <1>5, <1>0 DEF MonitorRecords
  <2> QED BY <1>5, <2>1, <2>2, StopKeepsLog DEF MonitorRecords
<1>6. CASE MonitorPauses
  <2>1. pausing' = pausing \ {"monitor"} /\ (chain' = <<>> \/ chain' = Tail(chain))
        /\ "monitor" \in pausing /\ runs' \in {runs, FALSE}
        /\ UNCHANGED <<incidents, clock, streams>>
    BY <1>6 DEF MonitorPauses
  <2>2. host = "up"
    BY <2>1, <1>0
  <2>3. chain' \in Seq(0..clock)
    <3>1. <<>> \in Seq(0..clock)
      OBVIOUS
    <3>2. chain = <<>> => Tail(chain) = <<>>
      OBVIOUS
    <3> QED BY <2>1, <1>1, <3>1, <3>2
  <2>4. WatchInv'
    BY <2>1, <2>3, <1>0 DEF WatchInv
  <2> QED BY <1>6, <2>2, <2>4, WatchKeepsLog DEF MonitorPauses
<1>7. CASE LogcatTick
  <2>1. clock' = clock + 1 /\ clock < MaxTicks /\ UNCHANGED watch
    BY <1>7 DEF LogcatTick
  <2>2. 0..clock \subseteq 0..(clock + 1) /\ clock + 1 \in Nat /\ clock + 1 <= MaxTicks + streams
    BY <1>0, <2>1
  <2>3. chain \in Seq(0..(clock + 1))
    BY <1>0, <2>2, SeqMonotonic
  <2>4. WatchInv'
    BY <1>0, <1>7, <2>1, <2>2, <2>3 DEF WatchInv, watch, LogcatTick
  <2> QED BY <1>7, <1>0, <2>4, WatchKeepsLog DEF LogcatTick, watch
<1>8. CASE MonitorCollides
  BY <1>8, DownKeepsLog DEF MonitorCollides, Fall
<1>9. CASE HostCrashes
  BY <1>9, DownKeepsLog DEF HostCrashes
<1> QED BY <1>2, <1>3, <1>4, <1>5, <1>6, <1>7, <1>8, <1>9

LEMMA AppendToOne ==
  ASSUME NEW a, NEW b
  PROVE  Append(<<a>>, b) = <<a, b>>
<1> DEFINE S == {a, b}
           s == Append(<<a>>, b)
           t == <<a, b>>
<1>1. <<a>> \in Seq(S) /\ b \in S /\ Len(<<a>>) = 1 /\ <<a>>[1] = a
  OBVIOUS
<1>2. t \in Seq(S) /\ Len(t) = 2 /\ t[1] = a /\ t[2] = b
  OBVIOUS
<1>3. s \in Seq(S) /\ Len(s) = 2 /\ s[1] = a /\ s[2] = b
  <2>1. 1 \in 1..Len(<<a>>) /\ Len(<<a>>) + 1 = 2
    BY <1>1
  <2> HIDE DEF S
  <2> QED BY <1>1, <2>1, AppendProperties
<1> HIDE DEF s, t, S
<1>4. \A i \in 1..2 : i = 1 \/ i = 2
  OBVIOUS
<1>5. s = t
  BY <1>2, <1>3, <1>4, SeqEqual
<1> QED BY <1>5 DEF s, t

\* What the queue holds after a record was queued, or was not.
LEMMA OneQueued ==
  ASSUME NEW s \in Seq(Queued), NEW q \in Queued, NEW t, t = s \/ t = Append(s, q)
  PROVE  /\ t \in Seq(Queued) /\ Len(t) \in Nat
         /\ s # <<>> => t # <<>>
         /\ \A i \in 1..Len(t) : \/ i \in 1..Len(s) /\ t[i] = s[i]
                                 \/ t = Append(s, q) /\ t[i] = q
<1>0. Len(s) \in Nat
  BY LenProperties
<1>1. CASE t = s
  BY <1>0, <1>1
<1>2. CASE t = Append(s, q)
  <2> DEFINE n == Len(s)
  <2>1. /\ t \in Seq(Queued) /\ t # <<>> /\ Len(t) = n + 1 /\ n \in Nat
        /\ \A i \in 1..n : t[i] = s[i]
        /\ t[n + 1] = q
    BY <1>0, <1>2, AppendProperties
  <2> HIDE DEF n
  <2>2. \A i \in 1..Len(t) : i \in 1..n \/ i = n + 1
    BY <2>1
  <2>3. \A i \in 1..Len(t) : \/ i \in 1..n /\ t[i] = s[i]
                             \/ t[i] = q
    BY <2>1, <2>2
  <2>4. Len(t) \in Nat
    BY <2>1
  <2> QED BY <1>2, <2>1, <2>3, <2>4 DEF n
<1> QED BY <1>1, <1>2

\* A chunk of output: the second half of a line queues the line.
LEMMA ChunkKeepsLog ==
  ASSUME LogInv, HandleChunk
  PROVE  LogInv'
<1>0. /\ child = "alive" /\ listening /\ said < 2 * LineCount /\ said' = said + 1
      /\ UNCHANGED <<host, folder, segments, child, listening, appending, segment, nextIndex,
                     sealing, ending, waits, broken, closed, sunk, chain, pausing, incidents,
                     runs, clock, streams>>
  BY DEF HandleChunk, onDisk, ends, heard, watch
<1>1. /\ said \in Nat /\ said % 2 \in {0, 1} /\ (said + 1) % 2 \in {0, 1}
      /\ (said % 2 = 1 <=> (said + 1) % 2 = 0) /\ LineCount \in Nat
      /\ inputBuffer = IF said % 2 = 1 THEN <<said>> ELSE <<>>
      /\ ending["stop"] = "idle" /\ ending["close"] = "idle"
      /\ processing \in Seq(Queued)
  <2>1. said \in Nat
    BY SaidIsNatural DEF LogInv, StreamInv, LogTyped
  <2> QED BY <1>0, <2>1, OddOrEven, LogcatAssumption
          DEF LogInv, StreamInv, LogTyped, PipeTyped, PipeInv
<1>2. EndedWhole /\ EndedWhole'
  BY <1>0 DEF EndedWhole
<1>3. \/ /\ said % 2 = 0 /\ inputBuffer' = <<said + 1>> /\ processing' = processing
      \/ /\ said % 2 = 1 /\ inputBuffer' = <<>>
         /\ processing' = Append(processing, [text |-> <<said, said + 1>>, late |-> FALSE])
  <2>1. CASE said % 2 = 0
    <3>1. (said + 1) % 2 = 1 /\ inputBuffer = <<>>
      BY <1>1, <2>1
    <3>2. Append(<<>>, said + 1) = <<said + 1>>
      OBVIOUS
    <3> QED BY <2>1, <3>1, <3>2 DEF HandleChunk
  <2>2. CASE said % 2 = 1
    <3>1. (said + 1) % 2 # 1 /\ inputBuffer = <<said>>
      BY <1>1, <2>2
    <3>2. Append(<<said>>, said + 1) = <<said, said + 1>>
      BY AppendToOne
    <3> QED BY <2>2, <3>1, <3>2 DEF HandleChunk
  <2> QED BY <1>1, <2>1, <2>2
<1> DEFINE q == [text |-> <<said, said + 1>>, late |-> FALSE]
<1>4. q \in Queued /\ q.text = <<said, said + 1>> /\ q.late = FALSE
  BY <1>1 DEF Queued, LineText
<1>5. \/ processing' = processing /\ said % 2 = 0
      \/ processing' = Append(processing, q) /\ said % 2 = 1
  BY <1>3
<1> HIDE DEF q
<1>6. /\ processing' \in Seq(Queued)
      /\ processing # <<>> => processing' # <<>>
      /\ \A i \in 1..Len(processing') :
           \/ i \in 1..Len(processing) /\ processing'[i] = processing[i]
           \/ processing' = Append(processing, q) /\ processing'[i] = q
  BY <1>1, <1>4, <1>5, OneQueued
<1>7. PipeTyped'
  <2>1. <<said + 1>> \in LineText /\ <<>> \in LineText
    BY <1>1 DEF LineText
  <2>2. said + 1 \in 0..2 * LineCount
    BY <1>0, <1>1
  <2> QED BY <1>0, <1>3, <1>6, <2>1, <2>2 DEF LogInv, StreamInv, LogTyped, PipeTyped
<1>8. FilesTyped' /\ WriterTyped' /\ EndsTyped' /\ WatchInv'
  BY <1>0 DEF LogInv, StreamInv, LogTyped, FilesTyped, WriterTyped, EndsTyped, WatchInv
<1>9. PipeInv'
  <2>1. inputBuffer' = IF said' % 2 = 1 THEN <<said'>> ELSE <<>>
    BY <1>0, <1>1, <1>3
  <2> QED BY <1>0, <2>1 DEF LogInv, StreamInv, PipeInv
<1>10. OffInv'
  BY <1>0 DEF LogInv, StreamInv, OffInv
<1>11. RecordsInv'
  <2> SUFFICES ASSUME NEW i \in 1..Len(processing')
               PROVE  /\ processing'[i].late = FALSE
                      /\ \E k \in 1..LineCount : /\ WholeLine(processing'[i].text, k)
                                                 /\ 2 * k <= said + 1
    BY <1>0 DEF RecordsInv, WholeLine
  <2>1. CASE i \in 1..Len(processing) /\ processing'[i] = processing[i]
    <3>1. ~processing[i].late
      BY <1>2, <2>1 DEF LogInv, StreamInv, RecordsInv
    <3>2. PICK k \in 1..LineCount : WholeLine(processing[i].text, k) /\ 2 * k <= said
      BY <2>1, <3>1 DEF LogInv, StreamInv, RecordsInv
    <3>3. processing[i].late \in BOOLEAN
      <4>1. processing[i] \in Queued
        BY <1>1, <2>1, ElementOfSeq
      <4> QED BY <4>1 DEF Queued
    <3>4. 2 * k <= said + 1
      BY <1>1, <3>2
    <3> QED BY <2>1, <3>1, <3>2, <3>3, <3>4
  <2>2. CASE said % 2 = 1 /\ processing'[i] = q
    <3>1. PICK k \in Nat : said + 1 = 2 * k
      BY <1>1, <2>2
    <3>2. k \in 1..LineCount /\ said = 2 * k - 1
      BY <1>0, <1>1, <3>1
    <3> QED BY <1>1, <1>4, <2>2, <3>1, <3>2 DEF WholeLine
  <2>3. CASE processing' = Append(processing, q) /\ processing'[i] = q /\ said % 2 = 0
    <3>1. processing' = processing
      BY <1>3, <2>3
    <3>2. Len(Append(processing, q)) = Len(processing) + 1 /\ Len(processing) \in Nat
      BY <1>1, <1>4, AppendProperties, LenProperties
    <3> QED BY <2>3, <3>1, <3>2
  <2> QED BY <1>1, <1>6, <2>1, <2>2, <2>3
<1>12. AppendInv'
  BY <1>0, <1>6 DEF LogInv, StreamInv, AppendInv
<1>13. OrderlyInv'
  <2>1. BlankSaid => BlankSaid'
    <3>1. \A k \in BlankLine : k \in Nat /\ (2 * k <= said => 2 * k <= said + 1)
      BY <1>1, LogcatAssumption
    <3> QED BY <1>0, <3>1 DEF BlankSaid
  <2> QED BY <1>0, <1>1, <1>2, <2>1 DEF LogInv, StreamInv, OrderlyInv, Ender
<1>14. KeptInv'
  BY <1>0, <1>2 DEF LogInv, KeptInv, InUse, PartialsInv, SealedInv, IsSealed, OpenInv, SpelledInv,
                    InFile, Content, Pending
<1>15. FallInv'
  BY <1>0 DEF LogInv, StreamInv, OffInv, FallInv
<1> QED BY <1>7, <1>8, <1>9, <1>10, <1>11, <1>12, <1>13, <1>14, <1>15 DEF LogInv, StreamInv, LogTyped

\* The end of adb queues what is left only when the output ended within a line.
LEMMA CloseKeepsLog ==
  ASSUME LogInv, HandleProcessClose
  PROVE  LogInv'
<1>0. /\ child \in {"alive", "killed"} /\ child' = "closed" /\ inputBuffer' = <<>>
      /\ ending' = [ending EXCEPT !["close"] = "flush"]
      /\ waits' = [waits EXCEPT !["close"] = Len(processing')]
      /\ ending'["stop"] = ending["stop"] /\ ending'["close"] = "flush"
      /\ waits'["stop"] = waits["stop"] /\ waits'["close"] = Len(processing')
      /\ UNCHANGED <<host, folder, segments, listening, said, appending, segment, nextIndex,
                     sealing, broken, closed, sunk, chain, pausing, incidents, runs, clock, streams>>
  BY DEF LogInv, StreamInv, LogTyped, EndsTyped, HandleProcessClose, onDisk, heard, watch, Ender
<1>1. /\ said \in Nat /\ said % 2 \in {0, 1} /\ processing \in Seq(Queued)
      /\ ending["close"] = "idle" /\ host = "up" /\ folder \in BOOLEAN
  BY <1>0, SaidIsNatural DEF LogInv, StreamInv, LogTyped, FilesTyped, PipeTyped, PipeInv, OffInv
<1>2. /\ EndedWhole' => EndedWhole /\ inputBuffer = <<>> /\ said % 2 = 0
      /\ inputBuffer # <<>> => said % 2 = 1 /\ ~EndedWhole'
  <2>1. EndedWhole' <=> said % 2 = 0
    BY <1>0 DEF EndedWhole
  <2>2. said % 2 = 0 => EndedWhole /\ inputBuffer = <<>>
    BY <1>0, <1>1 DEF EndedWhole, LogInv, StreamInv, PipeInv
  <2> QED BY <1>1, <2>1, <2>2
<1> DEFINE q == [text |-> <<>>, late |-> TRUE]
<1>3. q \in Queued /\ q.late = TRUE
  <2>1. <<>> \in LineText
    BY DEF LineText
  <2> QED BY <2>1 DEF Queued
<1>4. \/ inputBuffer = <<>> /\ processing' = processing
      \/ inputBuffer # <<>> /\ processing' = Append(processing, q)
  BY DEF HandleProcessClose
<1> HIDE DEF q
<1>5. /\ processing' \in Seq(Queued) /\ Len(processing') \in Nat
      /\ processing # <<>> => processing' # <<>>
      /\ \A i \in 1..Len(processing') :
           \/ i \in 1..Len(processing) /\ processing'[i] = processing[i]
           \/ processing' = Append(processing, q) /\ processing'[i] = q
  BY <1>1, <1>3, <1>4, OneQueued
<1>6. PipeTyped'
  <2>1. <<>> \in LineText
    BY DEF LineText
  <2> QED BY <1>0, <1>5, <2>1 DEF LogInv, StreamInv, LogTyped, PipeTyped
<1>7. FilesTyped' /\ WriterTyped' /\ EndsTyped' /\ WatchInv'
  BY <1>0, <1>5 DEF LogInv, StreamInv, LogTyped, FilesTyped, WriterTyped, EndsTyped, WatchInv, Ender
<1>8. PipeInv'
  <2>1. ~folder => ending["stop"] \in {"done", "failed"}
    BY <1>0 DEF LogInv, StreamInv, PipeInv
  <2> QED BY <1>0, <1>1, <2>1 DEF PipeInv
<1>9. OffInv'
  BY <1>0, <1>1 DEF OffInv
<1>10. RecordsInv'
  <2> SUFFICES ASSUME NEW i \in 1..Len(processing')
               PROVE  IF processing'[i].late THEN ~EndedWhole'
                      ELSE \E k \in 1..LineCount : /\ WholeLine(processing'[i].text, k)
                                                   /\ 2 * k <= said
    BY <1>0 DEF RecordsInv, WholeLine
  <2>1. CASE i \in 1..Len(processing) /\ processing'[i] = processing[i]
    BY <1>2, <2>1 DEF LogInv, StreamInv, RecordsInv
  <2>2. CASE inputBuffer # <<>> /\ processing'[i] = q
    BY <1>2, <1>3, <2>2
  <2>3. CASE processing' = Append(processing, q) /\ inputBuffer = <<>>
    <3>1. Len(Append(processing, q)) = Len(processing) + 1 /\ Len(processing) \in Nat
      BY <1>1, <1>3, AppendProperties, LenProperties
    <3> QED BY <1>4, <2>3, <3>1
  <2> QED BY <1>5, <2>1, <2>2, <2>3
<1>11. AppendInv'
  BY <1>0, <1>5 DEF LogInv, StreamInv, AppendInv
<1>12. OrderlyInv'
  <2> SUFFICES ASSUME EndedWhole' PROVE OrderlyInv'
    BY DEF OrderlyInv
  <2>1. EndedWhole /\ processing' = processing /\ BlankSaid' = BlankSaid
    BY <1>0, <1>2, <1>4 DEF BlankSaid
  <2> QED BY <1>0, <1>1, <2>1 DEF LogInv, StreamInv, OrderlyInv, Ender
<1>13. KeptInv'
  <2> SUFFICES ASSUME InUse' PROVE KeptInv'
    BY DEF KeptInv
  <2>1. InUse
    BY <1>0, <1>2 DEF InUse
  <2> QED BY <1>0, <2>1 DEF LogInv, KeptInv, PartialsInv, SealedInv, IsSealed, OpenInv,
              SpelledInv, InFile, Content, Pending
<1>14. FallInv'
  BY <1>0, <1>1 DEF FallInv
<1> QED BY <1>6, <1>7, <1>8, <1>9, <1>10, <1>11, <1>12, <1>13, <1>14 DEF LogInv, StreamInv, LogTyped

\* A record at work: whose memory it is, and that nobody is waiting for it.
LEMMA AtWork ==
  ASSUME LogInv, processing # <<>>
  PROVE  /\ child # "none" /\ host = "up"
         /\ processing \in Seq(Queued) /\ Len(processing) \in Nat \ {0}
         /\ Head(processing) \in Queued /\ Head(processing) = processing[1] /\ HeadText \in LineText
         /\ EndedWhole =>
              /\ folder /\ ~broken
              /\ \A h \in Ender : ending[h] \in {"idle", "flush"}
              /\ appending = "idle" => sealing.at = "no"
              /\ appending # "seal" => sealing.at = "no"
<1>1. child # "none" /\ host = "up"
  BY DEF LogInv, StreamInv, OffInv, StreamInit
<1>2. processing \in Seq(Queued) /\ inputBuffer \in LineText
  BY DEF LogInv, StreamInv, LogTyped, PipeTyped
<1>3. Len(processing) \in Nat \ {0} /\ Head(processing) \in Queued /\ Head(processing) = processing[1]
  BY <1>2, EmptySeq, HeadTailProperties
<1>4. HeadText \in LineText
  BY <1>2, <1>3 DEF HeadText, Queued
<1>5. ASSUME EndedWhole
      PROVE  /\ folder /\ ~broken
             /\ \A h \in Ender : ending[h] \in {"idle", "flush"}
             /\ appending # "seal" => sealing.at = "no"
  <2>1. \A h \in Ender : ending[h] \in {"idle", "flush"}
    BY <1>5 DEF LogInv, StreamInv, LogTyped, EndsTyped, OrderlyInv
  <2>2. ending["stop"] \in {"idle", "flush"} /\ ending["close"] \in {"idle", "flush"}
    BY <2>1 DEF Ender
  <2>3. folder /\ ~broken
    BY <1>1, <1>5, <2>2 DEF LogInv, StreamInv, LogTyped, FilesTyped, PipeInv, OrderlyInv
  <2>4. appending # "seal" => sealing.at = "no"
    BY <1>5, <2>2 DEF LogInv, StreamInv, OrderlyInv
  <2> QED BY <2>1, <2>3, <2>4
<1> QED BY <1>1, <1>2, <1>3, <1>4, <1>5

LEMMA RefusalsKeepLog ==
  ASSUME LogInv, AppendRefused \/ AppendFails \/ AppendMissesItsSegment
  PROVE  LogInv'
<1>0. Reject /\ UNCHANGED <<onDisk, incidents, runs, clock, streams>>
  BY DEF AppendRefused, AppendFails, AppendMissesItsSegment
<1>1. processing # <<>>
  BY DEF LogInv, StreamInv, AppendInv, AppendRefused, AppendFails, AppendMissesItsSegment
<1>2. CASE AppendRefused
  <2>1. appending = "idle" /\ IsBlank(HeadText)
    BY <1>2 DEF AppendRefused
  <2>2. ASSUME EndedWhole PROVE BlankSaid
    <3>1. 1 \in 1..Len(processing) /\ Head(processing) = processing[1]
      BY <1>1, AtWork
    <3>2. PICK k \in 1..LineCount : WholeLine(processing[1].text, k) /\ 2 * k <= said
          /\ ~processing[1].late
      BY <2>2, <3>1 DEF LogInv, StreamInv, RecordsInv
    <3>3. HeadText = processing[1].text
      BY <3>1, <3>2 DEF HeadText
    <3>4. PICK b \in BlankLine : WholeLine(HeadText, b)
      BY <2>1 DEF IsBlank
    <3>5. 2 * b = 2 * k
      BY <3>2, <3>3, <3>4 DEF WholeLine
    <3> QED BY <3>2, <3>4, <3>5 DEF BlankSaid
  <2> QED BY <1>0, <1>1, <2>1, <2>2, RejectKeepsLog
<1>3. CASE AppendFails
  <2>1. ~EndedWhole
    BY <1>1, <1>3, AtWork DEF AppendFails
  <2> QED BY <1>0, <2>1, RejectKeepsLog
<1>4. CASE AppendMissesItsSegment
  <2>1. ~EndedWhole
    BY <1>4 DEF LogInv, StreamInv, OrderlyInv, AppendMissesItsSegment
  <2> QED BY <1>0, <2>1, RejectKeepsLog
<1> QED BY <1>2, <1>3, <1>4

\* What is in no partial file is in none.
LEMMA NoPartial ==
  ASSUME PartialsInv, NEW i, segment = NoSegment \/ i # segment.index \/ sealing.at = "tell"
  PROVE  Partial(i) \notin DOMAIN segments /\ Content(Partial(i)) = <<>>
BY DEF PartialsInv, Content, Partial

\* A record is taken up: with no segment open, with one, or after one is full.
LEMMA AppendBeginsKeepsLog ==
  ASSUME LogInv, NEW expired \in BOOLEAN, AppendBegins(expired)
  PROVE  LogInv'
<1> DEFINE text == HeadText
           new  == [index |-> nextIndex, records |-> 0]
<1>0. /\ appending = "idle" /\ processing # <<>> /\ sunk' = Append(sunk, text)
      /\ chain' = chain \/ chain' = Append(chain, clock)
      /\ UNCHANGED <<host, folder, segments, child, listening, said, inputBuffer, processing,
                     ending, waits, broken, closed, pausing, incidents, runs, clock, streams>>
  BY DEF AppendBegins, onDisk, pipe, ends
<1>1. \/ /\ segment = NoSegment /\ segment' = new /\ nextIndex' = nextIndex + 1
         /\ appending' = "write" /\ sealing' = sealing
      \/ /\ segment # NoSegment /\ ~Full(expired) /\ appending' = "write"
         /\ segment' = segment /\ nextIndex' = nextIndex /\ sealing' = sealing
      \/ /\ segment # NoSegment /\ Full(expired) /\ appending' = "seal"
         /\ segment' = segment /\ nextIndex' = nextIndex
         /\ sealing' = IF sealing.at = "no" THEN [sealing EXCEPT !.at = "read"] ELSE sealing
  BY DEF AppendBegins, SealNow
<1>2. /\ text \in LineText /\ child # "none" /\ host = "up" /\ sunk \in Seq(LineText)
      /\ nextIndex \in Nat \ {0} /\ segment \in [index : Nat, records : 0..SegmentLimit]
      /\ sealing \in [at : {"no", "read", "rename", "tell"}, bytes : Seq(LineText)]
      /\ EndedWhole => sealing.at = "no" /\ folder /\ ~broken
                       /\ \A h \in Ender : ending[h] \in {"idle", "flush"}
  BY <1>0, AtWork DEF LogInv, StreamInv, LogTyped, WriterTyped
<1> HIDE DEF text
<1>3. /\ sunk' \in Seq(LineText) /\ sunk' # <<>> /\ sunk'[Len(sunk')] = text /\ sunk' = sunk \o <<text>>
  BY <1>0, <1>2, AppendProperties, AppendIsConcat
<1>4. /\ new \in [index : Nat, records : 0..SegmentLimit] /\ new # NoSegment
      /\ new.index = nextIndex /\ new.records = 0
  BY <1>2, LogcatAssumption DEF NoSegment
<1>5. /\ EndedWhole' = EndedWhole /\ BlankSaid' = BlankSaid
  BY <1>0 DEF EndedWhole, BlankSaid
<1>6. WriterTyped'
  <2>1. segment' \in [index : Nat, records : 0..SegmentLimit] /\ nextIndex' \in Nat \ {0}
        /\ appending' \in {"write", "seal"}
    BY <1>1, <1>2, <1>4
  <2>2. sealing' \in [at : {"no", "read", "rename", "tell"}, bytes : Seq(LineText)]
    BY <1>1, <1>2
  <2> HIDE DEF new
  <2> QED BY <1>0, <1>3, <2>1, <2>2 DEF LogInv, StreamInv, LogTyped, WriterTyped
<1>7. FilesTyped' /\ PipeTyped' /\ EndsTyped'
  BY <1>0 DEF LogInv, StreamInv, LogTyped, FilesTyped, PipeTyped, EndsTyped
<1>8. WatchInv'
  <2>1. chain' \in Seq(0..clock)
    <3>1. chain \in Seq(0..clock) /\ clock \in 0..clock
      BY DEF LogInv, StreamInv, WatchInv
    <3>2. Append(chain, clock) \in Seq(0..clock)
      BY <3>1, AppendProperties
    <3> QED BY <1>0, <3>1, <3>2
  <2> QED BY <1>0, <2>1 DEF LogInv, StreamInv, WatchInv
<1>9. PipeInv' /\ RecordsInv'
  BY <1>0, <1>5 DEF LogInv, StreamInv, PipeInv, RecordsInv
<1>10. OffInv'
  BY <1>0, <1>2 DEF OffInv
<1>11. AppendInv'
  <2>1. appending' = "write" => segment'.records < SegmentLimit
    <3>1. 0 < SegmentLimit /\ SegmentLimit \in Nat /\ segment.records \in Nat
      BY <1>2, LogcatAssumption
    <3> QED BY <1>1, <1>4, <3>1 DEF Full
  <2> QED BY <1>0, <1>1, <1>3, <2>1 DEF AppendInv
<1>12. OrderlyInv'
  <2> SUFFICES ASSUME EndedWhole PROVE OrderlyInv'
    BY <1>5 DEF OrderlyInv
  <2>1. segment' # NoSegment /\ segment'.index + 1 = nextIndex'
    BY <1>1, <1>2, <1>4 DEF LogInv, StreamInv, OrderlyInv
  <2>2. sealing'.at # "no" => appending' = "seal" /\ segment'.records > 0
    BY <1>1, <1>2 DEF Full
  <2>3. appending' = "seal" => sealing'.at # "no"
    BY <1>1, <1>2
  <2>4. \A h \in Ender : ending[h] = "flush" => waits[h] = Len(processing)
    BY DEF LogInv, StreamInv, OrderlyInv
  <2>5. /\ ending["stop"] \in {"idle", "flush"} /\ ending["close"] \in {"idle", "flush"}
    BY <1>2 DEF Ender
  <2>6. appending' # "idle"
    BY <1>1
  <2> HIDE DEF new
  <2> QED BY <1>0, <1>2, <2>1, <2>2, <2>3, <2>4, <2>5, <2>6 DEF OrderlyInv
<1>13. KeptInv'
  <2> SUFFICES ASSUME InUse PROVE PartialsInv' /\ SealedInv' /\ OpenInv' /\ SpelledInv'
    BY <1>0, <1>5 DEF KeptInv, InUse
  <2>1. PartialsInv /\ SealedInv /\ OpenInv /\ SpelledInv /\ sealing.at = "no" /\ EndedWhole
    BY <1>2 DEF LogInv, KeptInv, InUse
  <2>2. sealing'.at \in {"no", "read"}
    BY <1>1, <1>2, <2>1
  <2>3. segment' # NoSegment /\ Content(Partial(segment'.index)) = Content(Partial(segment.index))
    <3>1. CASE segment = NoSegment
      <4>1. \A i : Content(Partial(i)) = <<>>
        BY <2>1, <3>1, NoPartial
      <4> QED BY <1>1, <1>4, <3>1, <4>1
    <3> QED BY <1>1, <3>1
  <2>4. InFile' = InFile
    <3>1. InFile = Content(Partial(segment.index))
      BY <2>1 DEF InFile
    <3>2. InFile' = Content(Partial(segment'.index))
      BY <1>0, <2>2 DEF InFile, Content
    <3> QED BY <2>3, <3>1, <3>2
  <2>5. Pending' = <<text>> /\ Pending = <<>>
    BY <1>0, <1>1, <1>3 DEF Pending
  <2>6. PartialsInv'
    <3>1. CASE segment = NoSegment
      BY <1>0, <2>1, <3>1 DEF PartialsInv
    <3>2. CASE segment # NoSegment
      BY <1>0, <1>1, <2>1, <2>2, <3>2 DEF PartialsInv
    <3> QED BY <3>1, <3>2
  <2>7. SealedInv'
    <3> SUFFICES ASSUME NEW k \in 1..Len(closed), IsSealed(closed[k])
                 PROVE  IsSealed(closed[k])'
      BY <1>0, <2>1 DEF SealedInv
    <3>1. closed[k].file.index \in Nat
      <4>1. closed \in Seq(Announced)
        BY DEF LogInv, StreamInv, LogTyped, WriterTyped
      <4>2. closed[k] \in Announced
        BY <4>1, ElementOfSeq
      <4> QED BY <4>2 DEF Announced, FileName
    <3>2. closed[k].file.index < nextIndex =>
            /\ closed[k].file.index < nextIndex'
            /\ segment = NoSegment => closed[k].file.index < segment'.index
      BY <1>1, <1>2, <1>4, <3>1
    <3>3. segment # NoSegment => segment' = segment
      BY <1>1
    <3> HIDE DEF new
    <3> QED BY <1>0, <3>2, <3>3 DEF IsSealed
  <2>8. OpenInv'
    <3>2. Len(InFile) = segment'.records
      <4>1. CASE segment = NoSegment
        <5>1. InFile = <<>> /\ segment'.records = 0
          BY <1>1, <1>4, <2>1, <4>1, NoPartial DEF InFile
        <5> QED BY <5>1
      <4>2. CASE segment # NoSegment
        BY <1>0, <1>1, <1>2, <2>1, <4>2 DEF OpenInv
      <4> QED BY <4>1, <4>2
    <3>3. segment'.records \in Nat
      BY <1>6 DEF WriterTyped
    <3>4. appending' # "count"
      BY <1>1
    <3> HIDE DEF new
    <3> QED BY <2>2, <2>4, <3>2, <3>3, <3>4 DEF OpenInv
  <2>9. SpelledInv'
    <3>1. PICK f : Joins(f, closed) /\ sunk = f[Len(closed)] \o InFile \o <<>>
      BY <2>1, <2>5 DEF SpelledInv
    <3>2. f[Len(closed)] \in Seq(LineText) /\ InFile \in Seq(LineText)
      <4>1. Len(closed) \in Nat
        BY LenProperties DEF LogInv, StreamInv, LogTyped, WriterTyped
      <4>2. InFile \in Seq(LineText)
        <5>1. <<>> \in Seq(LineText)
          OBVIOUS
        <5> QED BY <1>2, <5>1, <2>1 DEF InFile, Content, LogInv, StreamInv, LogTyped, FilesTyped
      <4> QED BY <3>1, <4>1, <4>2 DEF Joins
    <3> DEFINE a == f[Len(closed)] \o InFile
    <3>3. a \in Seq(LineText)
      BY <3>2, ConcatProperties
    <3>4. sunk = a
      <4> HIDE DEF a
      <4>1. a \o <<>> = a
        BY <3>3, ConcatEmptySeq
      <4> QED BY <3>1, <4>1 DEF a
    <3>5. sunk' = f[Len(closed')] \o InFile' \o Pending'
      BY <1>0, <1>3, <2>4, <2>5, <3>4
    <3>6. Joins(f, closed')
      BY <1>0, <3>1
    <3> QED BY <3>5, <3>6 DEF SpelledInv
  <2> QED BY <2>6, <2>7, <2>8, <2>9
<1>14. FallInv'
  BY <1>0, <1>2 DEF FallInv
<1> QED BY <1>6, <1>7, <1>8, <1>9, <1>10, <1>11, <1>12, <1>13, <1>14 DEF LogInv, StreamInv, LogTyped

\* Files after one of them was written.
LEMMA WithTyped ==
  ASSUME FilesTyped, NEW p \in FileName, NEW content \in Seq(LineText), UNCHANGED folder,
         segments' = With(segments, p, content)
  PROVE  /\ FilesTyped' /\ p \in DOMAIN segments' /\ segments'[p] = content
         /\ DOMAIN segments' = DOMAIN segments \cup {p}
         /\ \A q \in DOMAIN segments : q # p => segments'[q] = segments[q]
<1>1. /\ DOMAIN segments' = DOMAIN segments \cup {p}
      /\ \A q \in DOMAIN segments' : segments'[q] = IF q = p THEN content ELSE segments[q]
  BY DEF With
<1>2. IsFiniteSet(DOMAIN segments \cup {p})
  BY FS_AddElement DEF FilesTyped
<1> QED BY <1>1, <1>2 DEF FilesTyped

\* The record under way is written to its segment, or, sealed meanwhile, to none.
LEMMA WritesKeepLog ==
  ASSUME LogInv, AppendWrites \/ AppendWritesAfresh
  PROVE  LogInv'
<1> DEFINE p    == IF segment # NoSegment THEN Partial(segment.index) ELSE Partial(nextIndex - 1)
           last == sunk[Len(sunk)]
           more == Append(Content(p), last)
<1>0. /\ appending = "write" /\ folder /\ segments' = With(segments, p, more)
      /\ appending' = "count"
      /\ UNCHANGED <<host, folder, child, listening, said, inputBuffer, processing, segment,
                     nextIndex, sealing, ending, waits, broken, closed, sunk, chain, pausing,
                     incidents, runs, clock, streams>>
  BY DEF AppendWrites, AppendWritesAfresh, pipe, ends, heard, watch, Seqs!Last
<1>1. /\ processing # <<>> /\ sunk # <<>> /\ sunk \in Seq(LineText) /\ closed \in Seq(Announced)
      /\ nextIndex \in Nat \ {0} /\ segment.index \in Nat /\ segment.records \in Nat
      /\ FilesTyped
  BY <1>0, LogcatAssumption DEF LogInv, StreamInv, AppendInv, LogTyped, WriterTyped
<1>2. p \in FileName /\ p.kind = "partial"
  BY <1>1 DEF FileName, Partial
<1>3. last \in LineText /\ Content(p) \in Seq(LineText)
  <2>1. Len(sunk) \in 1..Len(sunk)
    BY <1>1, EmptySeq
  <2>2. last \in LineText
    BY <1>1, <2>1, ElementOfSeq
  <2>3. <<>> \in Seq(LineText)
    OBVIOUS
  <2> QED BY <2>2, <2>3, <1>1 DEF Content, FilesTyped
<1> HIDE DEF last
<1>4. /\ more \in Seq(LineText) /\ Len(more) = Len(Content(p)) + 1 /\ Len(Content(p)) \in Nat
      /\ more = Content(p) \o <<last>>
  BY <1>3, AppendProperties, AppendIsConcat, LenProperties
<1> HIDE DEF more
<1>5. /\ FilesTyped' /\ p \in DOMAIN segments' /\ segments'[p] = more
      /\ DOMAIN segments' = DOMAIN segments \cup {p}
      /\ \A q \in DOMAIN segments : q # p => segments'[q] = segments[q]
  <2> HIDE DEF p
  <2> QED BY <1>0, <1>1, <1>2, <1>4, WithTyped
<1>6. EndedWhole' = EndedWhole /\ BlankSaid' = BlankSaid /\ InUse' = InUse
  BY <1>0 DEF EndedWhole, BlankSaid, InUse
<1>7. PipeTyped' /\ WriterTyped' /\ EndsTyped' /\ WatchInv' /\ PipeInv' /\ RecordsInv' /\ AppendInv'
  <2>1. PipeTyped' /\ WriterTyped' /\ EndsTyped' /\ WatchInv'
    BY <1>0 DEF LogInv, StreamInv, LogTyped, PipeTyped, WriterTyped, EndsTyped, WatchInv
  <2>2. PipeInv' /\ RecordsInv' /\ AppendInv'
    BY <1>0, <1>6 DEF LogInv, StreamInv, PipeInv, RecordsInv, AppendInv
  <2> QED BY <2>1, <2>2
<1>8. OffInv' /\ FallInv'
  BY <1>0, <1>1, <1>6, AtWork DEF OffInv, FallInv
<1>9. OrderlyInv'
  BY <1>0, <1>6 DEF LogInv, StreamInv, OrderlyInv
<1>10. KeptInv'
  <2> SUFFICES ASSUME InUse PROVE PartialsInv' /\ SealedInv' /\ OpenInv' /\ SpelledInv'
    BY <1>6 DEF KeptInv
  <2>1. /\ PartialsInv /\ SealedInv /\ OpenInv /\ SpelledInv /\ EndedWhole
        /\ segment # NoSegment /\ sealing.at = "no"
    BY <1>0, <1>1, AtWork DEF LogInv, KeptInv, InUse, StreamInv, OrderlyInv
  <2>2. p = Partial(segment.index) /\ InFile = Content(p) /\ InFile' = more
    BY <1>0, <1>5, <2>1 DEF InFile, Content
  <2>3. Pending = <<last>> /\ Pending' = <<>>
    BY <1>0 DEF Pending, last
  <2>4. PartialsInv'
    BY <1>0, <1>5, <2>1, <2>2 DEF PartialsInv
  <2> HIDE DEF p
  <2>5. SealedInv'
    <3> SUFFICES ASSUME NEW k \in 1..Len(closed), IsSealed(closed[k]) PROVE IsSealed(closed[k])'
      BY <1>0, <2>1 DEF SealedInv
    <3>1. closed[k].file # p
      BY <1>2 DEF IsSealed
    <3> QED BY <1>0, <1>5, <3>1 DEF IsSealed
  <2>6. OpenInv'
    <3>1. Len(more) = segment.records + 1
      BY <1>0, <1>1, <1>4, <2>1, <2>2 DEF OpenInv
    <3> QED BY <1>0, <2>1, <2>2, <3>1 DEF OpenInv
  <2>7. SpelledInv'
    <3>1. PICK f : Joins(f, closed) /\ sunk = f[Len(closed)] \o Content(p) \o <<last>>
      BY <2>1, <2>2, <2>3 DEF SpelledInv
    <3> DEFINE a == f[Len(closed)]
    <3>2. a \in Seq(LineText)
      <4>1. Len(closed) \in Nat
        BY <1>1, LenProperties
      <4> QED BY <3>1, <4>1 DEF Joins
    <3> HIDE DEF a
    <3>3. <<last>> \in Seq(LineText)
      BY <1>3
    <3>4. (a \o Content(p)) \o <<last>> = a \o more
      BY <1>3, <1>4, <3>2, <3>3, ConcatAssociative
    <3>5. a \o more \in Seq(LineText)
      BY <1>4, <3>2, ConcatProperties
    <3>6. (a \o more) \o <<>> = a \o more
      <4> DEFINE b == a \o more
      <4>1. b \in Seq(LineText)
        BY <3>5
      <4> HIDE DEF b
      <4>2. b \o <<>> = b
        BY <4>1, ConcatEmptySeq
      <4> QED BY <4>2 DEF b
    <3>7. sunk' = f[Len(closed')] \o InFile' \o Pending'
      BY <1>0, <2>2, <2>3, <3>1, <3>4, <3>6 DEF a
    <3>8. Joins(f, closed')
      BY <1>0, <3>1
    <3> QED BY <3>7, <3>8 DEF SpelledInv
  <2> QED BY <2>4, <2>5, <2>6, <2>7
<1> QED BY <1>5, <1>7, <1>8, <1>9, <1>10 DEF LogInv, StreamInv, LogTyped

\* It is counted, and the next one may begin.
LEMMA EndKeepsLog ==
  ASSUME LogInv, AppendEnds
  PROVE  LogInv'
<1> DEFINE new == [segment EXCEPT !.records = @ + 1]
<1>0. /\ appending = "count" /\ segment # NoSegment /\ segment' = new
      /\ processing' = Tail(processing) /\ appending' = "idle"
      /\ waits' = [h \in Ender |-> IF waits[h] = 0 THEN 0 ELSE waits[h] - 1]
      /\ UNCHANGED <<host, folder, segments, child, listening, said, inputBuffer, nextIndex,
                     sealing, ending, broken, closed, sunk, chain, pausing, incidents, runs,
                     clock, streams>>
  BY DEF AppendEnds, onDisk, pipe, heard, watch
<1>1. /\ processing # <<>> /\ processing \in Seq(Queued) /\ segment.records < SegmentLimit
      /\ segment \in [index : Nat, records : 0..SegmentLimit] /\ SegmentLimit \in Nat
      /\ waits \in [Ender -> Nat]
  BY <1>0, LogcatAssumption
     DEF LogInv, StreamInv, AppendInv, LogTyped, PipeTyped, WriterTyped, EndsTyped
<1>2. /\ new \in [index : Nat, records : 0..SegmentLimit] /\ new # NoSegment
      /\ new.index = segment.index /\ new.records = segment.records + 1 /\ new.records > 0
  BY <1>1 DEF NoSegment
<1> HIDE DEF new
<1>3. /\ processing' \in Seq(Queued) /\ Len(processing') = Len(processing) - 1
      /\ Len(processing) \in Nat \ {0}
      /\ \A i \in 1..Len(processing') : processing'[i] = processing[i + 1]
  BY <1>0, <1>1, HeadTailProperties, EmptySeq
<1>4. EndedWhole' = EndedWhole /\ BlankSaid' = BlankSaid /\ InUse' = InUse
  BY <1>0 DEF EndedWhole, BlankSaid, InUse
<1>5. LogTyped'
  <2>1. FilesTyped' /\ PipeTyped' /\ WriterTyped'
    BY <1>0, <1>2, <1>3 DEF LogInv, StreamInv, LogTyped, FilesTyped, PipeTyped, WriterTyped
  <2>2. waits' \in [Ender -> Nat]
    BY <1>0, <1>1
  <2> QED BY <1>0, <2>1, <2>2 DEF LogInv, StreamInv, LogTyped, EndsTyped
<1>6. WatchInv' /\ PipeInv' /\ AppendInv'
  BY <1>0, <1>4 DEF LogInv, StreamInv, WatchInv, PipeInv, AppendInv
<1>7. OffInv' /\ FallInv'
  BY <1>0, <1>1, AtWork DEF OffInv, FallInv
<1>8. RecordsInv'
  <2> SUFFICES ASSUME NEW i \in 1..Len(processing')
               PROVE  IF processing'[i].late THEN ~EndedWhole
                      ELSE \E k \in 1..LineCount : /\ WholeLine(processing'[i].text, k)
                                                   /\ 2 * k <= said
    BY <1>0, <1>4 DEF RecordsInv, WholeLine
  <2> DEFINE j == i + 1
  <2>1. j \in 1..Len(processing) /\ processing'[i] = processing[j]
    BY <1>3
  <2> HIDE DEF j
  <2> QED BY <2>1 DEF LogInv, StreamInv, RecordsInv
<1>9. OrderlyInv'
  <2> SUFFICES ASSUME EndedWhole PROVE OrderlyInv'
    BY <1>4 DEF OrderlyInv
  <2>1. /\ ~broken /\ sealing.at = "no" /\ \A h \in Ender : ending[h] \in {"idle", "flush"}
    BY <1>0, <1>1, AtWork
  <2>2. \A h \in Ender : ending[h] = "flush" => waits'[h] = Len(processing')
    <3>1. \A h \in Ender : ending[h] = "flush" => waits[h] = Len(processing)
      BY DEF LogInv, StreamInv, OrderlyInv
    <3> QED BY <1>0, <1>3, <3>1
  <2>3. segment'.index + 1 = nextIndex' /\ segment' # NoSegment /\ segment'.records > 0
    BY <1>0, <1>2 DEF LogInv, StreamInv, OrderlyInv
  <2>4. ending["stop"] \in {"idle", "flush"} /\ ending["close"] \in {"idle", "flush"}
    BY <2>1 DEF Ender
  <2> QED BY <1>0, <2>1, <2>2, <2>3, <2>4 DEF OrderlyInv
<1>10. KeptInv'
  <2> SUFFICES ASSUME InUse PROVE PartialsInv' /\ SealedInv' /\ OpenInv' /\ SpelledInv'
    BY <1>4 DEF KeptInv
  <2>1. PartialsInv /\ SealedInv /\ OpenInv /\ SpelledInv /\ EndedWhole /\ sealing.at = "no"
    BY <1>0, <1>1, AtWork DEF LogInv, KeptInv, InUse
  <2>2. InFile' = InFile /\ Pending' = Pending
    BY <1>0, <1>2 DEF InFile, Content, Pending
  <2>3. PartialsInv' /\ SealedInv'
    BY <1>0, <1>2, <2>1 DEF PartialsInv, SealedInv, IsSealed
  <2>4. OpenInv'
    <3>1. Len(InFile) = segment.records + 1
      BY <1>0, <2>1 DEF OpenInv
    <3>2. Len(InFile') = new.records + 0
      BY <1>1, <1>2, <2>2, <3>1
    <3> QED BY <1>0, <2>1, <3>2 DEF OpenInv
  <2>5. SpelledInv'
    BY <1>0, <2>1, <2>2 DEF SpelledInv
  <2> QED BY <2>3, <2>4, <2>5
<1> QED BY <1>5, <1>6, <1>7, <1>8, <1>9, <1>10 DEF LogInv, StreamInv

\* flush() is over for h: it joins a sealing under way, seals or finds nothing.
LEMMA FlushedKeepsLog ==
  ASSUME LogInv, NEW h \in Ender, CloseSegment(h)
  PROVE  LogInv'
<1>0. /\ ending[h] = "flush" /\ waits[h] = 0 /\ ~broken
      /\ UNCHANGED <<host, folder, segments, child, listening, said, inputBuffer, processing,
                     appending, nextIndex, waits, broken, closed, sunk, chain, pausing, incidents,
                     runs, clock, streams>>
  BY DEF CloseSegment, onDisk, pipe, heard, watch
<1>1. \/ /\ sealing.at # "no" /\ ending' = [ending EXCEPT ![h] = "join"]
         /\ segment' = segment /\ sealing' = sealing
      \/ /\ sealing.at = "no" /\ segment.records = 0 /\ segment' = NoSegment
         /\ ending' = [ending EXCEPT ![h] = "done"] /\ sealing' = sealing
      \/ /\ sealing.at = "no" /\ segment.records > 0 /\ segment' = segment
         /\ sealing' = [sealing EXCEPT !.at = "read"] /\ ending' = [ending EXCEPT ![h] = "join"]
  BY DEF CloseSegment
<1>2. /\ ending \in [Ender -> {"idle", "flush", "join", "done", "failed"}]
      /\ segment \in [index : Nat, records : 0..SegmentLimit]
      /\ sealing \in [at : {"no", "read", "rename", "tell"}, bytes : Seq(LineText)]
      /\ processing \in Seq(Queued) /\ Len(processing) \in Nat
  BY LenProperties DEF LogInv, StreamInv, LogTyped, PipeTyped, WriterTyped, EndsTyped
<1>3. /\ sealing' \in [at : {"no", "read", "rename", "tell"}, bytes : Seq(LineText)]
      /\ ending'[h] \in {"join", "done"}
      /\ \A k \in Ender : k # h => ending'[k] = ending[k]
      /\ ending' \in [Ender -> {"idle", "flush", "join", "done", "failed"}]
  BY <1>1, <1>2
<1>4. segment' \in [index : Nat, records : 0..SegmentLimit] /\ segment'.records <= segment.records
  <2>1. 0 \in 0..SegmentLimit
    BY LogcatAssumption
  <2> QED BY <1>1, <1>2, <2>1 DEF NoSegment
<1>5. EndedWhole' = EndedWhole /\ BlankSaid' = BlankSaid /\ InUse' = InUse
  BY <1>0 DEF EndedWhole, BlankSaid, InUse
<1>6. LogTyped'
  BY <1>0, <1>3, <1>4
     DEF LogInv, StreamInv, LogTyped, FilesTyped, PipeTyped, WriterTyped, EndsTyped
<1>7. WatchInv' /\ RecordsInv'
  BY <1>0, <1>5 DEF LogInv, StreamInv, WatchInv, RecordsInv
<1>8. PipeInv'
  <2>1. child # "none" /\ child # "alive"
    BY <1>0 DEF LogInv, StreamInv, PipeInv, Ender
  <2>2. ~folder => ending["stop"] \in {"done", "failed"} /\ h # "stop"
    BY <1>0, <2>1 DEF LogInv, StreamInv, PipeInv
  <2>3. ending'["stop"] # "idle" => ending["stop"] # "idle"
    BY <1>0, <1>3 DEF Ender
  <2>4. ending'["close"] # "idle" => ending["close"] # "idle"
    BY <1>0, <1>3 DEF Ender
  <2>5. ~folder => ending'["stop"] = ending["stop"]
    BY <1>3, <2>2 DEF Ender
  <2> QED BY <1>0, <1>5, <2>1, <2>2, <2>3, <2>4, <2>5 DEF LogInv, StreamInv, PipeInv
<1>9. OffInv' /\ FallInv'
  <2>1. child # "none"
    BY <1>0 DEF LogInv, StreamInv, PipeInv, Ender
  <2> QED BY <1>0, <1>5, <2>1 DEF LogInv, StreamInv, OffInv, FallInv
<1>10. AppendInv'
  <2>1. appending \in {"write", "count"} => segment'.records < SegmentLimit
    BY <1>2, <1>4, LogcatAssumption DEF LogInv, StreamInv, AppendInv
  <2> QED BY <1>0, <2>1 DEF LogInv, StreamInv, AppendInv
<1>11. ASSUME EndedWhole
       PROVE  /\ processing = <<>> /\ appending = "idle"
              /\ segment # NoSegment => segment.records > 0
              /\ segment' = segment /\ (segment.records = 0 => segment = NoSegment)
  <2>1. waits[h] = Len(processing)
    BY <1>0, <1>11 DEF LogInv, StreamInv, OrderlyInv
  <2>2. processing = <<>>
    BY <1>0, <1>2, <2>1, EmptySeq
  <2>3. appending = "idle"
    BY <2>2 DEF LogInv, StreamInv, AppendInv
  <2>4. segment # NoSegment => segment.records > 0
    BY <1>11, <2>3 DEF LogInv, StreamInv, OrderlyInv
  <2>5. segment.records = 0 => segment = NoSegment
    BY <2>4
  <2> QED BY <1>1, <2>2, <2>3, <2>4, <2>5
<1>12. OrderlyInv'
  <2> SUFFICES ASSUME EndedWhole PROVE OrderlyInv'
    BY <1>5 DEF OrderlyInv
  <2>0. OrderlyInv /\ Ender = {"stop", "close"}
    BY DEF LogInv, StreamInv, Ender
  <2>1. ending'[h] = "join" => sealing'.at # "no"
    BY <1>1, <1>2
  <2>2. sealing.at # "no" => sealing' = sealing
    BY <1>1
  <2>3. sealing'.at # "no" => sealing.at # "no" \/ ending'[h] = "join"
    BY <1>1, <1>2
  <2>4. sealing'.at # "no" => segment.records > 0
    <3>1. sealing.at # "no" => segment.records > 0
      BY <2>0 DEF OrderlyInv
    <3> QED BY <1>1, <3>1
  <2>5. ending'[h] = "done" => segment = NoSegment
    BY <1>1, <1>3, <1>11, <1>2
  <2>6. \A k \in Ender : /\ ending'[k] = "flush" => waits[k] = Len(processing)
                         /\ ending'[k] = "join" => sealing'.at # "no"
                         /\ ending'[k] = "done" => segment = NoSegment
    <3> SUFFICES ASSUME NEW k \in Ender
                 PROVE  /\ ending'[k] = "flush" => waits[k] = Len(processing)
                        /\ ending'[k] = "join" => sealing'.at # "no"
                        /\ ending'[k] = "done" => segment = NoSegment
      OBVIOUS
    <3>1. CASE k = h
      BY <1>3, <2>1, <2>5, <3>1
    <3>2. CASE k # h
      BY <1>3, <2>0, <2>2, <3>2 DEF OrderlyInv
    <3> QED BY <3>1, <3>2
  <2>7. /\ ending'["stop"] # "failed" /\ ending'["close"] # "failed"
    BY <1>0, <1>3, <2>0 DEF OrderlyInv
  <2>8. sealing'.at # "no" => "join" \in {ending'["stop"], ending'["close"]}
    <3>1. CASE ending'[h] = "join"
      BY <2>0, <3>1
    <3>2. CASE sealing.at # "no"
      BY <1>1, <1>2, <2>0, <3>2
    <3> QED BY <2>3, <3>1, <3>2
  <2> QED BY <1>0, <1>11, <2>0, <2>4, <2>6, <2>7, <2>8 DEF OrderlyInv
<1>13. KeptInv'
  <2> SUFFICES ASSUME InUse PROVE PartialsInv' /\ SealedInv' /\ OpenInv' /\ SpelledInv'
    BY <1>5 DEF KeptInv
  <2>1. /\ PartialsInv /\ SealedInv /\ OpenInv /\ SpelledInv /\ segment' = segment
        /\ sealing' = sealing \/ (sealing.at = "no" /\ sealing'.at = "read")
    BY <1>1, <1>2, <1>11 DEF LogInv, KeptInv, InUse
  <2>2. sealing'.at = "tell" <=> sealing.at = "tell"
    BY <2>1
  <2>3. InFile' = InFile
    BY <1>0, <2>1, <2>2 DEF InFile, Content
  <2>4. PartialsInv' /\ SealedInv' /\ SpelledInv'
    BY <1>0, <2>1, <2>2, <2>3 DEF PartialsInv, SealedInv, IsSealed, SpelledInv, Pending
  <2>5. OpenInv'
    BY <1>0, <2>1, <2>3 DEF OpenInv, Content
  <2> QED BY <2>4, <2>5
<1> QED BY <1>6, <1>7, <1>8, <1>9, <1>10, <1>12, <1>13 DEF LogInv, StreamInv

\* Sealing: who is at it, and of what.
LEMMA Sealing ==
  ASSUME LogInv, sealing.at # "no"
  PROVE  /\ child # "none" /\ host = "up"
         /\ EndedWhole => /\ folder /\ segment # NoSegment /\ segment.records > 0 /\ ~broken
                          /\ appending \in {"idle", "seal"} /\ InUse
                          /\ appending = "idle" => processing = <<>>
<1>1. child # "none" /\ host = "up"
  BY DEF LogInv, StreamInv, OffInv, StreamInit, NotSealing
<1>2. ASSUME EndedWhole
      PROVE  /\ folder /\ segment # NoSegment /\ segment.records > 0 /\ ~broken
             /\ appending \in {"idle", "seal"} /\ InUse
             /\ appending = "idle" => processing = <<>>
  <2>1. segment.records > 0 /\ ~broken
        /\ (appending = "seal" \/ "join" \in {ending["stop"], ending["close"]})
    BY <1>2 DEF LogInv, StreamInv, OrderlyInv
  <2>2. segment # NoSegment
    BY <2>1 DEF NoSegment
  <2>3. "join" \in {ending["stop"], ending["close"]} => processing = <<>>
    BY <1>2 DEF LogInv, StreamInv, OrderlyInv, Ender
  <2>4. processing = <<>> => appending = "idle"
    BY DEF LogInv, StreamInv, AppendInv
  <2>5. ending["stop"] # "done" /\ ending["stop"] # "failed"
    BY <1>2, <2>1, <2>2 DEF LogInv, StreamInv, OrderlyInv, Ender
  <2>6. folder
    BY <1>1, <2>5 DEF LogInv, StreamInv, LogTyped, FilesTyped, PipeInv
  <2> QED BY <1>1, <1>2, <2>1, <2>2, <2>3, <2>4, <2>6 DEF InUse
<1> QED BY <1>1, <1>2

\* What is being sealed is on disk, and as long as its records are many.
LEMMA SealedFile ==
  ASSUME LogInv, sealing.at # "no", EndedWhole
  PROVE  /\ Len(InFile) = segment.records
         /\ sealing.at \in {"read", "rename"} => /\ Partial(segment.index) \in DOMAIN segments
                                                 /\ InFile = segments[Partial(segment.index)]
         /\ sealing.at = "rename" => sealing.bytes = segments[Partial(segment.index)]
<1>1. /\ segment # NoSegment /\ segment.records > 0 /\ InUse /\ appending # "count"
      /\ segment.records \in Nat
  BY Sealing, LogcatAssumption DEF LogInv, StreamInv, LogTyped, WriterTyped
<1>2. OpenInv
  BY <1>1 DEF LogInv, KeptInv
<1>3. Len(InFile) = segment.records
  BY <1>1, <1>2 DEF OpenInv
<1>4. sealing.at # "tell" => InFile = Content(Partial(segment.index))
  BY DEF InFile
<1>5. Len(<<>>) = 0
  OBVIOUS
<1> QED BY <1>1, <1>2, <1>3, <1>4, <1>5 DEF Content, OpenInv

LEMMA FallsKeepLog ==
  ASSUME LogInv, CloseRejects \/ SealFails
  PROVE  LogInv'
<1>0. Fall /\ UNCHANGED <<onDisk, said, incidents, runs, clock, streams>>
  BY DEF CloseRejects, SealFails
<1>1. BlankSaid \/ ~EndedWhole
  <2>1. CASE CloseRejects
    BY <2>1 DEF CloseRejects, LogInv, StreamInv, OrderlyInv
  <2>2. CASE SealFails
    BY <2>2, SealedFile DEF SealFails
  <2> QED BY <2>1, <2>2
<1>2. BlankSaid \/ said % 2 = 1
  BY <1>1, SaidIsNatural DEF LogInv, StreamInv, LogTyped, EndedWhole
<1> QED BY <1>0, <1>2, DownKeepsLog DEF Fall

LEMMA SealReadsKeepsLog ==
  ASSUME LogInv, SealReads
  PROVE  LogInv'
<1> DEFINE new == [at |-> "rename", bytes |-> segments[Partial(segment.index)]]
<1>0. /\ sealing.at = "read" /\ Partial(segment.index) \in DOMAIN segments /\ sealing' = new
      /\ UNCHANGED <<host, folder, segments, child, listening, said, inputBuffer, processing,
                     appending, segment, nextIndex, ending, waits, broken, closed, sunk, chain,
                     pausing, incidents, runs, clock, streams>>
  BY DEF SealReads, onDisk, pipe, ends, heard, watch
<1>1. /\ new.at = "rename" /\ new.bytes = segments[Partial(segment.index)]
      /\ new \in [at : {"no", "read", "rename", "tell"}, bytes : Seq(LineText)]
  BY <1>0 DEF LogInv, StreamInv, LogTyped, FilesTyped
<1> HIDE DEF new
<1>2. EndedWhole' = EndedWhole /\ BlankSaid' = BlankSaid /\ InUse' = InUse
  BY <1>0 DEF EndedWhole, BlankSaid, InUse
<1>3. LogTyped' /\ WatchInv'
  BY <1>0, <1>1 DEF LogInv, StreamInv, LogTyped, FilesTyped, PipeTyped, WriterTyped, EndsTyped, WatchInv
<1>4. PipeInv' /\ RecordsInv' /\ AppendInv'
  BY <1>0, <1>2 DEF LogInv, StreamInv, PipeInv, RecordsInv, AppendInv
<1>5. OffInv' /\ FallInv'
  BY <1>0, <1>2, Sealing DEF OffInv, FallInv
<1>6. OrderlyInv'
  BY <1>0, <1>1, <1>2 DEF LogInv, StreamInv, OrderlyInv
<1>7. KeptInv'
  <2> SUFFICES ASSUME InUse PROVE PartialsInv' /\ SealedInv' /\ OpenInv' /\ SpelledInv'
    BY <1>2 DEF KeptInv
  <2>1. PartialsInv /\ SealedInv /\ OpenInv /\ SpelledInv
    BY DEF LogInv, KeptInv
  <2>2. InFile' = InFile
    BY <1>0, <1>1 DEF InFile, Content
  <2>3. PartialsInv' /\ SealedInv' /\ SpelledInv'
    BY <1>0, <1>1, <2>1, <2>2 DEF PartialsInv, SealedInv, IsSealed, SpelledInv, Pending
  <2>4. OpenInv'
    BY <1>0, <1>1, <2>1, <2>2 DEF OpenInv, Content
  <2> QED BY <2>3, <2>4
<1> QED BY <1>3, <1>4, <1>5, <1>6, <1>7 DEF LogInv, StreamInv

LEMMA SealRenamesKeepsLog ==
  ASSUME LogInv, SealRenames
  PROVE  LogInv'
<1> DEFINE from == Partial(segment.index)
           to   == Raw(segment.index)
           new  == [sealing EXCEPT !.at = "tell"]
<1>0. /\ sealing.at = "rename" /\ from \in DOMAIN segments /\ sealing' = new
      /\ segments' = Renamed(segments, from, to)
      /\ UNCHANGED <<host, folder, child, listening, said, inputBuffer, processing,
                     appending, segment, nextIndex, ending, waits, broken, closed, sunk, chain,
                     pausing, incidents, runs, clock, streams>>
  BY DEF SealRenames, pipe, ends, heard, watch
<1>1. /\ new.at = "tell" /\ new.bytes = sealing.bytes /\ segment.index \in Nat
      /\ new \in [at : {"no", "read", "rename", "tell"}, bytes : Seq(LineText)] /\ FilesTyped
  BY DEF LogInv, StreamInv, LogTyped, WriterTyped
<1> HIDE DEF new
<1>2. from.kind = "partial" /\ to.kind = "raw" /\ to.index = segment.index /\ to \in FileName
  BY <1>1 DEF Partial, Raw, FileName
<1>3. /\ DOMAIN segments' = (DOMAIN segments \ {from}) \cup {to}
      /\ segments'[to] = segments[from]
      /\ \A q \in DOMAIN segments : q # from /\ q # to => segments'[q] = segments[q]
  <2> HIDE DEF from, to
  <2> QED BY <1>0 DEF Renamed, With, Without
<1> HIDE DEF to
<1>4. FilesTyped'
  <2>1. IsFiniteSet((DOMAIN segments \ {from}) \cup {to})
    <3> HIDE DEF from
    <3>1. IsFiniteSet(DOMAIN segments \ {from})
      BY <1>1, FS_RemoveElement DEF FilesTyped
    <3> QED BY <3>1, FS_AddElement
  <2>2. segments[from] \in Seq(LineText)
    BY <1>0, <1>1 DEF FilesTyped
  <2>3. \A q \in DOMAIN segments' : segments'[q] \in Seq(LineText)
    <3>1. ASSUME NEW q \in DOMAIN segments' PROVE segments'[q] \in Seq(LineText)
      <4>1. q = to \/ (q \in DOMAIN segments /\ q # from)
        BY <1>3
      <4> QED BY <1>1, <1>3, <2>2, <4>1 DEF FilesTyped
    <3> QED BY <3>1
  <2> HIDE DEF from
  <2> QED BY <1>0, <1>1, <1>2, <1>3, <2>1, <2>3 DEF FilesTyped
<1>5. EndedWhole' = EndedWhole /\ BlankSaid' = BlankSaid /\ InUse' = InUse
  BY <1>0 DEF EndedWhole, BlankSaid, InUse
<1>6. PipeTyped' /\ WriterTyped' /\ EndsTyped' /\ WatchInv'
  BY <1>0, <1>1 DEF LogInv, StreamInv, LogTyped, PipeTyped, WriterTyped, EndsTyped, WatchInv
<1>7. PipeInv' /\ RecordsInv' /\ AppendInv'
  BY <1>0, <1>5 DEF LogInv, StreamInv, PipeInv, RecordsInv, AppendInv
<1>8. OffInv' /\ FallInv'
  BY <1>0, <1>5, Sealing DEF OffInv, FallInv
<1>9. OrderlyInv'
  BY <1>0, <1>1, <1>5 DEF LogInv, StreamInv, OrderlyInv
<1>10. KeptInv'
  <2> SUFFICES ASSUME InUse PROVE PartialsInv' /\ SealedInv' /\ OpenInv' /\ SpelledInv'
    BY <1>5 DEF KeptInv
  <2>0. EndedWhole /\ segment # NoSegment
    BY <1>0, Sealing DEF InUse
  <2>1. /\ PartialsInv /\ SealedInv /\ OpenInv /\ SpelledInv
        /\ InFile = segments[from] /\ sealing.bytes = segments[from] /\ Len(InFile) = segment.records
    BY <1>0, <2>0, SealedFile DEF LogInv, KeptInv
  <2>2. InFile' = InFile
    BY <1>0, <1>1, <2>1 DEF InFile
  <2>3. Pending' = Pending
    BY <1>0 DEF Pending
  <2>4. PartialsInv'
    <3>1. \A q \in DOMAIN segments' : q.kind # "partial"
      BY <1>2, <1>3, <2>1 DEF PartialsInv
    <3> QED BY <3>1 DEF PartialsInv
  <2>5. SealedInv'
    <3> SUFFICES ASSUME NEW k \in 1..Len(closed), IsSealed(closed[k]) PROVE IsSealed(closed[k])'
      BY <1>0, <2>1 DEF SealedInv
    <3>1. closed[k].file # from
      BY <1>2 DEF IsSealed
    <3>2. closed[k].file # to
      BY <1>1, <1>2, <2>0 DEF IsSealed
    <3> QED BY <1>0, <1>3, <3>1, <3>2 DEF IsSealed
  <2>6. OpenInv'
    <3>1. appending # "count"
      BY <1>0, <2>0, Sealing
    <3> QED BY <1>0, <1>1, <1>3, <2>1, <2>2, <3>1 DEF OpenInv, to
  <2>7. SpelledInv'
    BY <1>0, <2>1, <2>2, <2>3 DEF SpelledInv
  <2> QED BY <2>4, <2>5, <2>6, <2>7
<1> QED BY <1>4, <1>6, <1>7, <1>8, <1>9, <1>10 DEF LogInv, StreamInv, LogTyped

\* A segment is announced: whoever waited for it goes on, with a new one or none.
LEMMA SealTellsKeepsLog ==
  ASSUME LogInv, SealTells
  PROVE  LogInv'
<1> DEFINE e == [file |-> Raw(segment.index), digest |-> sealing.bytes, count |-> segment.records]
           new == [index |-> nextIndex, records |-> 0]
<1>0. /\ sealing.at = "tell" /\ closed' = Append(closed, e) /\ sealing' = NotSealing
      /\ ending' = [h \in Ender |-> IF ending[h] = "join" THEN "done" ELSE ending[h]]
      /\ UNCHANGED <<host, folder, segments, child, listening, said, inputBuffer, processing,
                     waits, broken, sunk, chain, pausing, incidents, runs, clock, streams>>
  BY DEF SealTells, onDisk, pipe, watch
<1>1. \/ /\ appending = "seal" /\ segment' = new /\ nextIndex' = nextIndex + 1
         /\ appending' = "write"
      \/ /\ appending # "seal" /\ segment' = NoSegment /\ nextIndex' = nextIndex
         /\ appending' = appending
  BY DEF SealTells
<1>2. /\ segment \in [index : Nat, records : 0..SegmentLimit] /\ SegmentLimit \in Nat \ {0}
      /\ sealing.bytes \in Seq(LineText) /\ nextIndex \in Nat \ {0} /\ closed \in Seq(Announced)
      /\ ending \in [Ender -> {"idle", "flush", "join", "done", "failed"}]
      /\ sunk \in Seq(LineText)
      /\ appending \in {"idle", "seal", "write", "count"}
  BY LogcatAssumption DEF LogInv, StreamInv, LogTyped, WriterTyped, EndsTyped
<1>3. /\ e \in Announced /\ e.file = Raw(segment.index) /\ e.digest = sealing.bytes
      /\ e.count = segment.records /\ e.file.kind = "raw" /\ e.file.index = segment.index
  BY <1>2 DEF Announced, FileName, Raw
<1>4. /\ new \in [index : Nat, records : 0..SegmentLimit] /\ new # NoSegment
      /\ new.index = nextIndex /\ new.records = 0
  BY <1>2 DEF NoSegment
<1> HIDE DEF e, new
<1>5. /\ closed' \in Seq(Announced) /\ Len(closed') = Len(closed) + 1 /\ Len(closed) \in Nat
      /\ \A k \in 1..Len(closed) : closed'[k] = closed[k]
      /\ closed'[Len(closed) + 1] = e
  BY <1>0, <1>2, <1>3, AppendProperties, LenProperties
<1>6. /\ NoSegment \in [index : Nat, records : 0..SegmentLimit] /\ NoSegment.records = 0
      /\ NotSealing \in [at : {"no", "read", "rename", "tell"}, bytes : Seq(LineText)]
      /\ NotSealing.at = "no" /\ NotSealing.bytes = <<>>
  <2>1. <<>> \in Seq(LineText)
    OBVIOUS
  <2> QED BY <1>2, <2>1 DEF NoSegment, NotSealing
<1>7. EndedWhole' = EndedWhole /\ BlankSaid' = BlankSaid /\ InUse' = InUse
  BY <1>0 DEF EndedWhole, BlankSaid, InUse
<1>8. FilesTyped' /\ PipeTyped' /\ WatchInv'
  BY <1>0 DEF LogInv, StreamInv, LogTyped, FilesTyped, PipeTyped, WatchInv
<1>9. WriterTyped' /\ EndsTyped'
  <2>1. segment' \in [index : Nat, records : 0..SegmentLimit] /\ nextIndex' \in Nat \ {0}
        /\ appending' \in {"idle", "seal", "write", "count"}
    BY <1>1, <1>2, <1>4, <1>6
  <2>2. ending' \in [Ender -> {"idle", "flush", "join", "done", "failed"}]
    BY <1>0, <1>2
  <2> QED BY <1>0, <1>2, <1>5, <1>6, <2>1, <2>2 DEF LogInv, StreamInv, LogTyped, WriterTyped, EndsTyped
<1>10. PipeInv'
  <2>1. \A h \in Ender : /\ ending'[h] = "idle" <=> ending[h] = "idle"
                         /\ ending[h] \in {"done", "failed"} => ending'[h] = ending[h]
    BY <1>0
  <2>2. /\ ending'["stop"] = "idle" <=> ending["stop"] = "idle"
        /\ ending'["close"] = "idle" <=> ending["close"] = "idle"
        /\ ending["stop"] \in {"done", "failed"} => ending'["stop"] = ending["stop"]
    BY <2>1 DEF Ender
  <2> QED BY <1>0, <1>7, <2>2 DEF LogInv, StreamInv, PipeInv
<1>11. RecordsInv'
  BY <1>0, <1>7 DEF LogInv, StreamInv, RecordsInv
<1>12. OffInv' /\ FallInv'
  BY <1>0, <1>7, Sealing DEF OffInv, FallInv
<1>13. AppendInv'
  <2>1. appending' \in {"write", "count"} => segment'.records < SegmentLimit
    BY <1>1, <1>2, <1>4, <1>6
  <2>2. appending' # "idle" => appending # "idle"
    BY <1>1
  <2> QED BY <1>0, <2>1, <2>2 DEF LogInv, StreamInv, AppendInv
<1>14. ASSUME EndedWhole
       PROVE  /\ segment # NoSegment /\ segment.records > 0 /\ ~broken /\ InUse
              /\ appending \in {"idle", "seal"} /\ segment.index + 1 = nextIndex
              /\ appending = "idle" => processing = <<>>
              /\ appending = "seal" => \A h \in Ender : ending[h] \in {"idle", "flush"}
  <2>1. segment.index + 1 = nextIndex
    BY <1>14, <1>0, Sealing DEF LogInv, StreamInv, OrderlyInv
  <2>2. appending = "seal" => processing # <<>>
    BY DEF LogInv, StreamInv, AppendInv
  <2> QED BY <1>14, <1>0, <2>1, <2>2, Sealing, AtWork
<1>15. OrderlyInv'
  <2> SUFFICES ASSUME EndedWhole PROVE OrderlyInv'
    BY <1>7 DEF OrderlyInv
  <2>0. OrderlyInv /\ Ender = {"stop", "close"}
    BY DEF LogInv, StreamInv, Ender
  <2>1. /\ segment # NoSegment /\ ~broken /\ appending \in {"idle", "seal"}
        /\ appending = "idle" => processing = <<>>
        /\ appending = "seal" => \A h \in Ender : ending[h] \in {"idle", "flush"}
    BY <1>14
  <2>2. \A h \in Ender : ending[h] # "failed" /\ ending[h] # "done"
    BY <2>0, <2>1 DEF OrderlyInv
  <2>3. \A h \in Ender : ending'[h] \in {"idle", "flush", "done"}
    BY <1>0, <1>2, <2>2
  <2>4. \A h \in Ender : ending'[h] = "flush" => waits[h] = Len(processing)
    BY <1>0, <2>0 DEF OrderlyInv
  <2>5. \A h \in Ender : ending'[h] = "done" => appending = "idle" /\ processing = <<>>
    BY <1>0, <2>1, <2>2
  <2>6. appending = "idle" => segment' = NoSegment
    BY <1>1
  <2>7. segment' # NoSegment => segment'.index + 1 = nextIndex' /\ appending' = "write"
    BY <1>1, <1>4
  <2>8. appending' # "idle" => segment' # NoSegment /\ appending' = "write"
    BY <1>1, <1>4, <2>1
  <2>9. ending'["stop"] # "failed" /\ ending'["close"] # "failed"
    BY <2>0, <2>3
  <2> QED BY <1>0, <1>6, <2>1, <2>3, <2>4, <2>5, <2>6, <2>7, <2>8, <2>9 DEF OrderlyInv
<1>16. KeptInv'
  <2> SUFFICES ASSUME InUse PROVE PartialsInv' /\ SealedInv' /\ OpenInv' /\ SpelledInv'
    BY <1>7 DEF KeptInv
  <2>1. /\ PartialsInv /\ SealedInv /\ OpenInv /\ SpelledInv /\ EndedWhole
        /\ segment # NoSegment /\ segment.index + 1 = nextIndex
        /\ appending \in {"idle", "seal"}
    BY <1>14 DEF LogInv, KeptInv, InUse
  <2>2. \A q \in DOMAIN segments : q.kind # "partial"
    BY <1>0, <2>1 DEF PartialsInv
  <2>3. \A i : Content(Partial(i)) = <<>>
    BY <2>2 DEF Content, Partial
  <2>4. InFile = sealing.bytes /\ InFile' = <<>>
    <3>1. InFile = sealing.bytes
      BY <1>0 DEF InFile
    <3>2. InFile' = Content(Partial(segment'.index))
      BY <1>0, <1>6 DEF InFile, Content
    <3> QED BY <2>3, <3>1, <3>2
  <2>5. Pending' = Pending
    BY <1>0, <1>1, <2>1 DEF Pending
  <2>6. PartialsInv'
    BY <1>0, <2>2 DEF PartialsInv
  <2>7. SealedInv'
    <3>1. segment.index < nextIndex' /\ (segment' # NoSegment => segment.index < segment'.index)
          /\ nextIndex <= nextIndex' /\ (segment' # NoSegment => segment'.index = nextIndex)
      BY <1>1, <1>2, <1>4, <2>1
    <3>2. ASSUME NEW k \in 1..Len(closed')
          PROVE  LET a == closed'[k] IN
                 /\ a.file \in DOMAIN segments /\ segments[a.file] = a.digest
                 /\ a.count = IF a.file.kind = "raw" THEN Len(a.digest) ELSE CountOf(a.digest)
                 /\ \/ a.file.kind = "recovered"
                    \/ /\ a.file.kind = "raw" /\ a.file.index < nextIndex'
                       /\ segment' # NoSegment => a.file.index < segment'.index
      <4>1. CASE k \in 1..Len(closed)
        <5> DEFINE a == closed[k]
        <5>1. IsSealed(a) /\ closed'[k] = a
          BY <1>5, <2>1, <4>1 DEF SealedInv
        <5>2. a.file.index \in Nat
          <6>1. a \in Announced
            BY <1>2, <4>1, ElementOfSeq
          <6> QED BY <6>1 DEF Announced, FileName
        <5> HIDE DEF a
        <5>3. a.file.index < nextIndex =>
                /\ a.file.index < nextIndex'
                /\ segment' # NoSegment => a.file.index < segment'.index
          <6>1. nextIndex \in Nat /\ nextIndex' \in Nat
            BY <1>2, <1>9 DEF WriterTyped
          <6> DEFINE j == a.file.index
          <6>2. j \in Nat
            BY <5>2
          <6> HIDE DEF j
          <6>3. j < nextIndex => j < nextIndex'
            BY <3>1, <6>1, <6>2
          <6> QED BY <3>1, <6>3 DEF j
        <5> QED BY <5>1, <5>3 DEF IsSealed
      <4>2. CASE k = Len(closed) + 1
        <5>1. e.file \in DOMAIN segments /\ segments[e.file] = e.digest
          BY <1>0, <1>3, <2>1 DEF OpenInv
        <5>2. e.count = Len(e.digest)
          BY <1>0, <1>3, <2>1, <2>4, SealedFile
        <5> QED BY <1>3, <1>5, <3>1, <4>2, <5>1, <5>2
      <4> QED BY <1>5, <4>1, <4>2
    <3>3. \A k \in 1..Len(closed') : IsSealed(closed[k])'
      BY <1>0, <3>2 DEF IsSealed
    <3> QED BY <3>3 DEF SealedInv
  <2>8. OpenInv'
    <3>1. Len(<<>>) = 0
      OBVIOUS
    <3> QED BY <1>1, <1>4, <1>0, <1>6, <2>1, <2>4, <3>1 DEF OpenInv
  <2>9. SpelledInv'
    <3>1. PICK f : Joins(f, closed) /\ sunk = f[Len(closed)] \o InFile \o Pending
      BY <2>1 DEF SpelledInv
    <3> DEFINE more == Append(closed, e)
               all  == f[Len(closed)] \o RecordsOf(e)
    <3>2. \E g : Joins(g, more) /\ g[Len(closed) + 1] = all
      <4>1. closed \in Seq(Announced) /\ e \in Announced /\ Joins(f, closed)
        BY <1>2, <1>3, <3>1
      <4> QED BY <4>1, JoinsMore
    <3>3. closed' = more
      BY <1>0
    <3> HIDE DEF more, all
    <3>4. PICK g : Joins(g, closed') /\ g[Len(closed) + 1] = f[Len(closed)] \o RecordsOf(e)
      BY <3>2, <3>3 DEF all
    <3>5. RecordsOf(e) = InFile
      BY <1>3, <2>4 DEF RecordsOf
    <3> DEFINE a == g[Len(closed')]
    <3>6. a = f[Len(closed)] \o InFile /\ a \in Seq(LineText)
      <4>1. a = f[Len(closed)] \o InFile
        BY <1>5, <3>4, <3>5
      <4>2. g \in [0..Len(closed') -> Seq(LineText)]
        BY <3>4 DEF Joins
      <4>3. Len(closed') \in 0..Len(closed')
        BY <1>5
      <4> QED BY <4>1, <4>2, <4>3
    <3> HIDE DEF a
    <3>7. a \o <<>> = a
      BY <3>6, ConcatEmptySeq
    <3>8. sunk' = a \o InFile' \o Pending'
      BY <1>0, <2>4, <2>5, <3>1, <3>6, <3>7
    <3> QED BY <3>4, <3>8 DEF SpelledInv, a
  <2> QED BY <2>6, <2>7, <2>8, <2>9
<1> QED BY <1>8, <1>9, <1>10, <1>11, <1>12, <1>13, <1>15, <1>16 DEF LogInv, StreamInv, LogTyped

\* The directory goes, once stop() has answered.
LEMMA DiscardKeepsLog ==
  ASSUME LogInv, Discard
  PROVE  LogInv'
<1>0. /\ host = "up" /\ ending["stop"] \in {"done", "failed"} /\ folder' = FALSE /\ segments' = <<>>
      /\ UNCHANGED <<host, child, listening, said, inputBuffer, processing, appending, segment,
                     nextIndex, sealing, ending, waits, broken, closed, sunk, chain, pausing,
                     incidents, runs, clock, streams>>
  BY DEF Discard, pipe, writer, ends, heard, watch
<1>1. FilesTyped'
  <2>1. DOMAIN <<>> = {}
    OBVIOUS
  <2> QED BY <1>0, <2>1, FS_EmptySet DEF FilesTyped
<1>2. EndedWhole' = EndedWhole /\ BlankSaid' = BlankSaid
  BY <1>0 DEF EndedWhole, BlankSaid
<1>3. PipeTyped' /\ WriterTyped' /\ EndsTyped' /\ WatchInv'
  BY <1>0 DEF LogInv, StreamInv, LogTyped, PipeTyped, WriterTyped, EndsTyped, WatchInv
<1>4. PipeInv' /\ RecordsInv' /\ AppendInv' /\ OrderlyInv'
  BY <1>0, <1>2 DEF LogInv, StreamInv, PipeInv, RecordsInv, AppendInv, OrderlyInv
<1>5. OffInv'
  BY <1>0 DEF LogInv, StreamInv, OffInv, StreamInit
<1>6. KeptInv' /\ FallInv'
  BY <1>0 DEF KeptInv, InUse, FallInv
<1> QED BY <1>1, <1>3, <1>4, <1>5, <1>6 DEF LogInv, StreamInv, LogTyped

\* The files a former server left half written have new names.
LEMMA SweptTyped ==
  ASSUME FilesTyped
  PROVE  /\ Left \subseteq Nat /\ IsFiniteSet(Left)
         /\ \A i \in Left : Partial(i) \in DOMAIN segments /\ segments[Partial(i)] \in Seq(LineText)
         /\ IsFiniteSet(DOMAIN Swept) /\ DOMAIN Swept \subseteq FileName
         /\ \A p \in DOMAIN Swept : Swept[p] \in Seq(LineText) /\ p.kind # "partial"
         /\ \A i \in Left : /\ Recovered(i) \in DOMAIN Swept
                            /\ Swept[Recovered(i)] = segments[Partial(i)]
<1> DEFINE half == {q \in DOMAIN segments : q.kind = "partial"}
           kept == {q \in DOMAIN segments : q.kind # "partial"}
           back == {Recovered(i) : i \in Left}
           f    == [q \in half |-> q.index]
           g    == [i \in Left |-> Recovered(i)]
<1>1. /\ IsFiniteSet(DOMAIN segments) /\ DOMAIN segments \subseteq FileName
      /\ \A p \in DOMAIN segments : segments[p] \in Seq(LineText)
  BY DEF FilesTyped
<1>2. Left = {q.index : q \in half}
  BY DEF Left
<1>3. ASSUME NEW i \in Left
      PROVE  i \in Nat /\ Partial(i) \in DOMAIN segments
  <2>1. PICK q \in half : i = q.index
    BY <1>2
  <2>2. q \in [index : Nat, kind : {"partial", "raw", "recovered"}] /\ q.kind = "partial"
    BY <1>1 DEF FileName
  <2>3. q = [index |-> q.index, kind |-> q.kind] /\ q.index \in Nat
    BY <2>2
  <2> QED BY <2>1, <2>2, <2>3 DEF Partial
<1>4. IsFiniteSet(Left)
  <2>1. IsFiniteSet(half)
    BY <1>1, FS_Subset
  <2>2. f \in Surjection(half, Left)
    BY <1>2 DEF Surjection
  <2> HIDE DEF f, half
  <2> QED BY <2>1, <2>2, FS_Surjection
<1>5. IsFiniteSet(back)
  <2>1. g \in Surjection(Left, back)
    BY DEF Surjection
  <2> HIDE DEF g, back
  <2> QED BY <2>1, <1>4, FS_Surjection
<1>6. DOMAIN Swept = kept \cup back
  BY DEF Swept
<1>7. IsFiniteSet(DOMAIN Swept)
  <2>1. IsFiniteSet(kept)
    BY <1>1, FS_Subset
  <2> HIDE DEF kept, back
  <2> QED BY <2>1, <1>5, <1>6, FS_Union
<1>8. \A i \in Left : Recovered(i) \in FileName /\ Recovered(i).index = i
                      /\ Recovered(i).kind = "recovered"
  BY <1>3 DEF FileName, Recovered
<1>9. DOMAIN Swept \subseteq FileName
  BY <1>1, <1>6, <1>8
<1>10. ASSUME NEW p \in DOMAIN Swept
       PROVE  /\ Swept[p] \in Seq(LineText) /\ p.kind # "partial"
              /\ p.kind = "recovered" /\ p.index \in Left => Swept[p] = segments[Partial(p.index)]
  <2>1. Swept[p] = IF p.kind = "recovered" /\ p.index \in Left THEN segments[Partial(p.index)]
                   ELSE segments[p]
    BY DEF Swept
  <2>2. CASE p \in kept
    BY <1>1, <1>3, <2>1, <2>2
  <2>3. CASE p \in back
    BY <1>1, <1>3, <1>8, <2>1, <2>3
  <2> QED BY <1>6, <2>2, <2>3, <2>1
<1>11. ASSUME NEW i \in Left
       PROVE  Recovered(i) \in DOMAIN Swept /\ Swept[Recovered(i)] = segments[Partial(i)]
  <2>1. Recovered(i) \in DOMAIN Swept
    BY <1>6
  <2> QED BY <2>1, <1>8, <1>10
<1> QED BY <1>1, <1>3, <1>4, <1>7, <1>9, <1>10, <1>11

LEMMA NextFreeTyped ==
  ASSUME FilesTyped
  PROVE  NextFreeIndex \in Nat \ {0}
<1> DEFINE named == {q \in DOMAIN Swept : q.kind # "raw"}
           taken == {p.index : p \in named}
           from  == [p \in named |-> p.index]
           all   == taken \cup {0}
<1>1. IsFiniteSet(named) /\ named \subseteq FileName
  BY SweptTyped, FS_Subset
<1>2. \A p \in named : p.index \in Nat
  BY <1>1 DEF FileName
<1>3. IsFiniteSet(taken)
  <2>1. from \in Surjection(named, taken)
    BY DEF Surjection
  <2> HIDE DEF from, named, taken
  <2> QED BY <1>1, <2>1, FS_Surjection
<1>4. all \in SUBSET Nat /\ all # {}
  BY <1>2
<1>5. IsFiniteSet(all)
  <2> HIDE DEF taken
  <2> QED BY <1>3, FS_AddElement
<1>6. NextFreeIndex = Max(all) + 1
  BY DEF NextFreeIndex
<1> HIDE DEF all
<1>7. \E x \in all : \A y \in all : x >= y
  BY <1>4, <1>5, GreatestOf
<1> DEFINE top == Max(all)
<1>8. top \in all
  BY <1>7 DEF Max
<1> HIDE DEF top
<1>9. top \in Nat
  BY <1>4, <1>8
<1> QED BY <1>6, <1>9 DEF top

\* What was recovered is announced in some order.
LEMMA RecoveryAnnounced ==
  ASSUME FilesTyped, NEW order \in Seqs!SetToSeqs(Left)
  PROVE  LET c == RecoveryEvents(order)
         IN  /\ c \in Seq(Announced)
             /\ \A k \in 1..Len(c) :
                  /\ c[k].file \in DOMAIN Swept /\ Swept[c[k].file] = c[k].digest
                  /\ c[k].file.kind = "recovered" /\ c[k].count = CountOf(c[k].digest)
<1> DEFINE n == Cardinality(Left)
           c == RecoveryEvents(order)
<1>1. n \in Nat
  BY SweptTyped, FS_CardinalityType
<1>2. order \in [1..n -> Left]
  <2>1. Seqs!Cardinality(Left) = Cardinality(Left)
    BY DEF Seqs!Cardinality, Cardinality
  <2>2. order \in [1..Seqs!Cardinality(Left) -> Left]
    BY DEF Seqs!SetToSeqs
  <2> QED BY <2>1, <2>2
<1> HIDE DEF n
<1>3. c = [k \in 1..n |->
             [file |-> Recovered(order[k]), digest |-> segments[Partial(order[k])],
              count |-> CountOf(segments[Partial(order[k])])]]
  BY <1>2 DEF RecoveryEvents
<1> HIDE DEF c
<1>4. ASSUME NEW k \in 1..n
      PROVE  /\ c[k] \in Announced
             /\ c[k].file \in DOMAIN Swept /\ Swept[c[k].file] = c[k].digest
             /\ c[k].file.kind = "recovered" /\ c[k].count = CountOf(c[k].digest)
  <2> DEFINE i == order[k]
             t == segments[Partial(i)]
  <2>1. i \in Left
    BY <1>2
  <2>2. c[k] = [file |-> Recovered(i), digest |-> t, count |-> CountOf(t)]
    BY <1>3
  <2> HIDE DEF i
  <2>3. t \in Seq(LineText) /\ Recovered(i) \in DOMAIN Swept /\ Swept[Recovered(i)] = t
        /\ DOMAIN Swept \subseteq FileName
    BY <2>1, SweptTyped
  <2> HIDE DEF t
  <2>4. Recovered(i).kind = "recovered" /\ Recovered(i) \in FileName
    BY <2>3 DEF Recovered
  <2> QED BY <2>2, <2>3, <2>4 DEF Announced
<1>5. c \in [1..n -> Announced]
  <2> HIDE DEF Announced
  <2> QED BY <1>3, <1>4
<1>6. c \in Seq(Announced) /\ Len(c) = n
  <2>1. c \in Seq(Announced)
    BY <1>1, <1>5
  <2> QED BY <1>1, <1>5, <2>1, LenProperties
<1> QED BY <1>4, <1>6 DEF c

\* A worker starts its stream in the directory as a former one left it.
LEMMA StartKeepsLog ==
  ASSUME LogInv, StartStream
  PROVE  LogInv'
<1>0. /\ streams < MaxStreams /\ said < 2 * LineCount /\ pausing = {}
      /\ host' = "up" /\ folder' = TRUE /\ segments' = Swept /\ nextIndex' = NextFreeIndex
      /\ sunk' = <<>> /\ child' = "alive" /\ listening' = TRUE /\ inputBuffer' = <<>>
      /\ said' = IF said % 2 = 1 THEN said + 1 ELSE said
      /\ processing' = <<>> /\ appending' = "idle" /\ segment' = NoSegment
      /\ sealing' = NotSealing
      /\ ending' = [h \in Ender |-> "idle"] /\ waits' = [h \in Ender |-> 0]
      /\ broken' = FALSE /\ runs' = TRUE /\ streams' = streams + 1 /\ clock' = clock + 1
      /\ UNCHANGED <<chain, pausing, incidents>>
  BY DEF StartStream, SpawnLogcat
<1>1. PICK order \in Seqs!SetToSeqs(Left) : closed' = RecoveryEvents(order)
  BY DEF StartStream
<1>2. FilesTyped
  BY DEF LogInv, StreamInv, LogTyped
<1>3. /\ closed' \in Seq(Announced)
      /\ \A k \in 1..Len(closed') :
           /\ closed'[k].file \in DOMAIN Swept /\ Swept[closed'[k].file] = closed'[k].digest
           /\ closed'[k].file.kind = "recovered" /\ closed'[k].count = CountOf(closed'[k].digest)
  BY <1>1, <1>2, RecoveryAnnounced
<1>4. \A p \in DOMAIN segments' : p.kind # "partial"
  BY <1>0, <1>2, SweptTyped
<1>5. said' \in 0..2 * LineCount /\ said' % 2 = 0
  <2>1. said \in Nat /\ LineCount \in Nat
    BY SaidIsNatural, LogcatAssumption DEF LogInv, StreamInv, LogTyped
  <2>2. said % 2 \in {0, 1} /\ (said % 2 = 1 => (said + 1) % 2 = 0)
    BY <2>1, OddOrEven
  <2>3. said' \in Nat /\ said' <= 2 * LineCount
    BY <1>0, <2>1
  <2>4. said' % 2 = 0
    BY <1>0, <2>2
  <2>5. \A n \in Nat : n <= 2 * LineCount => n \in 0..2 * LineCount
    BY <2>1
  <2> QED BY <2>3, <2>4, <2>5
<1>6. EndedWhole'
  BY <1>0 DEF EndedWhole
<1>7. FilesTyped'
  BY <1>0, <1>2, SweptTyped DEF FilesTyped
<1>8. PipeTyped'
  <2>1. <<>> \in LineText /\ <<>> \in Seq(Queued)
    BY DEF LineText
  <2> QED BY <1>0, <1>5, <2>1 DEF PipeTyped
<1>9. WriterTyped'
  <2>1. <<>> \in Seq(LineText) /\ 0 \in 0..SegmentLimit
    BY LogcatAssumption
  <2>2. nextIndex' \in Nat \ {0}
    BY <1>0, <1>2, NextFreeTyped
  <2> QED BY <1>0, <1>3, <2>1, <2>2 DEF WriterTyped, NoSegment, NotSealing
<1>10. EndsTyped'
  BY <1>0 DEF EndsTyped
<1>11. WatchInv'
  <2>1. /\ clock \in Nat /\ streams \in 0..MaxStreams /\ clock <= MaxTicks + streams
        /\ MaxTicks \in Nat /\ MaxStreams \in Nat
        /\ chain \in Seq(0..clock) /\ incidents \subseteq 0..clock
    BY LogcatAssumption DEF LogInv, StreamInv, WatchInv
  <2>2. 0..clock \subseteq 0..(clock + 1) /\ clock + 1 \in Nat
        /\ clock + 1 <= MaxTicks + (streams + 1) /\ streams + 1 \in 0..MaxStreams
    BY <1>0, <2>1
  <2>3. chain \in Seq(0..(clock + 1))
    BY <2>1, <2>2, SeqMonotonic
  <2> QED BY <1>0, <2>1, <2>2, <2>3 DEF WatchInv
<1>12. PipeInv'
  BY <1>0, <1>5, <1>6 DEF PipeInv, Ender
<1>13. OffInv' /\ AppendInv' /\ FallInv'
  BY <1>0 DEF OffInv, AppendInv, FallInv
<1>14. RecordsInv'
  <2>1. Len(<<>>) = 0
    OBVIOUS
  <2> QED BY <1>0, <2>1 DEF RecordsInv
<1>15. OrderlyInv'
  BY <1>0 DEF OrderlyInv, NotSealing, Ender
<1>16. KeptInv'
  <2>1. \A i : Content(Partial(i))' = <<>>
    BY <1>4 DEF Content, Partial
  <2>2. InFile' = <<>> /\ Pending' = <<>>
    BY <1>0, <2>1 DEF InFile, Pending, NotSealing
  <2>3. PartialsInv'
    BY <1>4 DEF PartialsInv
  <2>4. SealedInv'
    BY <1>0, <1>3 DEF SealedInv, IsSealed
  <2>5. OpenInv'
    BY <1>0 DEF OpenInv, NotSealing
  <2>6. SpelledInv'
    <3> DEFINE n == Len(closed')
               f == [i \in 0..n |-> <<>>]
    <3>1. n \in Nat
      BY <1>3, LenProperties
    <3>2. <<>> \in Seq(LineText) /\ <<>> \o <<>> = <<>>
      OBVIOUS
    <3>3. \A k \in 1..n : RecordsOf(closed'[k]) = <<>>
      BY <1>3 DEF RecordsOf
    <3> HIDE DEF n
    <3>4. /\ f \in [0..n -> Seq(LineText)] /\ f[0] = <<>> /\ f[n] = <<>>
          /\ \A i \in 1..n : f[i] = <<>> /\ f[i - 1] = <<>>
      BY <3>1, <3>2
    <3> HIDE DEF f
    <3>5. Joins(f, closed')
      BY <3>2, <3>3, <3>4 DEF Joins, n
    <3>6. sunk' = f[Len(closed')] \o InFile' \o Pending'
      BY <1>0, <2>2, <3>2, <3>4 DEF n
    <3> QED BY <3>5, <3>6 DEF SpelledInv
  <2> QED BY <2>3, <2>4, <2>5, <2>6 DEF KeptInv
<1> QED BY <1>7, <1>8, <1>9, <1>10, <1>11, <1>12, <1>13, <1>14, <1>15, <1>16
        DEF LogInv, StreamInv, LogTyped

LEMMA LogInitHolds == LogcatInit => LogInv
<1> SUFFICES ASSUME LogcatInit PROVE LogInv
  OBVIOUS
<1>0. /\ host = "up" /\ folder = FALSE /\ segments = <<>> /\ said = 0 /\ StreamInit
      /\ chain = <<>> /\ pausing = {} /\ incidents = {} /\ runs = FALSE /\ clock = 0 /\ streams = 0
  BY DEF LogcatInit
<1>1. LogTyped
  <2>1. DOMAIN <<>> = {}
    OBVIOUS
  <2>2. /\ <<>> \in LineText /\ <<>> \in Seq(Queued) /\ <<>> \in Seq(LineText) /\ <<>> \in Seq(Announced)
        /\ 0 \in 0..SegmentLimit /\ 0 \in 0..2 * LineCount
    BY LogcatAssumption DEF LineText
  <2>3. FilesTyped
    BY <1>0, <2>1, FS_EmptySet DEF FilesTyped
  <2>4. PipeTyped
    BY <1>0, <2>2 DEF StreamInit, PipeTyped
  <2>5. WriterTyped
    BY <1>0, <2>2 DEF StreamInit, WriterTyped, NoSegment, NotSealing
  <2>6. EndsTyped
    BY <1>0 DEF StreamInit, EndsTyped
  <2> QED BY <2>3, <2>4, <2>5, <2>6 DEF LogTyped
<1>2. WatchInv
  <2>1. <<>> \in Seq(0..clock)
    OBVIOUS
  <2>2. MaxTicks \in Nat /\ MaxStreams \in Nat
    BY LogcatAssumption
  <2>3. streams \in 0..MaxStreams /\ clock \in Nat /\ clock <= MaxTicks + streams
    BY <1>0, <2>2
  <2> QED BY <1>0, <2>1, <2>3 DEF WatchInv
<1>3. PipeInv /\ OffInv /\ AppendInv
  BY <1>0 DEF StreamInit, PipeInv, OffInv, AppendInv, Ender
<1>4. RecordsInv
  <2>1. Len(<<>>) = 0
    OBVIOUS
  <2> QED BY <1>0, <2>1 DEF RecordsInv, StreamInit
<1>5. OrderlyInv
  BY <1>0 DEF StreamInit, OrderlyInv, NotSealing, Ender
<1>6. KeptInv /\ FallInv
  BY <1>0 DEF StreamInit, KeptInv, InUse, FallInv
<1> QED BY <1>1, <1>2, <1>3, <1>4, <1>5, <1>6 DEF LogInv, StreamInv

LEMMA LogNextHolds == LogInv /\ [LogcatNext]_logcatVars => LogInv'
<1> SUFFICES ASSUME LogInv, [LogcatNext]_logcatVars PROVE LogInv'
  OBVIOUS
<1>1. CASE StopStream \/ OperatorPauses \/ MonitorDrops \/ MonitorRecords \/ MonitorPauses
           \/ LogcatTick \/ MonitorCollides \/ HostCrashes
  BY <1>1, WatchingKeepsLog
<1>2. CASE HandleChunk \/ HandleProcessClose
  BY <1>2, ChunkKeepsLog, CloseKeepsLog
<1>3. CASE \E expired \in BOOLEAN : AppendBegins(expired)
  BY <1>3, AppendBeginsKeepsLog
<1>4. CASE AppendRefused \/ AppendFails \/ AppendMissesItsSegment
  BY <1>4, RefusalsKeepLog
<1>5. CASE AppendWrites \/ AppendWritesAfresh \/ AppendEnds
  BY <1>5, WritesKeepLog, EndKeepsLog
<1>6. CASE \E h \in Ender : CloseSegment(h)
  BY <1>6, FlushedKeepsLog
<1>7. CASE CloseRejects \/ SealFails
  BY <1>7, FallsKeepLog
<1>8. CASE SealReads \/ SealRenames \/ SealTells \/ Discard
  BY <1>8, SealReadsKeepsLog, SealRenamesKeepsLog, SealTellsKeepsLog, DiscardKeepsLog
<1>9. CASE StartStream
  BY <1>9, StartKeepsLog
<1>10. CASE UNCHANGED logcatVars
  <2>1. UNCHANGED <<host, onDisk, pipe, writer, ends, heard, watch, clock, streams>>
    BY <1>10 DEF logcatVars
  <2>2. WatchInv' /\ (host # "up" => chain' = <<>> /\ pausing' = {} /\ UNCHANGED <<runs, incidents>>)
    BY <2>1 DEF LogInv, StreamInv, WatchInv, OffInv, watch
  <2> QED BY <2>1, <2>2, WatchKeepsLog
<1> QED BY <1>1, <1>2, <1>3, <1>4, <1>5, <1>6, <1>7, <1>8, <1>9, <1>10 DEF LogcatNext

\* What the invariant says is what the run checks.
LEMMA LogIsSound == LogInv => LogIsKept
<1> SUFFICES ASSUME LogInv PROVE LogIsKept
  OBVIOUS
<1>1. LogTyped /\ WatchInv /\ OffInv /\ OrderlyInv /\ KeptInv /\ FallInv
  BY DEF LogInv, StreamInv
<1>2. LogcatTypeOK
  <2>1. \A p \in DOMAIN segments : p.kind \in {"partial", "raw", "recovered"}
    BY <1>1 DEF LogTyped, FilesTyped, FileName
  <2>2. segment.records \in 0..SegmentLimit /\ sealing.at \in {"no", "read", "rename", "tell"}
        /\ appending \in {"idle", "seal", "write", "count"}
    BY <1>1 DEF LogTyped, WriterTyped
  <2>3. incidents \subseteq 0..MaxTicks + MaxStreams
    <3>1. clock \in Nat /\ clock <= MaxTicks + streams /\ streams <= MaxStreams /\ streams \in Nat
          /\ MaxTicks \in Nat /\ MaxStreams \in Nat /\ incidents \subseteq 0..clock
      BY <1>1, LogcatAssumption DEF WatchInv
    <3>2. 0..clock \subseteq 0..MaxTicks + MaxStreams
      BY <3>1
    <3> QED BY <3>1, <3>2
  <2>4. folder \in BOOLEAN /\ listening \in BOOLEAN /\ broken \in BOOLEAN /\ runs \in BOOLEAN
        /\ host \in {"up", "crashed", "fell"} /\ child \in {"none", "alive", "killed", "closed"}
        /\ said \in 0..2 * LineCount
        /\ ending \in [Ender -> {"idle", "flush", "join", "done", "failed"}]
        /\ waits \in [Ender -> Nat] /\ pausing \subseteq {"monitor", "operator"}
    BY <1>1 DEF LogTyped, FilesTyped, PipeTyped, EndsTyped, WatchInv
  <2> QED BY <2>1, <2>2, <2>3, <2>4 DEF LogcatTypeOK
<1>3. closed \in Seq(Announced) /\ Len(closed) \in Nat /\ DOMAIN closed = 1..Len(closed)
  BY <1>1, LenProperties DEF LogTyped, WriterTyped
<1>4. SegmentsAreAsAnnounced
  <2> SUFFICES ASSUME folder, EndedWhole PROVE SegmentsMatch
    BY DEF SegmentsAreAsAnnounced
  <2>1. CASE child = "none"
    <3>1. closed = <<>>
      BY <1>1, <2>1 DEF OffInv, StreamInit
    <3> QED BY <3>1 DEF SegmentsMatch
  <2>2. CASE child # "none"
    <3>1. SealedInv
      BY <1>1, <2>2 DEF KeptInv, InUse
    <3> QED BY <1>3, <3>1 DEF SealedInv, IsSealed, SegmentsMatch
  <2> QED BY <2>1, <2>2
<1>5. StoppedIsSealed
  <2> SUFFICES ASSUME host = "up", folder, ending["stop"] = "done", Settled, EndedWhole
               PROVE  /\ Seqs!FlattenSeq([k \in DOMAIN closed |->
                              IF closed[k].file.kind = "raw" THEN segments[closed[k].file]
                              ELSE <<>>]) = sunk
                      /\ \A p \in DOMAIN segments : p.kind # "partial"
    BY DEF StoppedIsSealed
  <2>1. child # "none"
    BY <1>1 DEF OffInv, StreamInit, Ender
  <2>2. PartialsInv /\ SealedInv /\ OpenInv /\ SpelledInv
    BY <1>1, <2>1 DEF KeptInv, InUse
  <2>3. segment = NoSegment /\ processing = <<>> /\ sealing = NotSealing
    BY <1>1 DEF OrderlyInv, Settled, Ender
  <2>4. appending = "idle"
    BY <2>3 DEF LogInv, StreamInv, AppendInv
  <2>5. \A p \in DOMAIN segments : p.kind # "partial"
    BY <2>2, <2>3 DEF PartialsInv
  <2>6. InFile = <<>> /\ Pending = <<>>
    BY <2>3, <2>4, <2>5 DEF InFile, Pending, Content, Partial, NotSealing
  <2>7. PICK f : Joins(f, closed) /\ sunk = f[Len(closed)] \o InFile \o Pending
    BY <2>2 DEF SpelledInv
  <2>8. sunk = f[Len(closed)]
    <3> DEFINE a == f[Len(closed)]
    <3>1. a \in Seq(LineText)
      <4>1. f \in [0..Len(closed) -> Seq(LineText)] /\ Len(closed) \in 0..Len(closed)
        BY <1>3, <2>7 DEF Joins
      <4> QED BY <4>1
    <3>2. sunk = a \o <<>> \o <<>>
      BY <2>6, <2>7
    <3> HIDE DEF a
    <3>3. a \o <<>> = a
      BY <3>1, ConcatEmptySeq
    <3> QED BY <3>2, <3>3 DEF a
  <2>9. Seqs!FlattenSeq([k \in DOMAIN closed |-> RecordsOf(closed[k])]) = sunk
    BY <1>3, <2>7, <2>8, JoinsAreFlat
  <2>10. [k \in DOMAIN closed |-> RecordsOf(closed[k])]
         = [k \in DOMAIN closed |->
              IF closed[k].file.kind = "raw" THEN segments[closed[k].file] ELSE <<>>]
    BY <1>3, <2>2 DEF RecordsOf, SealedInv, IsSealed
  <2> QED BY <2>5, <2>9, <2>10
<1>6. ServerOutlivesTheLog
  BY <1>1 DEF FallInv, BlankSaid, ServerOutlivesTheLog
<1> QED BY <1>2, <1>4, <1>5, <1>6 DEF LogIsKept

(* However many lines a device writes, however the stream is stopped,      *)
(* rotated, restarted and cut off, and wherever the server goes down: the  *)
(* records read are, in order, those of the sealed segments, each of which *)
(* is what it was announced as, and the log ends the server in the three   *)
(* named cases only (logcat-stream.ts, logcat-fault-monitor.ts).           *)
THEOREM LogHolds == LogcatSpec => []LogIsKept
<1>1. LogcatInit => LogInv
  BY LogInitHolds
<1>2. LogInv /\ [LogcatNext]_logcatVars => LogInv'
  BY LogNextHolds
<1>3. LogInv => LogIsKept
  BY LogIsSound
<1> QED BY <1>1, <1>2, <1>3, PTL DEF LogcatSpec

-----------------------------------------------------------------------------
(* The composition that the run explores.                                  *)

LEMMA PartsAtFirst ==
  StorageInit => CleanupInit /\ RecordingInit /\ PollInit /\ Init /\ GestureInit
                 /\ LogcatInit /\ SnapshotInit
BY DEF StorageInit

LEMMA PartsStep ==
  [StorageNext]_storageVars =>
    /\ [CleanupNext]_cleanupVars /\ [RecordingNext]_recordingVars /\ [PollNext]_pollVars
    /\ [Next]_vars /\ [GestureNext]_gestureVars /\ [LogcatNext]_logcatVars
    /\ [SnapshotNext]_snapshotVars
<1> SUFFICES ASSUME [StorageNext]_storageVars
             PROVE  /\ [CleanupNext]_cleanupVars /\ [RecordingNext]_recordingVars
                    /\ [PollNext]_pollVars /\ [Next]_vars /\ [GestureNext]_gestureVars
                    /\ [LogcatNext]_logcatVars /\ [SnapshotNext]_snapshotVars
  OBVIOUS
<1>1. CASE StorageNext
  BY <1>1 DEF StorageNext
<1>2. CASE UNCHANGED storageVars
  BY <1>2 DEF storageVars
<1> QED BY <1>1, <1>2

(* Each of the parts behaves by its own specification, so that what holds  *)
(* of it alone holds of it in the run (MCStorage.tla).                     *)
LEMMA PartsBehave ==
  StorageSpec => CleanupSpec /\ RecordingSpec /\ PollSpec /\ Spec /\ GestureSpec
                 /\ LogcatSpec /\ SnapshotSpec
BY PartsAtFirst, PartsStep, PTL
   DEF StorageSpec, CleanupSpec, RecordingSpec, PollSpec, Spec, GestureSpec,
       LogcatSpec, SnapshotSpec

(* What is started is brought to its end: no interval of the poller lives  *)
(* on, for any number of starts, and no recording of an ended run is left  *)
(* pending, for any number of runs, handlers and takes, but where two runs *)
(* met at the recorder (storage-pressure-poller.ts,                        *)
(* leader-video-recorder.ts).                                              *)
THEOREM NothingIsLeftRunning == StorageSpec => []NothingRunsOn
<1>1. RecordingSpec => [](RecordingTypeOK /\ SettledAtTheEnd)
  BY RecordingsSettle
<1>2. RecordingTypeOK /\ SettledAtTheEnd /\ PollTypeOK /\ OneIntervalWhileRunning => NothingRunsOn
  BY DEF NothingRunsOn
<1> QED BY <1>1, <1>2, PartsBehave, IntervalsHold, PTL
==============================================================================
