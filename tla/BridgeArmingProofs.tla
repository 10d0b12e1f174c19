------------------------- MODULE BridgeArmingProofs -------------------------
(***************************************************************************)
(* What the host takes an arm for is what it is, for any actions, shapes,  *)
(* screens, workers and launches of the app, and whichever clock is ahead. *)
(***************************************************************************)
EXTENDS BridgeArming, SequenceTheorems, FiniteSetTheorems, TLAPS

Live      == {"arming", "acting", "waiting"}
Status    == {"idle", "connecting", "ready", "error", "closed"}
AskedArm  == [screen : Screens, app : 1..MaxApps]
Input     == [shape : Shapes, screen : Screens]

DownLine ==
  [type : {"QA_PING"}, by : Sessions] \cup [type : {"QA_ARM"}, action : Actions, screen : Screens]
    \cup [type : {"QA_DISARM"}]
AnswerLine ==
  [type : {"QA_ARMED", "QA_REJECTED", "QA_ACK"}, action : Actions, screen : Screens, app : 1..MaxApps]
UpLine ==
  [type : {"QA_HELLO"}, app : 1..MaxApps] \cup [type : {"QA_STATE"}, screen : Screens]
    \cup [type : {"QA_PONG"}, to : Sessions] \cup [type : {"malformed"}] \cup AnswerLine

AppTyped ==
  /\ app \in 1..MaxApps /\ screen \in Screens /\ gate \in Arm \cup {None}
  /\ client \in 0..MaxSessions /\ reader \in 0..MaxSessions /\ accepted \in 0..MaxSessions
  /\ greeted \in BOOLEAN /\ published \in 0..MaxScreen
  /\ expired \subseteq Actions /\ seen \subseteq Actions
  /\ observed \in [Actions -> Input \cup {None}]

WireTyped ==
  /\ wire \in BOOLEAN
  /\ inbound \in Seq(DownLine) /\ down \in [Sessions -> Seq(DownLine)] /\ up \in Seq(UpLine)

HostTyped ==
  /\ session \in 0..MaxSessions /\ status \in Status
  /\ hello \in 0..MaxApps /\ state \in 0..MaxScreen
  /\ pings \in 0..Samples /\ pinging \in BOOLEAN

ArmsTyped ==
  /\ leases \subseteq Actions /\ timers \subseteq Actions
  /\ asked \in [Actions -> AskedArm \cup {None}]
  /\ outcome \in [Actions -> {"open", "armed", "acked", "rejected"}]
  /\ act \in [Actions -> Live \cup Verdicts \cup {"idle"}]

BridgeTyped == AppTyped /\ WireTyped /\ HostTyped /\ ArmsTyped

-----------------------------------------------------------------------------
(* The connection: at each end of it, what may still come.                 *)

\* The present worker has not been greeted.
Ungreeted == accepted < session \/ (client = session /\ session # 0 /\ ~greeted)

Says(line, type) == line.type = type
NoHello(q)  == \A i \in DOMAIN q : ~Says(q[i], "QA_HELLO")
OneHello(q) == \A i, j \in DOMAIN q : Says(q[i], "QA_HELLO") /\ Says(q[j], "QA_HELLO") => i = j

EndsAreSound ==
  /\ client <= accepted /\ reader <= accepted /\ accepted <= session
  /\ wire => status \in {"connecting", "ready"}
  /\ status # "idle" => session # 0
  /\ wire /\ accepted = session => client = session /\ reader = session

HandshakeIsSound ==
  /\ pinging => pings < Samples
  /\ state # 0 => hello # 0
  /\ status = "ready" => state # 0
  /\ Ungreeted => hello = 0 /\ NoHello(up)
  /\ OneHello(up) /\ (hello # 0 => NoHello(up))

ConnectionIsSound == EndsAreSound /\ HandshakeIsSound

(* The arms: every line, the gate and every observation are of an arm that *)
(* was asked for, on the screen it was asked for.                          *)
IsOf(line, a) == line.action = a
AskedFor(g)   == asked[g.action] # None /\ asked[g.action].screen = g.screen
Answers       == {"QA_ARMED", "QA_REJECTED", "QA_ACK"}

OrdersAreAskedFor(q) == \A i \in DOMAIN q : Says(q[i], "QA_ARM") => AskedFor(q[i])
AnswersWell(l) ==
  l.type \in Answers => AskedFor(l) /\ (Says(l, "QA_ACK") => observed[l.action] # None)

OrdersAreOfArms  == OrdersAreAskedFor(inbound) /\ \A s \in Sessions : OrdersAreAskedFor(down[s])
GateIsOfArm      == gate # None => AskedFor(gate)
AnswersAreOfArms == \A i \in DOMAIN up : AnswersWell(up[i])
InputsAreOfArms  ==
  \A a \in Actions : observed[a] # None =>
    asked[a] # None /\ observed[a] = [shape |-> ShapeOf[a], screen |-> asked[a].screen]
OutcomesAreOfInputs ==
  /\ \A a \in Actions : outcome[a] = "acked" => observed[a] # None
  /\ \A a \in Actions : act[a] = "performed" => outcome[a] = "acked"

ArmsAreAskedFor ==
  OrdersAreOfArms /\ GateIsOfArm /\ AnswersAreOfArms /\ InputsAreOfArms /\ OutcomesAreOfInputs

(* The leases: one dispatch at a time holds one, and only over this bridge. *)
LeaseFits(a) ==
  \/ act[a] = "arming" /\ outcome[a] = "open"
  \/ act[a] = "acting" /\ outcome[a] \in {"armed", "acked"}
  \/ act[a] = "waiting" /\ outcome[a] = "armed"

LeasesAreHeld ==
  /\ \A a, b \in Actions : a < b /\ act[b] # "idle" => act[a] \in Verdicts
  /\ \A a \in Actions : act[a] = "idle" => asked[a] = None /\ outcome[a] = "open"
  /\ timers = leases
  /\ \A a \in leases : LeaseFits(a) /\ status = "ready" /\ asked[a] # None /\ asked[a].app = hello
  /\ HostAhead => \A a \in Actions : outcome[a] \in {"open", "rejected"}

(* The way of the arm of a lease.  Until the app has handled the QA_ARM it  *)
(* is the last order on its way; from then on no order is.                 *)
Queue  == inbound \o down[session]
Orders == {"QA_ARM", "QA_DISARM"}

Arming(l, a)  == Says(l, "QA_ARM") /\ IsOf(l, a)
Armed(l, a)   == Says(l, "QA_ARMED") /\ IsOf(l, a)
Closing(l, a) == l.type \in {"QA_REJECTED", "QA_ACK"} /\ IsOf(l, a)

NoOrders(q)   == \A i \in DOMAIN q : q[i].type \notin Orders
Ordered(q, a) ==
  \E i \in DOMAIN q :
    Arming(q[i], a) /\ \A j \in DOMAIN q : q[j].type \in Orders /\ j # i => j < i /\ ~Arming(q[j], a)

NoArmed(q, a)   == \A i \in DOMAIN q : ~Armed(q[i], a)
OneArmed(q, a)  == \A i, j \in DOMAIN q : Armed(q[i], a) /\ Armed(q[j], a) => i = j
Closed(q, a)    == \E i \in DOMAIN q : Closing(q[i], a)
NoAnswer(q, a)  == NoArmed(q, a) /\ ~Closed(q, a)

OnItsWay(a) ==
  /\ Ordered(Queue, a)
  /\ NoAnswer(up, a) /\ outcome[a] = "open" /\ (gate # None => gate.action # a)
AtTheGate(a) ==
  /\ NoOrders(Queue)
  /\ (gate # None /\ gate.action = a) \/ outcome[a] = "acked" \/ Closed(up, a) \/ HostAhead

ArmIsTracked(a) ==
  /\ wire => OnItsWay(a) \/ AtTheGate(a)
  /\ OneArmed(up, a) /\ (outcome[a] # "open" => NoArmed(up, a))

LeasesAreTracked == \A a \in leases : ArmIsTracked(a)

BridgeInv ==
  BridgeTyped /\ ConnectionIsSound /\ ArmsAreAskedFor /\ LeasesAreHeld /\ LeasesAreTracked

-----------------------------------------------------------------------------
(* Sequences: what is where when one is shortened, lengthened or joined.   *)
LEMMA TailAt ==
  ASSUME NEW S, NEW q \in Seq(S), q # <<>>
  PROVE  /\ Tail(q) \in Seq(S) /\ 1 \in DOMAIN q /\ Head(q) = q[1] /\ Head(q) \in S
         /\ \A i \in DOMAIN Tail(q) : i \in Nat /\ i # 0 /\ i + 1 \in DOMAIN q /\ Tail(q)[i] = q[i + 1]
         /\ \A i \in DOMAIN q : i \in Nat /\ (i # 1 => i - 1 \in DOMAIN Tail(q) /\ Tail(q)[i - 1] = q[i])
OBVIOUS

LEMMA AppendAt ==
  ASSUME NEW S, NEW q \in Seq(S), NEW x \in S
  PROVE  /\ Append(q, x) \in Seq(S)
         /\ Len(q) + 1 \in DOMAIN Append(q, x) /\ Append(q, x)[Len(q) + 1] = x
         /\ Len(q) + 1 \notin DOMAIN q /\ Len(q) + 1 \in Nat
         /\ \A i \in DOMAIN q : i \in Nat /\ i < Len(q) + 1 /\ i \in DOMAIN Append(q, x) /\ Append(q, x)[i] = q[i]
         /\ \A i \in DOMAIN Append(q, x) : i \in DOMAIN q \/ i = Len(q) + 1
OBVIOUS

LEMMA JoinAt ==
  ASSUME NEW S, NEW p \in Seq(S), NEW q \in Seq(S)
  PROVE  /\ p \o q \in Seq(S) /\ Len(p) \in Nat
         /\ \A i \in DOMAIN p : i \in Nat /\ i \in DOMAIN (p \o q) /\ (p \o q)[i] = p[i] /\ i <= Len(p)
         /\ \A i \in DOMAIN q : i \in Nat /\ Len(p) + i \in DOMAIN (p \o q) /\ (p \o q)[Len(p) + i] = q[i]
         /\ \A i \in DOMAIN (p \o q) :
              i \in Nat /\ (i \in DOMAIN p \/ (i > Len(p) /\ i - Len(p) \in DOMAIN q))
OBVIOUS

\* What is read is moved from one part of the queue to the other.
LEMMA ReadKeepsJoin ==
  ASSUME NEW S, NEW p \in Seq(S), NEW q \in Seq(S), q # <<>>
  PROVE  Append(p, Head(q)) \o Tail(q) = p \o q
OBVIOUS

LEMMA TailOfJoin ==
  ASSUME NEW S, NEW p \in Seq(S), NEW q \in Seq(S), p # <<>>
  PROVE  /\ p \o q # <<>> /\ Tail(p \o q) = Tail(p) \o q /\ Head(p \o q) = Head(p)
OBVIOUS

LEMMA JoinJoins ==
  ASSUME NEW S, NEW p \in Seq(S), NEW q \in Seq(S), NEW r \in Seq(S)
  PROVE  p \o (q \o r) = (p \o q) \o r
OBVIOUS

LEMMA JoinOne ==
  ASSUME NEW S, NEW p \in Seq(S), NEW x \in S
  PROVE  p \o <<x>> = Append(p, x)
OBVIOUS

LEMMA NoLines ==
  ASSUME NEW S, NEW p \in Seq(S)
  PROVE  p \o <<>> = p
OBVIOUS
-----------------------------------------------------------------------------
(* The lines.                                                              *)
LEMMA LinesAre ==
  ASSUME NEW a \in Actions, NEW s \in Screens, NEW k \in Sessions, NEW g \in 1..MaxApps
  PROVE  /\ ArmLine(a, s) \in DownLine /\ Disarm \in DownLine
         /\ [type |-> "QA_PING", by |-> k] \in DownLine
         /\ Pong(k) \in UpLine /\ Malformed \in UpLine
         /\ [type |-> "QA_HELLO", app |-> g] \in UpLine /\ [type |-> "QA_STATE", screen |-> s] \in UpLine
BY DEF ArmLine, Disarm, DownLine, Pong, Malformed, UpLine

LEMMA AnswersAre ==
  ASSUME NEW type \in Answers, NEW g \in Arm, app \in 1..MaxApps
  PROVE  /\ Answer(type, g) \in UpLine /\ Answer(type, g).type = type
         /\ Answer(type, g).action = g.action /\ Answer(type, g).screen = g.screen
         /\ g.action \in Actions /\ g.screen \in Screens
BY DEF Answer, Answers, Arm, UpLine, AnswerLine

LEMMA LineIs ==
  ASSUME NEW l \in UpLine
  PROVE  /\ l.type \in Answers => l.action \in Actions /\ l.screen \in Screens /\ l.app \in 1..MaxApps
         /\ Says(l, "QA_HELLO") => l.app \in 1..MaxApps
         /\ Says(l, "QA_STATE") => l.screen \in Screens
BY DEF UpLine, AnswerLine, Answers, Says

LEMMA OrderIs ==
  ASSUME NEW l \in DownLine
  PROVE  /\ Says(l, "QA_PING") => l.by \in Sessions
         /\ Says(l, "QA_ARM") => l.action \in Actions /\ l.screen \in Screens
BY DEF DownLine, Says

-----------------------------------------------------------------------------
(* What a step leaves alone.                                               *)
LEMMA HostLeavesDevice ==
  ASSUME HostStep
  PROVE  UNCHANGED <<device, seen>>
BY DEF HostStep, Connect, Close, HandleClose, HandleHello, HandleState, HandleMalformed, SendPing,
       HandlePong, HandleArmed, HandleAck, HandleRejected, Line, Ask, AskUnready, TimerFires,
       ExecuteReturns, ExecuteThrows

LEMMA DeviceLeavesHost ==
  ASSUME DeviceStep \/ Surroundings
  PROVE  UNCHANGED <<host, armed>>
BY DEF DeviceStep, Surroundings, Accept, Read, ReaderEnds, WriteFails, Greet, HandlePing, HandleArm,
       HandleDisarm, Handle, PublishState, Gesture, Expire, StrayTouch, Observe, ScreenChanges,
       AppRestarts, LinkBreaks

\* Every step of the host that takes leases away takes them as RemoveLeases does.
LEMMA RemovedIs ==
  ASSUME ArmsTyped, NEW S, NEW disarms, RemoveLeases(S, disarms)
  PROVE  /\ ArmsTyped' /\ leases' = leases \ S /\ timers' = timers \ S /\ asked' = asked
         /\ \A a \in Actions : outcome'[a] = IF a \in S /\ outcome[a] # "acked" THEN "rejected" ELSE outcome[a]
         /\ \A a \in Actions : act'[a] = IF a \in S /\ act[a] = "arming" THEN "refused"
                                ELSE IF a \in S /\ act[a] = "waiting" THEN "failed" ELSE act[a]
BY DEF ArmsTyped, RemoveLeases, StopTimeout, Rejected, Abandoned, Live, Verdicts

LEMMA SentIs ==
  ASSUME BridgeTyped, wire => session # 0, NEW lines \in Seq(DownLine), Sent(lines)
  PROVE  /\ down' \in [Sessions -> Seq(DownLine)]
         /\ \A s \in Sessions : down'[s] = IF wire /\ s = session THEN down[s] \o lines ELSE down[s]
<1>1. session \in 0..MaxSessions /\ wire \in BOOLEAN /\ down \in [Sessions -> Seq(DownLine)]
  BY DEF BridgeTyped, HostTyped, WireTyped
<1>2. CASE ~wire
  BY <1>1, <1>2 DEF Sent
<1>3. CASE wire
  <2>1. session \in Sessions
    BY <1>1, <1>3, BridgeAssumption DEF Sessions
  <2>2. down' = [down EXCEPT ![session] = down[session] \o lines]
    BY <1>3 DEF Sent
  <2>3. down[session] \o lines \in Seq(DownLine)
    BY <1>1, <2>1, JoinAt
  <2> QED BY <1>1, <1>3, <2>1, <2>2, <2>3
<1> QED BY <1>1, <1>2, <1>3

LEMMA DisarmsAre ==
  ASSUME ArmsTyped, NEW S
  PROVE  /\ [i \in 1..Cardinality(S \cap leases) |-> Disarm] \in Seq(DownLine)
         /\ <<>> \in Seq(DownLine) /\ <<Disarm>> \in Seq(DownLine)
         /\ S \cap leases = {} => [i \in 1..Cardinality(S \cap leases) |-> Disarm] = <<>>
<1>1. IsFiniteSet(Actions)
  BY FS_Interval, BridgeAssumption DEF Actions
<1>2. Cardinality(S \cap leases) \in Nat
  BY <1>1, FS_Subset, FS_CardinalityType DEF ArmsTyped
<1>3. Disarm \in DownLine
  BY DEF Disarm, DownLine
<1>4. S \cap leases = {} => Cardinality(S \cap leases) = 0
  BY FS_EmptySet
<1>5. ASSUME NEW n \in Nat
      PROVE  [i \in 1..n |-> Disarm] \in Seq(DownLine) /\ (n = 0 => [i \in 1..n |-> Disarm] = <<>>)
  <2> DEFINE line == Disarm
  <2>1. line \in DownLine
    BY <1>3
  <2> HIDE DEF line
  <2>2. [i \in 1..n |-> line] \in Seq(DownLine) /\ (n = 0 => [i \in 1..n |-> line] = <<>>)
    BY <2>1
  <2> QED BY <2>2 DEF line
<1>6. <<>> \in Seq(DownLine) /\ <<Disarm>> \in Seq(DownLine)
  BY <1>3
<1> QED BY <1>2, <1>4, <1>5, <1>6

LEMMA WrittenIs ==
  ASSUME up \in Seq(UpLine), NEW line \in UpLine, Written(line)
  PROVE  up' \in Seq(UpLine) /\ (up' = up \/ (up' = Append(up, line) /\ client = session /\ wire))
BY AppendAt DEF Written
-----------------------------------------------------------------------------
(* What the app does with an input.                                        *)
LEMMA ObserveIs ==
  ASSUME NEW shape, Observe(shape)
  PROVE  /\ UNCHANGED <<app, screen, client, greeted, published, reader, accepted, inbound, expired,
                        wire, down, host, armed>>
         /\ \/ gate = None /\ UNCHANGED <<gate, observed>> /\ (UNCHANGED up \/ Written(Malformed))
            \/ /\ gate # None /\ gate' \in {gate, None} /\ UNCHANGED observed
               /\ Written(Answer("QA_REJECTED", gate))
            \/ /\ gate # None /\ gate' = None /\ Written(Answer("QA_ACK", gate))
               /\ observed' = [observed EXCEPT ![gate.action] =
                                 [shape |-> ShapeOf[gate.action], screen |-> gate.screen]]
<1> DEFINE none == gate = None /\ UNCHANGED <<gate, observed>> /\ (UNCHANGED up \/ Written(Malformed))
           late == /\ gate # None /\ gate' \in {gate, None} /\ UNCHANGED observed
                   /\ Written(Answer("QA_REJECTED", gate))
           fits == /\ gate # None /\ gate' = None /\ Written(Answer("QA_ACK", gate))
                   /\ observed' = [observed EXCEPT ![gate.action] =
                                     [shape |-> ShapeOf[gate.action], screen |-> gate.screen]]
<1>1. UNCHANGED <<app, screen, client, greeted, published, reader, accepted, inbound, expired,
                  wire, down, host, armed>>
  BY DEF Observe
<1>2. CASE gate = None
  BY <1>2 DEF Observe
<1>3. CASE gate # None /\ ~(gate.action \notin expired /\ Fits(shape))
  BY <1>3 DEF Observe
<1>4. CASE gate # None /\ gate.action \notin expired /\ Fits(shape)
  BY <1>4 DEF Observe, Fits
<1> QED BY <1>1, <1>2, <1>3, <1>4

LEMMA ObserveWrites ==
  ASSUME BridgeTyped, NEW shape, Observe(shape)
  PROVE  /\ up' \in Seq(UpLine)
         /\ gate' \in Arm \cup {None}
         /\ observed' \in [Actions -> Input \cup {None}]
<1>1. app \in 1..MaxApps /\ gate \in Arm \cup {None} /\ observed \in [Actions -> Input \cup {None}]
      /\ up \in Seq(UpLine)
  BY DEF BridgeTyped, AppTyped, WireTyped
<1>2. Malformed \in UpLine
  BY DEF Malformed, UpLine
<1>3. gate # None => /\ gate \in Arm /\ gate.action \in Actions
                     /\ [shape |-> ShapeOf[gate.action], screen |-> gate.screen] \in Input
  BY <1>1, BridgeAssumption DEF Arm, Input
<1>4. gate # None => Answer("QA_REJECTED", gate) \in UpLine /\ Answer("QA_ACK", gate) \in UpLine
  BY <1>1, <1>3, AnswersAre DEF Answers
<1>5. up' \in Seq(UpLine)
  BY <1>1, <1>2, <1>4, ObserveIs, WrittenIs
<1>6. gate' \in Arm \cup {None} /\ observed' \in [Actions -> Input \cup {None}]
  BY <1>1, <1>3, ObserveIs
<1> QED BY <1>5, <1>6

LEMMA AppStaysTyped ==
  ASSUME BridgeTyped, Next
  PROVE  AppTyped'
<1> USE DEF BridgeTyped
<1>1. CASE HostStep
  BY <1>1, HostLeavesDevice DEF device, AppTyped
<1> DEFINE App == 1..MaxApps
           Ks == 0..MaxSessions
           Shown == 0..MaxScreen
           Gates == Arm \cup {None}
           Inputs == [Actions -> Input \cup {None}]
<1>a. AppTyped <=>
        /\ app \in App /\ screen \in Screens /\ gate \in Gates
        /\ client \in Ks /\ reader \in Ks /\ accepted \in Ks
        /\ greeted \in BOOLEAN /\ published \in Shown
        /\ expired \subseteq Actions /\ seen \subseteq Actions
        /\ observed \in Inputs
  BY DEF AppTyped
<1>b. AppTyped' <=>
        /\ app' \in App /\ screen' \in Screens /\ gate' \in Gates
        /\ client' \in Ks /\ reader' \in Ks /\ accepted' \in Ks
        /\ greeted' \in BOOLEAN /\ published' \in Shown
        /\ expired' \subseteq Actions /\ seen' \subseteq Actions
        /\ observed' \in Inputs
  BY DEF AppTyped
<1>c. 0 \in Ks /\ session \in Ks /\ 0 \in Shown /\ screen \in Shown /\ None \in Gates
  BY BridgeAssumption DEF HostTyped, AppTyped, Screens
<1>d. app < MaxApps => app + 1 \in App
  BY BridgeAssumption DEF AppTyped
<1> HIDE DEF App, Ks, Shown, Gates, Inputs
<1>2. CASE Accept
  BY <1>2, <1>a, <1>b, <1>c DEF Accept
<1>3. CASE Read \/ ReaderEnds \/ WriteFails \/ Greet \/ HandlePing \/ HandleDisarm \/ PublishState
  <2>1. CASE Read \/ ReaderEnds \/ WriteFails \/ Greet
    BY <2>1, <1>a, <1>b, <1>c DEF Read, ReaderEnds, WriteFails, Greet
  <2>2. CASE HandlePing \/ HandleDisarm \/ PublishState
    BY <2>2, <1>a, <1>b, <1>c DEF HandlePing, HandleDisarm, Handle, PublishState
  <2> QED BY <1>3, <2>1, <2>2
<1>4. CASE HandleArm
  <2>1. Head(inbound) \in DownLine /\ Says(Head(inbound), "QA_ARM")
    BY <1>4, TailAt DEF HandleArm, Handle, WireTyped, Says
  <2>2. [action |-> Head(inbound).action, screen |-> Head(inbound).screen] \in Arm
    BY <2>1, OrderIs DEF Arm
  <2>3. gate' \in Arm \cup {None}
    BY <1>4, <2>2 DEF HandleArm, AppTyped
  <2> QED BY <1>4, <2>3 DEF HandleArm, Handle, AppTyped
<1>5. ASSUME NEW a \in Actions, Gesture(a) PROVE AppTyped'
  BY <1>5, ObserveIs, ObserveWrites DEF Gesture, AppTyped
<1>6. ASSUME NEW shape \in Shapes, StrayTouch(shape) PROVE AppTyped'
  BY <1>6, ObserveIs, ObserveWrites DEF StrayTouch, AppTyped
<1>7. ASSUME NEW a \in Actions, Expire(a) PROVE AppTyped'
  BY <1>7 DEF Expire, AppTyped
<1>8. CASE ScreenChanges
  BY <1>8, BridgeAssumption DEF ScreenChanges, AppTyped, Screens
<1>9. CASE AppRestarts
  BY <1>9, <1>a, <1>b, <1>c, <1>d DEF AppRestarts
<1>10. CASE LinkBreaks
  BY <1>10 DEF LinkBreaks, device, AppTyped
<1> QED
  BY <1>1, <1>2, <1>3, <1>4, <1>5, <1>6, <1>7, <1>8, <1>9, <1>10 DEF Next, DeviceStep, Surroundings

LEMMA HostStaysTyped ==
  ASSUME BridgeTyped, ConnectionIsSound, Next
  PROVE  HostTyped'
<1>1. CASE DeviceStep \/ Surroundings
  BY <1>1, DeviceLeavesHost DEF host, BridgeTyped, HostTyped
<1>2. CASE Connect
  <2>1. session + 1 \in 0..MaxSessions /\ 0 \in 0..MaxApps /\ 0 \in 0..MaxScreen /\ 0 \in 0..Samples
    BY <1>2, BridgeAssumption DEF Connect, BridgeTyped, HostTyped
  <2> QED BY <1>2, <2>1 DEF Connect, HostTyped, Status
<1>3. CASE Close \/ HandleClose \/ SendPing
  BY <1>3 DEF Close, HandleClose, SendPing, LoseBridge, BridgeTyped, HostTyped, Status
<1>4. ASSUME NEW a \in Actions,
             Ask(a) \/ AskUnready(a) \/ TimerFires(a) \/ ExecuteReturns(a) \/ ExecuteThrows(a)
      PROVE  HostTyped'
  BY <1>4 DEF Ask, AskUnready, TimerFires, ExecuteReturns, ExecuteThrows, host, BridgeTyped, HostTyped
<1>5. CASE HandleArmed \/ HandleAck \/ HandleRejected \/ HandleMalformed
  BY <1>5 DEF HandleArmed, HandleAck, HandleRejected, HandleMalformed, LoseBridge, Line, BridgeTyped,
              HostTyped, Status
<1>6. CASE HandleHello \/ HandleState
  <2>1. up # <<>> /\ up \in Seq(UpLine)
    BY <1>6 DEF HandleHello, HandleState, Line, BridgeTyped, WireTyped
  <2>2. Head(up) \in UpLine
    BY <2>1, TailAt
  <2>3. HandleHello => Head(up).app \in 0..MaxApps
    BY <2>2, LineIs DEF HandleHello, Line, Says
  <2>4. HandleState => Head(up).screen \in 0..MaxScreen
    BY <2>2, LineIs DEF HandleState, Line, Says, Screens
  <2> QED BY <1>6, <2>3, <2>4 DEF HandleHello, HandleState, Line, BridgeTyped, HostTyped, Status
<1>7. CASE HandlePong
  <2>1. pinging => pings + 1 \in 0..Samples
    BY BridgeAssumption DEF ConnectionIsSound, EndsAreSound, HandshakeIsSound, BridgeTyped, HostTyped
  <2> QED BY <1>7, <2>1 DEF HandlePong, Line, BridgeTyped, HostTyped
<1> QED BY <1>1, <1>2, <1>3, <1>4, <1>5, <1>6, <1>7 DEF Next, HostStep

LEMMA ArmsStayTyped ==
  ASSUME BridgeTyped, ConnectionIsSound, Next
  PROVE  ArmsTyped'
<1> USE DEF BridgeTyped
<1>1. CASE DeviceStep \/ Surroundings
  BY <1>1, DeviceLeavesHost DEF armed, ArmsTyped
<1>2. CASE Connect \/ HandleHello \/ HandleState \/ HandlePong \/ SendPing
  BY <1>2 DEF Connect, HandleHello, HandleState, HandlePong, SendPing, armed, ArmsTyped
<1>3. CASE Close \/ HandleClose \/ HandleRejected
  BY <1>3, RemovedIs DEF Close, HandleClose, LoseBridge, HandleRejected
<1>4. CASE HandleMalformed
  BY <1>4, RemovedIs DEF HandleMalformed, LoseBridge, armed, ArmsTyped
<1>5. CASE HandleArmed \/ HandleAck
  <2> DEFINE l == Head(up)
  <2>1. \/ RemoveLeases({l.action}, TRUE)
        \/ UNCHANGED armed
        \/ /\ outcome' \in {[outcome EXCEPT ![l.action] = "armed"], [outcome EXCEPT ![l.action] = "acked"]}
           /\ act' \in {act, [act EXCEPT ![l.action] = "acting"], [act EXCEPT ![l.action] = "performed"]}
           /\ leases' \in {leases, leases \ {l.action}} /\ timers' \in {timers, timers \ {l.action}}
           /\ asked' = asked
    BY <1>5 DEF HandleArmed, HandleAck, Consume, StopTimeout, armed
  <2> HIDE DEF l
  <2> QED BY <2>1, RemovedIs DEF armed, ArmsTyped, Live, Verdicts
<1>6. ASSUME NEW a \in Actions, Ask(a) PROVE ArmsTyped'
  <2>1. [screen |-> state, app |-> hello] \in AskedArm
    BY <1>6 DEF Ask, Calibrated, ConnectionIsSound, HandshakeIsSound, HostTyped, AskedArm, Screens
  <2> DEFINE arm == [screen |-> state, app |-> hello]
  <2>2. asked' = [asked EXCEPT ![a] = arm] /\ act' = [act EXCEPT ![a] = "arming"]
        /\ leases' = leases \cup {a} /\ timers' = timers \cup {a} /\ outcome' = outcome
    BY <1>6 DEF Ask
  <2> HIDE DEF arm
  <2> QED BY <2>1, <2>2 DEF arm, ArmsTyped, Live
<1>7. ASSUME NEW a \in Actions, TimerFires(a) PROVE ArmsTyped'
  BY <1>7 DEF TimerFires, Rejected, Abandoned, ArmsTyped, Live, Verdicts
<1>8. ASSUME NEW a \in Actions, AskUnready(a) \/ ExecuteReturns(a) PROVE ArmsTyped'
  BY <1>8 DEF AskUnready, ExecuteReturns, Consume, StopTimeout, ArmsTyped, Live, Verdicts
<1>9. ASSUME NEW a \in Actions, ExecuteThrows(a) PROVE ArmsTyped'
  BY <1>9 DEF ExecuteThrows, StopTimeout, Rejected, ArmsTyped, Live, Verdicts
<1> QED BY <1>1, <1>2, <1>3, <1>4, <1>5, <1>6, <1>7, <1>8, <1>9 DEF Next, HostStep

\* What the host writes in a step is of the protocol.
LEMMA HostSends ==
  ASSUME BridgeTyped, ConnectionIsSound, HostStep
  PROVE  UNCHANGED down \/ \E lines \in Seq(DownLine) : Sent(lines)
<1>0. ArmsTyped
  BY DEF BridgeTyped
<1>1. CASE Connect \/ HandleHello \/ HandleState \/ HandlePong
  BY <1>1 DEF Connect, HandleHello, HandleState, HandlePong
<1>2. ASSUME NEW S, NEW disarms, RemoveLeases(S, disarms)
      PROVE  \E lines \in Seq(DownLine) : Sent(lines)
  <2>1. [i \in 1..Cardinality(S \cap leases) |-> Disarm] \in Seq(DownLine) /\ <<>> \in Seq(DownLine)
    BY <1>0, DisarmsAre
  <2> DEFINE disarming == [i \in 1..Cardinality(S \cap leases) |-> Disarm]
  <2>2. Sent(IF disarms THEN disarming ELSE <<>>)
    BY <1>2 DEF RemoveLeases
  <2>3. disarming \in Seq(DownLine)
    BY <2>1
  <2> HIDE DEF disarming
  <2> QED BY <2>1, <2>2, <2>3
<1>3. CASE Close \/ HandleClose \/ HandleRejected
  BY <1>2, <1>3 DEF Close, HandleClose, LoseBridge, HandleRejected
<1>4. CASE HandleMalformed \/ HandleArmed \/ HandleAck
  BY <1>2, <1>4 DEF HandleMalformed, LoseBridge, HandleArmed, HandleAck
<1>5. CASE SendPing
  <2>1. session \in Sessions
    BY <1>5 DEF SendPing, ConnectionIsSound, EndsAreSound, HandshakeIsSound, BridgeTyped, HostTyped, Sessions
  <2>2. Ping \in DownLine
    BY <2>1 DEF Ping, DownLine
  <2>3. <<Ping>> \in Seq(DownLine)
    BY <2>2
  <2> QED BY <1>5, <2>3 DEF SendPing
<1>6. ASSUME NEW a \in Actions, Ask(a) PROVE \E lines \in Seq(DownLine) : Sent(lines)
  <2>1. state \in Screens
    BY <1>6 DEF Ask, Calibrated, ConnectionIsSound, HandshakeIsSound, BridgeTyped, HostTyped, Screens
  <2>2. ArmLine(a, state) \in DownLine
    BY <2>1 DEF ArmLine, DownLine
  <2>3. <<ArmLine(a, state)>> \in Seq(DownLine)
    BY <2>2
  <2> QED BY <1>6, <2>3 DEF Ask
<1>7. ASSUME NEW a \in Actions, AskUnready(a) \/ TimerFires(a) \/ ExecuteReturns(a) \/ ExecuteThrows(a)
      PROVE  UNCHANGED down \/ \E lines \in Seq(DownLine) : Sent(lines)
  <2>1. <<>> \in Seq(DownLine) /\ <<Disarm>> \in Seq(DownLine)
    BY <1>0, DisarmsAre
  <2> QED BY <1>7, <2>1 DEF AskUnready, TimerFires, ExecuteReturns, ExecuteThrows
<1> QED BY <1>1, <1>3, <1>4, <1>5, <1>6, <1>7 DEF HostStep

\* The host reads its lines in order, and drops them with the connection.
LEMMA HostReads ==
  ASSUME HostStep
  PROVE  up' = up \/ up' = <<>> \/ (up # <<>> /\ up' = Tail(up) /\ status \in {"connecting", "ready"})
BY DEF HostStep, Connect, Close, HandleClose, HandleHello, HandleState, HandleMalformed, SendPing,
       HandlePong, HandleArmed, HandleAck, HandleRejected, Line, Ask, AskUnready, TimerFires,
       ExecuteReturns, ExecuteThrows

\* What the app writes in a step is of the protocol.
LEMMA AppWrites ==
  ASSUME BridgeTyped, DeviceStep \/ Surroundings
  PROVE  up' \in Seq(UpLine)
<1>1. app \in 1..MaxApps /\ screen \in Screens /\ up \in Seq(UpLine) /\ inbound \in Seq(DownLine)
  BY DEF BridgeTyped, AppTyped, WireTyped
<1>2. CASE UNCHANGED up
  BY <1>1, <1>2
<1>3. CASE Greet \/ PublishState
  <2>1. Hello \in UpLine /\ State \in UpLine
    BY <1>1 DEF Hello, State, UpLine
  <2> QED BY <1>1, <1>3, <2>1, WrittenIs DEF Greet, PublishState
<1>4. CASE HandlePing
  <2>1. inbound # <<>> /\ Says(Head(inbound), "QA_PING")
    BY <1>4 DEF HandlePing, Handle, Says
  <2>2. Head(inbound).by \in Sessions
    BY <1>1, <2>1, TailAt, OrderIs
  <2>3. Pong(Head(inbound).by) \in UpLine
    BY <2>2 DEF Pong, UpLine
  <2> QED BY <1>1, <1>4, <2>3, WrittenIs DEF HandlePing
<1>5. CASE HandleArm
  <2> DEFINE g == [action |-> Head(inbound).action, screen |-> Head(inbound).screen]
  <2>1. inbound # <<>> /\ Says(Head(inbound), "QA_ARM")
    BY <1>5 DEF HandleArm, Handle, Says
  <2>2. Head(inbound).action \in Actions /\ Head(inbound).screen \in Screens
    BY <1>1, <2>1, TailAt, OrderIs
  <2>3. g \in Arm
    BY <2>2 DEF Arm
  <2>4. Written(Answer("QA_ARMED", g)) \/ Written(Answer("QA_REJECTED", g))
    BY <1>5 DEF HandleArm
  <2> HIDE DEF g
  <2>5. Answer("QA_ARMED", g) \in UpLine /\ Answer("QA_REJECTED", g) \in UpLine
    BY <1>1, <2>3, AnswersAre DEF Answers
  <2> QED BY <1>1, <2>4, <2>5, WrittenIs
<1>6. ASSUME NEW a \in Actions, Gesture(a) PROVE up' \in Seq(UpLine)
  BY <1>6, ObserveWrites DEF Gesture
<1>7. ASSUME NEW shape \in Shapes, StrayTouch(shape) PROVE up' \in Seq(UpLine)
  BY <1>7, ObserveWrites DEF StrayTouch
<1>8. CASE Accept \/ Read \/ ReaderEnds \/ WriteFails \/ HandleDisarm \/ ScreenChanges \/ AppRestarts \/ LinkBreaks
  BY <1>8, <1>2 DEF Accept, Read, ReaderEnds, WriteFails, HandleDisarm, ScreenChanges, AppRestarts, LinkBreaks
<1>9. ASSUME NEW a \in Actions, Expire(a) PROVE up' \in Seq(UpLine)
  BY <1>9, <1>2 DEF Expire
<1> QED BY <1>3, <1>4, <1>5, <1>6, <1>7, <1>8, <1>9 DEF DeviceStep, Surroundings

LEMMA WireStaysTyped ==
  ASSUME BridgeTyped, ConnectionIsSound, Next
  PROVE  WireTyped'
<1>1. /\ wire \in BOOLEAN /\ inbound \in Seq(DownLine) /\ up \in Seq(UpLine)
      /\ down \in [Sessions -> Seq(DownLine)] /\ session \in 0..MaxSessions /\ reader \in 0..MaxSessions
  BY DEF BridgeTyped, WireTyped, HostTyped, AppTyped
<1>2. wire => session # 0
  BY DEF ConnectionIsSound, EndsAreSound
<1>3. CASE HostStep
  <2>1. inbound' = inbound
    BY <1>3, HostLeavesDevice DEF device
  <2>2. down' \in [Sessions -> Seq(DownLine)]
    BY <1>1, <1>2, <1>3, HostSends, SentIs
  <2>3. up' \in Seq(UpLine)
    <3>1. <<>> \in Seq(UpLine) /\ (up # <<>> => Tail(up) \in Seq(UpLine))
      BY <1>1, TailAt
    <3> QED BY <1>1, <1>3, <3>1, HostReads
  <2>4. wire' \in BOOLEAN
    BY <1>1, <1>3 DEF HostStep, Connect, Close, HandleClose, HandleHello, HandleState, HandleMalformed, SendPing,
       HandlePong, HandleArmed, HandleAck, HandleRejected, Ask, AskUnready, TimerFires,
       ExecuteReturns, ExecuteThrows
  <2> QED BY <1>1, <2>1, <2>2, <2>3, <2>4 DEF WireTyped
<1>4. CASE DeviceStep \/ Surroundings
  <2>1. up' \in Seq(UpLine)
    BY <1>4, AppWrites
  <2>2. CASE Read
    <3>1. reader \in Sessions
      BY <1>1, <2>2 DEF Read, Sessions
    <3>2. /\ down[reader] \in Seq(DownLine) /\ down[reader] # <<>>
          /\ inbound' = Append(inbound, Head(down[reader]))
          /\ down' = [down EXCEPT ![reader] = Tail(down[reader])]
      BY <1>1, <2>2, <3>1 DEF Read
    <3>3. Head(down[reader]) \in DownLine /\ Tail(down[reader]) \in Seq(DownLine)
      BY <3>2, TailAt
    <3>4. inbound' \in Seq(DownLine)
      BY <1>1, <3>2, <3>3, AppendAt
    <3> QED BY <1>1, <2>1, <2>2, <3>2, <3>3, <3>4 DEF Read, WireTyped
  <2>3. CASE HandlePing \/ HandleArm \/ HandleDisarm
    <3>1. inbound' = Tail(inbound) /\ inbound # <<>> /\ down' = down /\ wire' = wire
      BY <2>3 DEF HandlePing, HandleArm, HandleDisarm, Handle
    <3> QED BY <1>1, <2>1, <3>1, TailAt DEF WireTyped
  <2>4. CASE ReaderEnds \/ AppRestarts
    <3>1. <<>> \in Seq(DownLine)
      OBVIOUS
    <3>2. down' \in [Sessions -> Seq(DownLine)]
      BY <1>1, <2>4, <3>1 DEF ReaderEnds, AppRestarts
    <3> QED BY <1>1, <2>1, <2>4, <3>1, <3>2 DEF ReaderEnds, AppRestarts, WireTyped
  <2>5. CASE Accept \/ WriteFails \/ Greet \/ PublishState \/ ScreenChanges \/ LinkBreaks
    BY <1>1, <2>1, <2>5 DEF Accept, WriteFails, Greet, PublishState, ScreenChanges, LinkBreaks, device, WireTyped
  <2>6. ASSUME NEW a \in Actions, Gesture(a) \/ Expire(a) PROVE WireTyped'
    BY <1>1, <2>1, <2>6, ObserveIs DEF Gesture, Expire, WireTyped
  <2>7. ASSUME NEW shape \in Shapes, StrayTouch(shape) PROVE WireTyped'
    BY <1>1, <2>1, <2>7, ObserveIs DEF StrayTouch, WireTyped
  <2> QED BY <1>4, <2>2, <2>3, <2>4, <2>5, <2>6, <2>7 DEF DeviceStep, Surroundings
<1> QED BY <1>3, <1>4 DEF Next

LEMMA BridgeStaysTyped ==
  ASSUME BridgeTyped, ConnectionIsSound, Next
  PROVE  BridgeTyped'
BY AppStaysTyped, HostStaysTyped, ArmsStayTyped, WireStaysTyped DEF BridgeTyped
-----------------------------------------------------------------------------
(* The connection.                                                         *)
LEMMA HelloInTail ==
  ASSUME NEW q \in Seq(UpLine), q # <<>>, OneHello(q)
  PROVE  OneHello(Tail(q)) /\ (NoHello(q) \/ Says(Head(q), "QA_HELLO") => NoHello(Tail(q)))
BY TailAt DEF OneHello, NoHello

LEMMA HelloInAppend ==
  ASSUME NEW q \in Seq(UpLine), NEW x \in UpLine, OneHello(q)
  PROVE  /\ ~Says(x, "QA_HELLO") => OneHello(Append(q, x)) /\ (NoHello(q) => NoHello(Append(q, x)))
         /\ NoHello(q) => OneHello(Append(q, x))
BY AppendAt DEF OneHello, NoHello

LEMMA EndsStaySound ==
  ASSUME BridgeTyped, ConnectionIsSound, Next
  PROVE  EndsAreSound'
<1>0. /\ session \in Nat /\ client \in Nat /\ reader \in Nat /\ accepted \in Nat
      /\ wire \in BOOLEAN /\ status \in Status
  BY DEF BridgeTyped, AppTyped, HostTyped, WireTyped
<1>1. EndsAreSound
  BY DEF ConnectionIsSound
<1>2. CASE Connect
  BY <1>0, <1>1, <1>2 DEF Connect, device, EndsAreSound
<1>3. CASE HostStep /\ ~Connect
  <2>1. UNCHANGED <<client, reader, accepted, session>>
    BY <1>3 DEF HostStep, Close, HandleClose, HandleHello, HandleState, HandleMalformed, SendPing,
       HandlePong, HandleArmed, HandleAck, HandleRejected, Line, Ask, AskUnready, TimerFires,
       ExecuteReturns, ExecuteThrows, device, host
  <2>2. /\ (wire' => wire) /\ (wire' => status' \in {status, "ready"})
        /\ status' # "idle" => status # "idle"
    <3>1. CASE Close \/ HandleClose \/ HandleMalformed
      BY <1>0, <3>1 DEF Close, HandleClose, HandleMalformed, LoseBridge, Line
    <3>2. CASE HandleHello \/ HandleState \/ SendPing \/ HandlePong \/ HandleArmed \/ HandleAck \/ HandleRejected
      <4>1. CASE HandleState
        BY <1>0, <4>1 DEF HandleState, Line
      <4>2. CASE HandleHello \/ SendPing \/ HandlePong \/ HandleArmed \/ HandleAck \/ HandleRejected
        <5>1. UNCHANGED <<wire, status>>
          BY <4>2 DEF HandleHello, SendPing, HandlePong, HandleArmed, HandleAck, HandleRejected
        <5> QED BY <5>1
      <4> QED BY <3>2, <4>1, <4>2
    <3>3. ASSUME NEW a \in Actions, Ask(a) \/ AskUnready(a) \/ TimerFires(a) \/ ExecuteReturns(a) \/ ExecuteThrows(a)
          PROVE  UNCHANGED <<wire, status>>
      BY <3>3 DEF Ask, AskUnready, TimerFires, ExecuteReturns, ExecuteThrows, host
    <3> QED BY <1>0, <1>3, <3>1, <3>2, <3>3 DEF HostStep
  <2> QED BY <1>0, <1>1, <2>1, <2>2 DEF EndsAreSound
<1>4. CASE DeviceStep \/ Surroundings
  <2>1. UNCHANGED <<session, status>>
    BY <1>4, DeviceLeavesHost DEF host
  <2>2. CASE Accept
    BY <1>0, <1>1, <2>1, <2>2 DEF Accept, EndsAreSound
  <2>3. CASE ReaderEnds
    BY <1>0, <1>1, <2>1, <2>3 DEF ReaderEnds, Alive, EndsAreSound
  <2>4. CASE WriteFails
    BY <1>0, <1>1, <2>1, <2>4 DEF WriteFails, Alive, EndsAreSound
  <2>5. CASE AppRestarts
    BY <1>0, <1>1, <2>1, <2>5 DEF AppRestarts, EndsAreSound
  <2>6. CASE LinkBreaks
    BY <1>0, <1>1, <2>1, <2>6 DEF LinkBreaks, device, EndsAreSound
  <2>7. CASE UNCHANGED <<client, reader, accepted, wire>>
    BY <1>0, <1>1, <2>1, <2>7 DEF EndsAreSound
  <2>8. CASE Read \/ Greet \/ HandlePing \/ HandleArm \/ HandleDisarm \/ PublishState \/ ScreenChanges
    BY <2>7, <2>8 DEF Read, Greet, HandlePing, HandleArm, HandleDisarm, Handle, PublishState, ScreenChanges
  <2>9. ASSUME NEW a \in Actions, Gesture(a) \/ Expire(a) PROVE EndsAreSound'
    BY <2>7, <2>9, ObserveIs DEF Gesture, Expire
  <2>10. ASSUME NEW shape \in Shapes, StrayTouch(shape) PROVE EndsAreSound'
    BY <2>7, <2>10, ObserveIs DEF StrayTouch
  <2> QED BY <1>4, <2>2, <2>3, <2>4, <2>5, <2>6, <2>8, <2>9, <2>10 DEF DeviceStep, Surroundings
<1> QED BY <1>2, <1>3, <1>4 DEF Next

\* Only Greet writes a QA_HELLO.
NoHelloAppears == OneHello(up') /\ (NoHello(up) => NoHello(up'))

LEMMA AppWritesNoHello ==
  ASSUME BridgeTyped, DeviceStep \/ Surroundings, ~Greet, OneHello(up)
  PROVE  NoHelloAppears
<1>1. app \in 1..MaxApps /\ screen \in Screens /\ up \in Seq(UpLine) /\ inbound \in Seq(DownLine)
      /\ gate \in Arm \cup {None}
  BY DEF BridgeTyped, AppTyped, WireTyped
<1>2. ASSUME NEW line \in UpLine, ~Says(line, "QA_HELLO"), Written(line)
      PROVE  NoHelloAppears
  BY <1>1, <1>2, WrittenIs, HelloInAppend DEF NoHelloAppears
<1>3. CASE up' = up
  BY <1>3 DEF NoHelloAppears
<1>4. CASE PublishState
  <2>1. State \in UpLine /\ ~Says(State, "QA_HELLO")
    BY <1>1 DEF State, UpLine, Says
  <2> QED BY <1>2, <1>4, <2>1 DEF PublishState
<1>5. CASE HandlePing
  <2>1. inbound # <<>> /\ Says(Head(inbound), "QA_PING")
    BY <1>5 DEF HandlePing, Handle, Says
  <2>2. Head(inbound).by \in Sessions
    BY <1>1, <2>1, TailAt, OrderIs
  <2>3. Pong(Head(inbound).by) \in UpLine /\ ~Says(Pong(Head(inbound).by), "QA_HELLO")
    BY <2>2 DEF Pong, UpLine, Says
  <2> QED BY <1>2, <1>5, <2>3 DEF HandlePing
<1>6. ASSUME NEW type \in Answers, NEW g \in Arm, Written(Answer(type, g)) PROVE NoHelloAppears
  <2>1. Answer(type, g) \in UpLine /\ Answer(type, g).type = type
    BY <1>1, AnswersAre
  <2>2. type # "QA_HELLO"
    BY DEF Answers
  <2> QED BY <1>2, <1>6, <2>1, <2>2 DEF Says
<1>7. CASE HandleArm
  <2> DEFINE g == [action |-> Head(inbound).action, screen |-> Head(inbound).screen]
  <2>1. inbound # <<>> /\ Says(Head(inbound), "QA_ARM")
    BY <1>7 DEF HandleArm, Handle, Says
  <2>2. Head(inbound).action \in Actions /\ Head(inbound).screen \in Screens
    BY <1>1, <2>1, TailAt, OrderIs
  <2>3. g \in Arm
    BY <2>2 DEF Arm
  <2>4. Written(Answer("QA_ARMED", g)) \/ Written(Answer("QA_REJECTED", g))
    BY <1>7 DEF HandleArm
  <2>5. "QA_ARMED" \in Answers /\ "QA_REJECTED" \in Answers
    BY DEF Answers
  <2> HIDE DEF g
  <2> QED BY <1>6, <2>3, <2>4, <2>5
<1>8. ASSUME NEW shape, Observe(shape) PROVE NoHelloAppears
  <2>1. Malformed \in UpLine /\ ~Says(Malformed, "QA_HELLO")
    BY DEF Malformed, UpLine, Says
  <2>2. "QA_ACK" \in Answers /\ "QA_REJECTED" \in Answers
    BY DEF Answers
  <2> QED BY <1>1, <1>2, <1>3, <1>6, <1>8, <2>1, <2>2, ObserveIs
<1>9. CASE Accept \/ Read \/ ReaderEnds \/ WriteFails \/ HandleDisarm \/ ScreenChanges \/ AppRestarts \/ LinkBreaks
  BY <1>9, <1>3 DEF Accept, Read, ReaderEnds, WriteFails, HandleDisarm, ScreenChanges, AppRestarts, LinkBreaks
<1>10. ASSUME NEW a \in Actions, Gesture(a) \/ Expire(a) PROVE NoHelloAppears
  BY <1>3, <1>8, <1>10 DEF Gesture, Expire
<1>11. ASSUME NEW shape \in Shapes, StrayTouch(shape) PROVE NoHelloAppears
  BY <1>8, <1>11 DEF StrayTouch
<1> QED BY <1>4, <1>5, <1>7, <1>9, <1>10, <1>11 DEF DeviceStep, Surroundings

LEMMA HandshakeStaysSound ==
  ASSUME BridgeTyped, ConnectionIsSound, Next
  PROVE  HandshakeIsSound'
<1>0. /\ session \in Nat /\ client \in Nat /\ reader \in Nat /\ accepted \in Nat
      /\ wire \in BOOLEAN /\ status \in Status /\ up \in Seq(UpLine) /\ Samples \in Nat /\ pings \in 0..Samples
  BY BridgeAssumption DEF BridgeTyped, AppTyped, HostTyped, WireTyped
<1>1. EndsAreSound /\ HandshakeIsSound
  BY DEF ConnectionIsSound
<1>2. NoHello(<<>>) /\ OneHello(<<>>)
  BY DEF NoHello, OneHello
<1>3. CASE Connect
  BY <1>0, <1>1, <1>2, <1>3 DEF Connect, device, EndsAreSound, HandshakeIsSound, Ungreeted
<1>4. CASE HandleHello
  <2>1. up # <<>> /\ Says(Head(up), "QA_HELLO") /\ up' = Tail(up)
    BY <1>4 DEF HandleHello, Line, Says
  <2>2. OneHello(up') /\ NoHello(up') /\ ~NoHello(up)
    BY <1>0, <1>1, <2>1, HelloInTail, TailAt DEF HandshakeIsSound, NoHello
  <2>3. hello' # 0
    BY <1>0, <2>1, <1>4, TailAt, LineIs DEF HandleHello
  <2> QED BY <1>1, <1>4, <2>2, <2>3 DEF HandleHello, Line, device, HandshakeIsSound, Ungreeted
<1>5. CASE HostStep /\ ~Connect /\ ~HandleHello
  <2>1. UNCHANGED <<client, greeted, accepted, session, hello>>
    BY <1>5 DEF HostStep, Close, HandleClose, HandleState, HandleMalformed, SendPing,
       HandlePong, HandleArmed, HandleAck, HandleRejected, Line, Ask, AskUnready, TimerFires,
       ExecuteReturns, ExecuteThrows, device, host
  <2>2. OneHello(up') /\ (NoHello(up) => NoHello(up'))
    BY <1>0, <1>1, <1>2, <1>5, HostReads, HelloInTail DEF HandshakeIsSound
  <2>3. /\ pinging' => pings' < Samples
        /\ state' \in {0, state} \/ (hello # 0 /\ state' # 0)
        /\ status' = "ready" => state' # 0
    <3>1. CASE HandleState
      <4>1. Head(up).screen # 0
        BY <1>0, <3>1, TailAt, LineIs DEF HandleState, Line, Says, Screens
      <4> QED BY <1>1, <3>1, <4>1 DEF HandleState, HandshakeIsSound
    <3>2. CASE SendPing \/ HandlePong
      BY <1>0, <1>1, <3>2 DEF SendPing, HandlePong, HandshakeIsSound
    <3>3. CASE Close \/ HandleClose \/ HandleMalformed \/ HandleArmed \/ HandleAck \/ HandleRejected
      <4>1. UNCHANGED <<pinging, pings, state>> /\ (status' = "ready" => status = "ready")
        BY <3>3 DEF Close, HandleClose, HandleMalformed, LoseBridge, HandleArmed, HandleAck, HandleRejected
      <4> QED BY <1>1, <4>1 DEF HandshakeIsSound
    <3>4. ASSUME NEW a \in Actions, Ask(a) \/ AskUnready(a) \/ TimerFires(a) \/ ExecuteReturns(a) \/ ExecuteThrows(a)
          PROVE  UNCHANGED <<pinging, pings, state, status>>
      BY <3>4 DEF Ask, AskUnready, TimerFires, ExecuteReturns, ExecuteThrows, host
    <3> QED BY <1>1, <1>5, <3>1, <3>2, <3>3, <3>4 DEF HostStep, HandshakeIsSound
  <2> QED BY <1>1, <2>1, <2>2, <2>3 DEF HandshakeIsSound, Ungreeted
<1>6. CASE Greet
  <2>1. Hello \in UpLine
    BY DEF Hello, UpLine, BridgeTyped, AppTyped
  <2>2. UNCHANGED host /\ client # 0 /\ ~greeted /\ greeted' /\ UNCHANGED <<client, accepted>>
        /\ up' = IF client = session /\ wire THEN Append(up, Hello) ELSE up
    BY <1>6 DEF Greet, Written
  <2>3. client = session => Ungreeted
    BY <2>2 DEF Ungreeted
  <2>4. OneHello(up') /\ (up' # up => client = session /\ Ungreeted)
    BY <1>0, <1>1, <2>1, <2>2, <2>3, HelloInAppend DEF HandshakeIsSound
  <2>5. Ungreeted' => up' = up /\ Ungreeted
    BY <1>0, <1>1, <2>2, <2>4 DEF Ungreeted, host, EndsAreSound
  <2> QED BY <1>1, <2>2, <2>4, <2>5 DEF HandshakeIsSound, host
<1>7. CASE (DeviceStep \/ Surroundings) /\ ~Greet
  <2>1. UNCHANGED host
    BY <1>7, DeviceLeavesHost
  <2>2. OneHello(up') /\ (NoHello(up) => NoHello(up'))
    BY <1>1, <1>7, AppWritesNoHello DEF NoHelloAppears, HandshakeIsSound
  <2>3. Ungreeted' => Ungreeted
    <3>1. CASE Accept \/ ReaderEnds \/ WriteFails \/ AppRestarts
      BY <1>0, <1>1, <2>1, <3>1 DEF Accept, ReaderEnds, WriteFails, AppRestarts, host, Ungreeted, EndsAreSound
    <3>2. CASE UNCHANGED <<client, greeted, accepted>>
      BY <2>1, <3>2 DEF Ungreeted, host
    <3>3. CASE Read \/ HandlePing \/ HandleArm \/ HandleDisarm \/ PublishState \/ ScreenChanges \/ LinkBreaks
      BY <3>2, <3>3 DEF Read, HandlePing, HandleArm, HandleDisarm, Handle, PublishState, ScreenChanges,
         LinkBreaks, device
    <3>4. ASSUME NEW a \in Actions, Gesture(a) \/ Expire(a) PROVE UNCHANGED <<client, greeted, accepted>>
      BY <3>4, ObserveIs DEF Gesture, Expire
    <3>5. ASSUME NEW shape \in Shapes, StrayTouch(shape) PROVE UNCHANGED <<client, greeted, accepted>>
      BY <3>5, ObserveIs DEF StrayTouch
    <3> QED BY <1>7, <3>1, <3>2, <3>3, <3>4, <3>5 DEF DeviceStep, Surroundings
  <2> QED BY <1>1, <2>1, <2>2, <2>3 DEF HandshakeIsSound, host
<1> QED BY <1>3, <1>4, <1>5, <1>6, <1>7 DEF Next
-----------------------------------------------------------------------------
(* The arms.                                                               *)
LEMMA AskedStays ==
  ASSUME BridgeInv, Next
  PROVE  \/ UNCHANGED asked
         \/ \E a \in Actions : Ask(a) /\ asked[a] = None /\ asked' = [asked EXCEPT ![a] = [screen |-> state, app |-> hello]]
                               /\ [screen |-> state, app |-> hello] # None
<1>1. CASE DeviceStep \/ Surroundings
  BY <1>1, DeviceLeavesHost DEF armed
<1>2. ASSUME NEW a \in Actions, Ask(a)
      PROVE  /\ asked[a] = None /\ asked' = [asked EXCEPT ![a] = [screen |-> state, app |-> hello]]
             /\ [screen |-> state, app |-> hello] # None
  <2>1. act[a] = "idle" /\ status = "ready"
    BY <1>2 DEF Ask, Turn, Calibrated
  <2>2. state \in Screens /\ hello \in 1..MaxApps
    BY <2>1 DEF BridgeInv, ConnectionIsSound, HandshakeIsSound, BridgeTyped, HostTyped, Screens
  <2>3. [screen |-> state, app |-> hello] # None
    BY <2>2, BridgeAssumption
  <2> QED BY <1>2, <2>1, <2>3 DEF Ask, BridgeInv, LeasesAreHeld
<1>3. CASE Connect \/ HandleHello \/ HandleState \/ HandlePong \/ SendPing
  BY <1>3 DEF Connect, HandleHello, HandleState, HandlePong, SendPing, armed
<1>4. CASE Close \/ HandleClose \/ HandleRejected \/ HandleMalformed
  BY <1>4 DEF Close, HandleClose, LoseBridge, HandleRejected, HandleMalformed, RemoveLeases, armed
<1>5. CASE HandleArmed \/ HandleAck
  BY <1>5 DEF HandleArmed, HandleAck, RemoveLeases, armed
<1>6. ASSUME NEW a \in Actions, AskUnready(a) \/ TimerFires(a) \/ ExecuteReturns(a) \/ ExecuteThrows(a)
      PROVE  UNCHANGED asked
  BY <1>6 DEF AskUnready, TimerFires, ExecuteReturns, ExecuteThrows
<1> QED BY <1>1, <1>2, <1>3, <1>4, <1>5, <1>6 DEF Next, HostStep

LEMMA AskedIsKept ==
  ASSUME BridgeInv, Next
  PROVE  \A a \in Actions : asked[a] # None => asked'[a] = asked[a]
<1>1. asked \in [Actions -> AskedArm \cup {None}]
  BY DEF BridgeInv, BridgeTyped, ArmsTyped
<1> QED BY <1>1, AskedStays

\* Which lines the host sends: an order to arm only when it asks.
LEMMA HostOrders ==
  ASSUME BridgeInv, HostStep
  PROVE  \/ \E a \in Actions : Ask(a) /\ Sent(<<ArmLine(a, state)>>)
         \/ down' = down
         \/ \E lines \in Seq(DownLine) : Sent(lines) /\ \A i \in DOMAIN lines : ~Says(lines[i], "QA_ARM")
<1> DEFINE Harmless(lines) == \A i \in DOMAIN lines : ~Says(lines[i], "QA_ARM")
<1>0. ArmsTyped
  BY DEF BridgeInv, BridgeTyped
<1>1. CASE Connect \/ HandleHello \/ HandleState \/ HandlePong
  BY <1>1 DEF Connect, HandleHello, HandleState, HandlePong
<1>2. ASSUME NEW S, NEW disarms, RemoveLeases(S, disarms)
      PROVE  \E lines \in Seq(DownLine) : Sent(lines) /\ Harmless(lines)
  <2>1. [i \in 1..Cardinality(S \cap leases) |-> Disarm] \in Seq(DownLine) /\ <<>> \in Seq(DownLine)
    BY <1>0, DisarmsAre
  <2> DEFINE disarming == [i \in 1..Cardinality(S \cap leases) |-> Disarm]
  <2>2. Sent(IF disarms THEN disarming ELSE <<>>)
    BY <1>2 DEF RemoveLeases
  <2>3. disarming \in Seq(DownLine)
    BY <2>1
  <2>4. Harmless(disarming) /\ Harmless(<<>>)
    BY DEF Disarm, Says
  <2> HIDE DEF disarming, Harmless
  <2> QED BY <2>1, <2>2, <2>3, <2>4
<1>3. CASE Close \/ HandleClose \/ HandleRejected
  BY <1>2, <1>3 DEF Close, HandleClose, LoseBridge, HandleRejected
<1>4. CASE HandleMalformed \/ HandleArmed \/ HandleAck
  BY <1>2, <1>4 DEF HandleMalformed, LoseBridge, HandleArmed, HandleAck
<1>5. CASE SendPing
  <2>1. session \in Sessions
    BY <1>5 DEF SendPing, BridgeInv, ConnectionIsSound, EndsAreSound, HandshakeIsSound, BridgeTyped, HostTyped, Sessions
  <2>2. Ping \in DownLine /\ ~Says(Ping, "QA_ARM")
    BY <2>1 DEF Ping, DownLine, Says
  <2>3. <<Ping>> \in Seq(DownLine) /\ Harmless(<<Ping>>)
    BY <2>2
  <2> HIDE DEF Harmless
  <2>4. \E lines \in Seq(DownLine) : Sent(lines) /\ Harmless(lines)
    BY <1>5, <2>3 DEF SendPing
  <2> QED BY <2>4 DEF Harmless
<1>6. ASSUME NEW a \in Actions, Ask(a) PROVE Sent(<<ArmLine(a, state)>>)
  BY <1>6 DEF Ask
<1>7. ASSUME NEW a \in Actions, AskUnready(a) \/ TimerFires(a) \/ ExecuteReturns(a) \/ ExecuteThrows(a)
      PROVE  down' = down \/ \E lines \in Seq(DownLine) : Sent(lines) /\ Harmless(lines)
  <2>1. <<>> \in Seq(DownLine) /\ <<Disarm>> \in Seq(DownLine)
    BY <1>0, DisarmsAre
  <2>2. Harmless(<<>>) /\ Harmless(<<Disarm>>)
    BY DEF Disarm, Says
  <2> HIDE DEF Harmless
  <2> QED BY <1>7, <2>1, <2>2 DEF AskUnready, TimerFires, ExecuteReturns, ExecuteThrows
<1> QED BY <1>1, <1>3, <1>4, <1>5, <1>6, <1>7 DEF HostStep

LEMMA OrdersStayOfArms ==
  ASSUME BridgeInv, Next
  PROVE  OrdersAreOfArms'
<1>0. /\ inbound \in Seq(DownLine) /\ down \in [Sessions -> Seq(DownLine)]
      /\ session \in 0..MaxSessions /\ reader \in 0..MaxSessions /\ BridgeTyped
      /\ OrdersAreAskedFor(inbound) /\ \A s \in Sessions : OrdersAreAskedFor(down[s])
  BY DEF BridgeInv, BridgeTyped, WireTyped, HostTyped, AppTyped, ArmsAreAskedFor, OrdersAreOfArms
<1> DEFINE Asks(l) == asked'[l.action] # None /\ asked'[l.action].screen = l.screen
<1>1. ASSUME NEW q \in Seq(DownLine), OrdersAreAskedFor(q)
      PROVE  \A i \in DOMAIN q : Says(q[i], "QA_ARM") => Asks(q[i])
  <2>1. \A i \in DOMAIN q : q[i] \in DownLine
    BY <1>1
  <2> QED BY <1>1, <2>1, AskedIsKept, OrderIs DEF OrdersAreAskedFor, AskedFor
<1>2. \A i \in DOMAIN inbound : Says(inbound[i], "QA_ARM") => Asks(inbound[i])
  BY <1>0, <1>1
<1>3. \A s \in Sessions : \A i \in DOMAIN down[s] : Says(down[s][i], "QA_ARM") => Asks(down[s][i])
  BY <1>0, <1>1
<1>4. SUFFICES /\ \A i \in DOMAIN inbound' : Says(inbound'[i], "QA_ARM") => Asks(inbound'[i])
               /\ \A s \in Sessions : \A i \in DOMAIN down'[s] : Says(down'[s][i], "QA_ARM") => Asks(down'[s][i])
  BY DEF OrdersAreOfArms, OrdersAreAskedFor, AskedFor, Says
<1>5. wire => session # 0
  BY DEF BridgeInv, ConnectionIsSound, EndsAreSound
<1>6. CASE HostStep
  <2>1. inbound' = inbound
    BY <1>6, HostLeavesDevice DEF device
  <2>2. ASSUME NEW lines \in Seq(DownLine), Sent(lines),
               \A i \in DOMAIN lines : Says(lines[i], "QA_ARM") => Asks(lines[i])
        PROVE  \A s \in Sessions : \A i \in DOMAIN down'[s] : Says(down'[s][i], "QA_ARM") => Asks(down'[s][i])
    <3> HIDE DEF Asks
    <3>1. \A s \in Sessions : down'[s] = IF wire /\ s = session THEN down[s] \o lines ELSE down[s]
      BY <1>0, <1>5, <2>2, SentIs
    <3>2. ASSUME NEW s \in Sessions, NEW i \in DOMAIN (down[s] \o lines)
          PROVE  Says((down[s] \o lines)[i], "QA_ARM") => Asks((down[s] \o lines)[i])
      <4>1. \/ i \in DOMAIN down[s] /\ (down[s] \o lines)[i] = down[s][i]
            \/ i - Len(down[s]) \in DOMAIN lines /\ (down[s] \o lines)[i] = lines[i - Len(down[s])]
        BY <1>0, <2>2, <3>2
      <4> QED BY <1>3, <2>2, <4>1
    <3> QED BY <1>3, <3>1, <3>2
  <2>3. ASSUME NEW a \in Actions, Ask(a), Sent(<<ArmLine(a, state)>>)
        PROVE  \A s \in Sessions : \A i \in DOMAIN down'[s] : Says(down'[s][i], "QA_ARM") => Asks(down'[s][i])
    <3>1. status = "ready"
      BY <2>3 DEF Ask, Calibrated
    <3>2. state \in Screens /\ hello \in 1..MaxApps
      BY <3>1 DEF BridgeInv, ConnectionIsSound, HandshakeIsSound, BridgeTyped, HostTyped, Screens
    <3>3. [screen |-> state, app |-> hello] # None
      BY <3>2, BridgeAssumption
    <3>4. asked' = [asked EXCEPT ![a] = [screen |-> state, app |-> hello]] /\ asked \in [Actions -> AskedArm \cup {None}]
      BY <2>3 DEF Ask, BridgeInv, BridgeTyped, ArmsTyped
    <3>5. Asks(ArmLine(a, state))
      BY <3>3, <3>4 DEF ArmLine
    <3>6. ArmLine(a, state) \in DownLine
      BY <3>2 DEF ArmLine, DownLine
    <3> DEFINE line == ArmLine(a, state)
    <3>7. line \in DownLine /\ Asks(line) /\ Sent(<<line>>)
      BY <2>3, <3>5, <3>6
    <3> HIDE DEF line, Asks
    <3>8. <<line>> \in Seq(DownLine) /\ \A i \in DOMAIN <<line>> : Asks(<<line>>[i])
      BY <3>7
    <3> QED BY <2>2, <3>7, <3>8
  <2> HIDE DEF Asks
  <2> QED BY <1>0, <1>2, <1>3, <1>6, <2>1, <2>2, <2>3, HostOrders
<1>7. CASE Read
  <2>1. reader \in Sessions
    BY <1>0, <1>7 DEF Read, Sessions
  <2> DEFINE lines == down[reader]
  <2>2. /\ lines \in Seq(DownLine) /\ lines # <<>> /\ inbound' = Append(inbound, Head(lines))
        /\ down' = [down EXCEPT ![reader] = Tail(lines)]
    BY <1>0, <1>7, <2>1 DEF Read
  <2>3. \A i \in DOMAIN lines : Says(lines[i], "QA_ARM") => Asks(lines[i])
    BY <1>3, <2>1
  <2> HIDE DEF lines, Asks
  <2>4. /\ Head(lines) \in DownLine /\ 1 \in DOMAIN lines /\ Head(lines) = lines[1]
        /\ \A i \in DOMAIN Tail(lines) : i + 1 \in DOMAIN lines /\ Tail(lines)[i] = lines[i + 1]
    BY <2>2, TailAt
  <2>5. \A i \in DOMAIN inbound' : (i \in DOMAIN inbound /\ inbound'[i] = inbound[i]) \/ inbound'[i] = lines[1]
    BY <1>0, <2>2, <2>4, AppendAt
  <2>6. \A s \in Sessions : down'[s] = IF s = reader THEN Tail(lines) ELSE down[s]
    BY <1>0, <2>2
  <2>7. \A i \in DOMAIN inbound' : Says(inbound'[i], "QA_ARM") => Asks(inbound'[i])
    BY <1>2, <2>3, <2>4, <2>5
  <2>8. ASSUME NEW s \in Sessions, NEW i \in DOMAIN down'[s], Says(down'[s][i], "QA_ARM")
        PROVE  Asks(down'[s][i])
    <3>1. CASE s = reader
      <4>1. i \in DOMAIN Tail(lines) /\ down'[s][i] = Tail(lines)[i]
        BY <2>6, <2>8, <3>1
      <4> QED BY <2>3, <2>4, <2>8, <4>1
    <3>2. CASE s # reader
      BY <1>3, <2>6, <2>8, <3>2
    <3> QED BY <3>1, <3>2
  <2> QED BY <2>7, <2>8
<1>8. CASE HandlePing \/ HandleArm \/ HandleDisarm
  <2>1. inbound' = Tail(inbound) /\ inbound # <<>> /\ down' = down
    BY <1>8 DEF HandlePing, HandleArm, HandleDisarm, Handle
  <2> HIDE DEF Asks
  <2>2. \A i \in DOMAIN Tail(inbound) : i + 1 \in DOMAIN inbound /\ Tail(inbound)[i] = inbound[i + 1]
    BY <1>0, <2>1, TailAt
  <2> QED BY <1>2, <1>3, <2>1, <2>2
<1>9. CASE ReaderEnds \/ AppRestarts
  <2> HIDE DEF Asks
  <2>1. \A s \in Sessions : down'[s] \in {down[s], <<>>}
    BY <1>0, <1>9 DEF ReaderEnds, AppRestarts
  <2>2. inbound' \in {inbound, <<>>}
    BY <1>9 DEF ReaderEnds, AppRestarts
  <2> QED BY <1>2, <1>3, <2>1, <2>2
<1>10. CASE UNCHANGED <<inbound, down>>
  BY <1>2, <1>3, <1>10
<1> HIDE DEF Asks
<1>11. CASE Accept \/ WriteFails \/ Greet \/ PublishState \/ ScreenChanges \/ LinkBreaks
  BY <1>10, <1>11 DEF Accept, WriteFails, Greet, PublishState, ScreenChanges, LinkBreaks, device
<1>12. ASSUME NEW a \in Actions, Gesture(a) \/ Expire(a) PROVE UNCHANGED <<inbound, down>>
  BY <1>12, ObserveIs DEF Gesture, Expire
<1>13. ASSUME NEW shape \in Shapes, StrayTouch(shape) PROVE UNCHANGED <<inbound, down>>
  BY <1>13, ObserveIs DEF StrayTouch
<1> QED BY <1>6, <1>7, <1>8, <1>9, <1>10, <1>11, <1>12, <1>13 DEF Next, DeviceStep, Surroundings

LEMMA GateStaysOfArm ==
  ASSUME BridgeInv, Next
  PROVE  GateIsOfArm'
<1>0. /\ GateIsOfArm /\ OrdersAreAskedFor(inbound) /\ inbound \in Seq(DownLine) /\ gate \in Arm \cup {None}
  BY DEF BridgeInv, BridgeTyped, WireTyped, AppTyped, ArmsAreAskedFor, OrdersAreOfArms
<1>1. gate # None => gate.action \in Actions
  BY <1>0 DEF Arm
<1>2. CASE gate' \in {gate, None}
  BY <1>0, <1>1, <1>2, AskedIsKept DEF GateIsOfArm, AskedFor
<1>3. CASE HandleArm
  <2> DEFINE g == [action |-> Head(inbound).action, screen |-> Head(inbound).screen]
  <2>1. inbound # <<>> /\ Says(Head(inbound), "QA_ARM")
    BY <1>3 DEF HandleArm, Handle, Says
  <2>2. Head(inbound).action \in Actions /\ AskedFor(Head(inbound))
    BY <1>0, <2>1, TailAt, OrderIs DEF OrdersAreAskedFor
  <2>3. AskedFor(g) /\ g.action \in Actions
    BY <2>2 DEF AskedFor
  <2>4. gate' = g \/ gate' = gate
    BY <1>3 DEF HandleArm
  <2> HIDE DEF g
  <2> QED BY <1>2, <2>3, <2>4, AskedIsKept DEF GateIsOfArm, AskedFor
<1>4. CASE HostStep
  BY <1>2, <1>4, HostLeavesDevice DEF device
<1>5. CASE Accept \/ Read \/ ReaderEnds \/ WriteFails \/ Greet \/ HandlePing \/ HandleDisarm \/ PublishState
  BY <1>2, <1>5 DEF Accept, Read, ReaderEnds, WriteFails, Greet, HandlePing, HandleDisarm, PublishState
<1>6. CASE ScreenChanges \/ AppRestarts \/ LinkBreaks
  BY <1>2, <1>6 DEF ScreenChanges, AppRestarts, LinkBreaks, device
<1>7. ASSUME NEW a \in Actions, Gesture(a) \/ Expire(a) PROVE gate' \in {gate, None}
  BY <1>7, ObserveIs DEF Gesture, Expire
<1>8. ASSUME NEW shape \in Shapes, StrayTouch(shape) PROVE gate' \in {gate, None}
  BY <1>8, ObserveIs DEF StrayTouch
<1> QED BY <1>2, <1>3, <1>4, <1>5, <1>6, <1>7, <1>8 DEF Next, DeviceStep, Surroundings

\* What the app has observed stays, and was asked for.
LEMMA InputsStayOfArms ==
  ASSUME BridgeInv, Next
  PROVE  InputsAreOfArms' /\ \A a \in Actions : observed[a] # None => observed'[a] # None
<1>0. /\ InputsAreOfArms /\ GateIsOfArm /\ gate \in Arm \cup {None} /\ observed \in [Actions -> Input \cup {None}]
  BY DEF BridgeInv, BridgeTyped, AppTyped, ArmsAreAskedFor
<1>1. CASE observed' = observed
  BY <1>0, <1>1, AskedIsKept DEF InputsAreOfArms
<1>2. ASSUME NEW shape, Observe(shape)
      PROVE  InputsAreOfArms' /\ \A a \in Actions : observed[a] # None => observed'[a] # None
  <2>1. CASE observed' # observed
    <3> DEFINE x == gate.action
               input == [shape |-> ShapeOf[gate.action], screen |-> gate.screen]
    <3>1. gate # None /\ observed' = [observed EXCEPT ![x] = input]
      BY <1>2, <2>1, ObserveIs
    <3>2. x \in Actions /\ gate.screen \in Screens /\ ShapeOf[x] \in Shapes
      BY <1>0, <3>1, BridgeAssumption DEF Arm
    <3>3. input # None
      BY <3>2, BridgeAssumption
    <3>4. asked[x] # None /\ input = [shape |-> ShapeOf[x], screen |-> asked[x].screen]
      BY <1>0, <3>1 DEF GateIsOfArm, AskedFor
    <3> HIDE DEF x, input
    <3> QED BY <1>0, <3>1, <3>2, <3>3, <3>4, AskedIsKept DEF InputsAreOfArms
  <2> QED BY <1>1, <2>1
<1>3. CASE HostStep
  BY <1>1, <1>3, HostLeavesDevice DEF device
<1>4. CASE Accept \/ Read \/ ReaderEnds \/ WriteFails \/ Greet \/ HandlePing \/ HandleArm \/ HandleDisarm \/ PublishState
  BY <1>1, <1>4 DEF Accept, Read, ReaderEnds, WriteFails, Greet, HandlePing, HandleArm, HandleDisarm, Handle, PublishState
<1>5. CASE ScreenChanges \/ AppRestarts \/ LinkBreaks
  BY <1>1, <1>5 DEF ScreenChanges, AppRestarts, LinkBreaks, device
<1>6. CASE \E a \in Actions : Expire(a)
  BY <1>1, <1>6 DEF Expire
<1>7. CASE \E a \in Actions : Gesture(a)
  BY <1>2, <1>7 DEF Gesture
<1>8. CASE \E shape \in Shapes : StrayTouch(shape)
  BY <1>2, <1>8 DEF StrayTouch
<1> QED BY <1>3, <1>4, <1>5, <1>6, <1>7, <1>8 DEF Next, DeviceStep, Surroundings

\* The app answers only for arms that were asked for; an acknowledgement only for an
\* input it has observed.
LEMMA AppAnswersWell ==
  ASSUME BridgeInv, DeviceStep \/ Surroundings
  PROVE  \/ up' = up
         \/ \E line \in UpLine :
              /\ Written(line)
              /\ line.type \in Answers =>
                   AskedFor(line) /\ (Says(line, "QA_ACK") => observed'[line.action] # None)
<1> DEFINE Well(line) == line.type \in Answers =>
                           AskedFor(line) /\ (Says(line, "QA_ACK") => observed'[line.action] # None)
<1>0. /\ app \in 1..MaxApps /\ screen \in Screens /\ inbound \in Seq(DownLine) /\ gate \in Arm \cup {None}
      /\ observed \in [Actions -> Input \cup {None}]
      /\ OrdersAreAskedFor(inbound) /\ GateIsOfArm
  BY DEF BridgeInv, BridgeTyped, AppTyped, WireTyped, ArmsAreAskedFor, OrdersAreOfArms
<1>1. ASSUME NEW type \in Answers, NEW g \in Arm, AskedFor(g), type = "QA_ACK" => observed'[g.action] # None
      PROVE  Answer(type, g) \in UpLine /\ Well(Answer(type, g))
  <2>1. Answer(type, g) \in UpLine /\ Answer(type, g).type = type
        /\ Answer(type, g).action = g.action /\ Answer(type, g).screen = g.screen
    BY <1>0, AnswersAre
  <2> DEFINE line == Answer(type, g)
  <2>2. line \in UpLine /\ line.type = type /\ line.action = g.action /\ line.screen = g.screen
    BY <2>1
  <2> HIDE DEF line
  <2>3. line \in UpLine /\ Well(line)
    BY <1>1, <2>2 DEF AskedFor, Says
  <2> QED BY <2>3 DEF line
<1>2. Hello \in UpLine /\ State \in UpLine /\ Malformed \in UpLine
      /\ Well(Hello) /\ Well(State) /\ Well(Malformed)
  BY <1>0 DEF Hello, State, Malformed, UpLine, Answers
<1>3. CASE Greet \/ PublishState
  <2> HIDE DEF Well
  <2>1. \E line \in UpLine : Written(line) /\ Well(line)
    BY <1>2, <1>3 DEF Greet, PublishState
  <2> QED BY <2>1 DEF Well
<1>4. CASE HandlePing
  <2>1. inbound # <<>> /\ Says(Head(inbound), "QA_PING")
    BY <1>4 DEF HandlePing, Handle, Says
  <2>2. Head(inbound).by \in Sessions
    BY <1>0, <2>1, TailAt, OrderIs
  <2>3. Pong(Head(inbound).by) \in UpLine /\ Well(Pong(Head(inbound).by))
    BY <2>2 DEF Pong, UpLine, Answers
  <2> HIDE DEF Well
  <2>4. \E line \in UpLine : Written(line) /\ Well(line)
    BY <1>4, <2>3 DEF HandlePing
  <2> QED BY <2>4 DEF Well
<1>5. CASE HandleArm
  <2> DEFINE g == [action |-> Head(inbound).action, screen |-> Head(inbound).screen]
  <2>1. inbound # <<>> /\ Says(Head(inbound), "QA_ARM")
    BY <1>5 DEF HandleArm, Handle, Says
  <2>2. Head(inbound).action \in Actions /\ Head(inbound).screen \in Screens /\ AskedFor(Head(inbound))
    BY <1>0, <2>1, TailAt, OrderIs DEF OrdersAreAskedFor
  <2>3. g \in Arm /\ AskedFor(g)
    BY <2>2 DEF Arm, AskedFor
  <2>4. Written(Answer("QA_ARMED", g)) \/ Written(Answer("QA_REJECTED", g))
    BY <1>5 DEF HandleArm
  <2>5. "QA_ARMED" \in Answers /\ "QA_REJECTED" \in Answers
    BY DEF Answers
  <2> HIDE DEF g, Well
  <2>6. \E line \in UpLine : Written(line) /\ Well(line)
    BY <1>1, <2>3, <2>4, <2>5
  <2> QED BY <2>6 DEF Well
<1>6. ASSUME NEW shape, Observe(shape)
      PROVE  up' = up \/ \E line \in UpLine : Written(line) /\ Well(line)
  <2>1. gate # None => gate \in Arm /\ AskedFor(gate) /\ gate.action \in Actions /\ gate.screen \in Screens
    BY <1>0 DEF GateIsOfArm, Arm
  <2>2. "QA_ACK" \in Answers /\ "QA_REJECTED" \in Answers
    BY DEF Answers
  <2>3. gate # None /\ observed' = [observed EXCEPT ![gate.action] =
                                 [shape |-> ShapeOf[gate.action], screen |-> gate.screen]]
        => observed'[gate.action] # None
    <3>1. gate # None => [shape |-> ShapeOf[gate.action], screen |-> gate.screen] # None
      BY <2>1, BridgeAssumption
    <3> QED BY <1>0, <2>1, <3>1
  <2> HIDE DEF Well
  <2> QED BY <1>1, <1>2, <1>6, <2>1, <2>2, <2>3, ObserveIs
<1>7. ASSUME NEW a \in Actions, Gesture(a)
      PROVE  up' = up \/ \E line \in UpLine : Written(line) /\ Well(line)
  <2> HIDE DEF Well
  <2> QED BY <1>6, <1>7 DEF Gesture
<1>8. ASSUME NEW shape \in Shapes, StrayTouch(shape)
      PROVE  up' = up \/ \E line \in UpLine : Written(line) /\ Well(line)
  <2> HIDE DEF Well
  <2> QED BY <1>6, <1>8 DEF StrayTouch
<1>9. CASE Accept \/ Read \/ ReaderEnds \/ WriteFails \/ HandleDisarm \/ ScreenChanges \/ AppRestarts \/ LinkBreaks
  BY <1>9 DEF Accept, Read, ReaderEnds, WriteFails, HandleDisarm, ScreenChanges, AppRestarts, LinkBreaks
<1>10. ASSUME NEW a \in Actions, Expire(a) PROVE up' = up
  BY <1>10 DEF Expire
<1> QED BY <1>3, <1>4, <1>5, <1>7, <1>8, <1>9, <1>10 DEF DeviceStep, Surroundings

LEMMA AnswersStayOfArms ==
  ASSUME BridgeInv, Next
  PROVE  AnswersAreOfArms'
<1> DEFINE Well(line) == line.type \in Answers =>
              /\ asked'[line.action] # None /\ asked'[line.action].screen = line.screen
              /\ Says(line, "QA_ACK") => observed'[line.action] # None
<1>0. up \in Seq(UpLine) /\ AnswersAreOfArms
  BY DEF BridgeInv, BridgeTyped, WireTyped, ArmsAreAskedFor
<1>1. \A i \in DOMAIN up : Well(up[i])
  <2>1. \A i \in DOMAIN up : up[i] \in UpLine
    BY <1>0
  <2> QED BY <1>0, <2>1, LineIs, AskedIsKept, InputsStayOfArms DEF AnswersAreOfArms, AnswersWell, AskedFor
<1>2. SUFFICES \A i \in DOMAIN up' : Well(up'[i])
  BY DEF AnswersAreOfArms, AnswersWell, AskedFor, Says
<1>3. CASE HostStep
  <2> HIDE DEF Well
  <2>1. up # <<>> => \A i \in DOMAIN Tail(up) : i + 1 \in DOMAIN up /\ Tail(up)[i] = up[i + 1]
    BY <1>0, TailAt
  <2> QED BY <1>1, <1>3, <2>1, HostReads
<1>4. CASE DeviceStep \/ Surroundings
  <2>1. ASSUME NEW line \in UpLine, Written(line),
               line.type \in Answers => AskedFor(line) /\ (Says(line, "QA_ACK") => observed'[line.action] # None)
        PROVE  \A i \in DOMAIN up' : Well(up'[i])
    <3>1. Well(line)
      BY <2>1, LineIs, AskedIsKept DEF AskedFor
    <3> HIDE DEF Well
    <3>2. \A i \in DOMAIN Append(up, line) :
            (i \in DOMAIN up /\ Append(up, line)[i] = up[i]) \/ Append(up, line)[i] = line
      BY <1>0, <2>1, AppendAt
    <3> QED BY <1>0, <1>1, <2>1, <3>1, <3>2, WrittenIs
  <2> HIDE DEF Well
  <2> QED BY <1>1, <1>4, <2>1, AppAnswersWell
<1> QED BY <1>3, <1>4 DEF Next
-----------------------------------------------------------------------------
(* The leases.                                                             *)
LEMMA OneLease ==
  ASSUME BridgeTyped, LeasesAreHeld, NEW a \in leases, NEW b \in leases
  PROVE  a = b
<1>1. a \in Actions /\ b \in Actions /\ a \in Nat /\ b \in Nat
  BY DEF BridgeTyped, ArmsTyped, Actions
<1>2. act[a] \in Live /\ act[b] \in Live
  BY DEF LeasesAreHeld, LeaseFits, Live
<1>3. act[a] # "idle" /\ act[a] \notin Verdicts /\ act[b] # "idle" /\ act[b] \notin Verdicts
  BY <1>2 DEF Live, Verdicts
<1> QED BY <1>1, <1>3 DEF LeasesAreHeld

\* The next action is asked for when nothing is under way.
LEMMA TurnIsFree ==
  ASSUME BridgeTyped, LeasesAreHeld, NEW a \in Actions, Turn(a)
  PROVE  /\ leases = {} /\ act[a] = "idle" /\ asked[a] = None /\ outcome[a] = "open"
         /\ \A b \in Actions : (b < a => act[b] \in Verdicts) /\ (a < b => act[b] = "idle")
<1>1. act[a] = "idle" /\ act[a] \notin Verdicts /\ a \in Nat /\ Actions \subseteq Nat
  BY DEF Turn, Actions, Verdicts
<1>2. \A b \in Actions : b < a => act[b] \in Verdicts
  BY DEF Turn, Actions
<1>3. \A b \in Actions : a < b => act[b] = "idle"
  BY <1>1 DEF LeasesAreHeld
<1>4. \A b \in leases : b \in Actions /\ act[b] \in Live
  BY DEF LeasesAreHeld, LeaseFits, Live, BridgeTyped, ArmsTyped
<1>5. \A b \in leases : act[b] # "idle" /\ act[b] \notin Verdicts
  BY <1>4 DEF Live, Verdicts
<1>6. ASSUME NEW b \in leases PROVE FALSE
  <2>0. b \in Nat /\ a \in Nat
    BY <1>1, <1>4, <1>6
  <2>1. b = a \/ b < a \/ a < b
    BY <2>0
  <2> QED BY <1>1, <1>2, <1>3, <1>4, <1>5, <1>6, <2>1
<1> QED BY <1>1, <1>2, <1>3, <1>6 DEF LeasesAreHeld

ArmsStayHeld == LeasesAreHeld' /\ OutcomesAreOfInputs'

LEMMA DroppingKeeps ==
  ASSUME BridgeInv, NEW S,
         \A a \in Actions : a \in S => asked[a] # None,
         leases' = leases \ S, timers' = timers \ S, asked' = asked, observed' = observed,
         \A a \in Actions : outcome'[a] = IF a \in S /\ outcome[a] # "acked" THEN "rejected" ELSE outcome[a],
         \A a \in Actions : act'[a] = IF a \in S /\ act[a] = "arming" THEN "refused"
                                ELSE IF a \in S /\ act[a] = "waiting" THEN "failed" ELSE act[a],
         leases' # {} => status' = status /\ hello' = hello
  PROVE  ArmsStayHeld
<1>1. LeasesAreHeld /\ OutcomesAreOfInputs /\ leases \subseteq Actions
  BY DEF BridgeInv, ArmsAreAskedFor, BridgeTyped, ArmsTyped
<1>2. \A a \in Actions : (act'[a] = "idle" <=> act[a] = "idle") /\ (act[a] \in Verdicts => act'[a] = act[a])
                      /\ (act'[a] = "performed" => act[a] = "performed")
  BY DEF Verdicts
<1>3. \A a \in Actions : (outcome'[a] = "acked" <=> outcome[a] = "acked")
  OBVIOUS
<1>4. OutcomesAreOfInputs'
  BY <1>1, <1>2, <1>3 DEF OutcomesAreOfInputs
<1>5. \A a, b \in Actions : a < b /\ act'[b] # "idle" => act'[a] \in Verdicts
  BY <1>1, <1>2 DEF LeasesAreHeld
<1>6. \A a \in Actions : act'[a] = "idle" => asked'[a] = None /\ outcome'[a] = "open"
  BY <1>1, <1>2 DEF LeasesAreHeld
<1>7. \A a \in leases' : LeaseFits(a)' /\ status' = "ready" /\ asked'[a] # None /\ asked'[a].app = hello'
  BY <1>1 DEF LeasesAreHeld, LeaseFits
<1>8. timers' = leases' /\ (HostAhead => \A a \in Actions : outcome'[a] \in {"open", "rejected"})
  BY <1>1 DEF LeasesAreHeld
<1> QED BY <1>4, <1>5, <1>6, <1>7, <1>8 DEF ArmsStayHeld, LeasesAreHeld

LEMMA RemovingKeeps ==
  ASSUME BridgeInv, HostStep, NEW S, NEW disarms, RemoveLeases(S, disarms),
         \A a \in Actions : a \in S => asked[a] # None,
         leases' # {} => status' = status /\ hello' = hello
  PROVE  ArmsStayHeld
<1>1. ArmsTyped
  BY DEF BridgeInv, BridgeTyped
<1>2. observed' = observed
  BY HostLeavesDevice DEF device
<1> QED BY <1>1, <1>2, RemovedIs, DroppingKeeps

LEMMA RemovingOneKeeps ==
  ASSUME BridgeInv, HostStep, NEW x, NEW disarms, RemoveLeases({x}, disarms),
         asked[x] # None, UNCHANGED <<status, hello>>
  PROVE  ArmsStayHeld
<1> DEFINE S == {x}
<1>1. RemoveLeases(S, disarms) /\ \A a \in Actions : a \in S => asked[a] # None
  OBVIOUS
<1> HIDE DEF S
<1> QED BY <1>1, RemovingKeeps

LEMMA LeasesAreAsked ==
  ASSUME BridgeInv
  PROVE  /\ \A a \in leases : a \in Actions /\ asked[a] # None
         /\ status # "ready" => leases = {}
         /\ up # <<>> /\ Head(up).type \in Answers => Head(up).action \in Actions /\ asked[Head(up).action] # None
                                                      /\ Head(up).app \in 1..MaxApps
         /\ up # <<>> => AnswersWell(Head(up))
<1>1. \A a \in leases : a \in Actions /\ asked[a] # None
  BY DEF BridgeInv, LeasesAreHeld, BridgeTyped, ArmsTyped
<1>2. status # "ready" => leases = {}
  BY DEF BridgeInv, LeasesAreHeld
<1>3. up \in Seq(UpLine)
  BY DEF BridgeInv, BridgeTyped, WireTyped
<1>4. CASE up # <<>>
  <2>1. Head(up) \in UpLine /\ AnswersWell(Head(up))
    BY <1>3, <1>4, TailAt DEF BridgeInv, ArmsAreAskedFor, AnswersAreOfArms
  <2> QED BY <1>1, <1>2, <2>1, LineIs DEF AnswersWell, AskedFor
<1> QED BY <1>1, <1>2, <1>4

LEMMA ArmsStayHeldByHost ==
  ASSUME BridgeInv, HostStep
  PROVE  ArmsStayHeld
<1>0. /\ BridgeTyped /\ LeasesAreHeld /\ OutcomesAreOfInputs /\ leases \subseteq Actions /\ timers = leases
      /\ asked \in [Actions -> AskedArm \cup {None}]
      /\ outcome \in [Actions -> {"open", "armed", "acked", "rejected"}]
      /\ act \in [Actions -> Live \cup Verdicts \cup {"idle"}] /\ ArmsTyped
  BY DEF BridgeInv, ArmsAreAskedFor, BridgeTyped, ArmsTyped, LeasesAreHeld
<1>1. observed' = observed
  BY HostLeavesDevice DEF device
<1>2. CASE UNCHANGED armed /\ (leases # {} => status' = status /\ hello' = hello)
  <2>1. UNCHANGED <<leases, timers, asked, outcome, act>>
    BY <1>2 DEF armed
  <2> DEFINE S == {}
  <2>2. /\ \A a \in Actions : a \in S => asked[a] # None
        /\ leases' = leases \ S /\ timers' = timers \ S
        /\ \A a \in Actions : outcome'[a] = IF a \in S /\ outcome[a] # "acked" THEN "rejected" ELSE outcome[a]
        /\ \A a \in Actions : act'[a] = IF a \in S /\ act[a] = "arming" THEN "refused"
                                ELSE IF a \in S /\ act[a] = "waiting" THEN "failed" ELSE act[a]
        /\ leases' # {} => status' = status /\ hello' = hello
    BY <1>0, <1>2, <2>1
  <2> HIDE DEF S
  <2> QED BY <1>1, <2>1, <2>2, DroppingKeeps
<1>3. CASE Connect
  <2>1. leases = {}
    BY <1>3, LeasesAreAsked DEF Connect
  <2> QED BY <1>2, <1>3, <2>1 DEF Connect
<1>4. CASE HandleHello
  <2>1. up # <<>> /\ Says(Head(up), "QA_HELLO") /\ up \in Seq(UpLine)
    BY <1>4 DEF HandleHello, Line, Says, BridgeInv, BridgeTyped, WireTyped
  <2>2. ~NoHello(up)
    BY <2>1, TailAt DEF NoHello
  <2>3. status # "ready"
    BY <2>2 DEF BridgeInv, ConnectionIsSound, HandshakeIsSound
  <2>4. leases = {}
    BY <2>3, LeasesAreAsked
  <2> QED BY <1>2, <1>4, <2>4 DEF HandleHello
<1>5. CASE HandleState
  <2>1. leases # {} => status = "ready"
    BY LeasesAreAsked
  <2> QED BY <1>2, <1>5, <2>1 DEF HandleState
<1>6. CASE HandlePong \/ SendPing
  BY <1>2, <1>6 DEF HandlePong, SendPing
<1>7. CASE Close
  <2>1. RemoveLeases(leases, status = "ready")
    BY <1>7 DEF Close
  <2>2. leases' = {}
    BY <2>1 DEF RemoveLeases
  <2> QED BY <2>1, <2>2, RemovingKeeps, LeasesAreAsked
<1>8. CASE HandleClose \/ (HandleMalformed /\ state = 0)
  <2>1. RemoveLeases(leases, FALSE)
    BY <1>8 DEF HandleClose, HandleMalformed, LoseBridge
  <2>2. leases' = {}
    BY <2>1 DEF RemoveLeases
  <2> QED BY <2>1, <2>2, RemovingKeeps, LeasesAreAsked
<1>9. CASE HandleMalformed /\ state # 0
  BY <1>2, <1>9 DEF HandleMalformed
<1>10. CASE HandleRejected
  <2> DEFINE x == Head(up).action
  <2>1. RemoveLeases({x}, FALSE) /\ UNCHANGED <<status, hello>> /\ up # <<>> /\ Head(up).type = "QA_REJECTED"
    BY <1>10 DEF HandleRejected, Line
  <2>2. asked[x] # None
    BY <2>1, LeasesAreAsked DEF Answers
  <2> HIDE DEF x
  <2> QED BY <2>1, <2>2, RemovingOneKeeps
<1>11. CASE HandleArmed
  <2> DEFINE x == Head(up).action
  <2>1. UNCHANGED <<status, hello>> /\ up # <<>> /\ Head(up).type = "QA_ARMED"
    BY <1>11 DEF HandleArmed, Line
  <2>2. x \in Actions /\ asked[x] # None
    BY <2>1, LeasesAreAsked DEF Answers
  <2>3. \/ UNCHANGED armed
        \/ RemoveLeases({x}, TRUE)
        \/ /\ ~HostAhead /\ x \in leases
           /\ outcome' = [outcome EXCEPT ![x] = "armed"] /\ act' = [act EXCEPT ![x] = "acting"]
           /\ UNCHANGED <<leases, timers, asked>>
    BY <1>11 DEF HandleArmed, ParserDrops
  <2> HIDE DEF x
  <2>4. CASE RemoveLeases({x}, TRUE)
    BY <2>1, <2>2, <2>4, RemovingOneKeeps
  <2>5. CASE /\ ~HostAhead /\ x \in leases
             /\ outcome' = [outcome EXCEPT ![x] = "armed"] /\ act' = [act EXCEPT ![x] = "acting"]
             /\ UNCHANGED <<leases, timers, asked>>
    <3>1. act[x] \in Live /\ act[x] # "idle" /\ act[x] \notin Verdicts /\ act[x] # "performed"
      BY <1>0, <2>5 DEF LeasesAreHeld, LeaseFits, Live, Verdicts
    <3>2. OutcomesAreOfInputs'
      BY <1>0, <1>1, <2>5, <3>1 DEF OutcomesAreOfInputs
    <3>3. \A a, b \in Actions : a < b /\ act'[b] # "idle" => act'[a] \in Verdicts
      BY <1>0, <2>2, <2>5, <3>1 DEF LeasesAreHeld
    <3>4. /\ \A a \in Actions : act'[a] = "idle" => asked'[a] = None /\ outcome'[a] = "open"
          /\ timers' = leases' /\ (HostAhead => \A a \in Actions : outcome'[a] \in {"open", "rejected"})
      BY <1>0, <2>5, <3>1 DEF LeasesAreHeld
    <3>5. \A a \in leases' : LeaseFits(a)' /\ status' = "ready" /\ asked'[a] # None /\ asked'[a].app = hello'
      BY <1>0, <2>1, <2>2, <2>5 DEF LeasesAreHeld, LeaseFits
    <3> QED BY <3>2, <3>3, <3>4, <3>5 DEF ArmsStayHeld, LeasesAreHeld
  <2> QED BY <1>2, <2>1, <2>3, <2>4, <2>5
<1>12. CASE HandleAck
  <2> DEFINE x == Head(up).action
  <2>1. UNCHANGED <<status, hello>> /\ up # <<>> /\ Head(up).type = "QA_ACK"
    BY <1>12 DEF HandleAck, Line
  <2>2. x \in Actions /\ asked[x] # None /\ observed[x] # None
    BY <2>1, LeasesAreAsked DEF Answers, AnswersWell, Says
  <2>3. \/ UNCHANGED armed
        \/ RemoveLeases({x}, TRUE)
        \/ /\ ~HostAhead /\ x \in leases /\ outcome[x] # "open"
           /\ outcome' = [outcome EXCEPT ![x] = "acked"] /\ asked' = asked
           /\ \/ act[x] = "waiting" /\ leases' = leases \ {x} /\ timers' = timers \ {x}
                 /\ act' = [act EXCEPT ![x] = "performed"]
              \/ act[x] # "waiting" /\ UNCHANGED <<leases, timers, act>>
    BY <1>12 DEF HandleAck, ParserDrops, Consume, StopTimeout
  <2> HIDE DEF x
  <2>4. CASE RemoveLeases({x}, TRUE)
    BY <2>1, <2>2, <2>4, RemovingOneKeeps
  <2>5. CASE /\ ~HostAhead /\ x \in leases /\ outcome[x] # "open"
             /\ outcome' = [outcome EXCEPT ![x] = "acked"] /\ asked' = asked
             /\ \/ act[x] = "waiting" /\ leases' = leases \ {x} /\ timers' = timers \ {x}
                   /\ act' = [act EXCEPT ![x] = "performed"]
                \/ act[x] # "waiting" /\ UNCHANGED <<leases, timers, act>>
    <3>1. act[x] \in {"acting", "waiting"} /\ act[x] # "idle" /\ act[x] \notin Verdicts
      BY <1>0, <2>5 DEF LeasesAreHeld, LeaseFits, Verdicts
    <3>2. OutcomesAreOfInputs'
      BY <1>0, <1>1, <2>2, <2>5 DEF OutcomesAreOfInputs
    <3>3. \A a \in Actions : (act'[a] = "idle" <=> act[a] = "idle") /\ (act[a] \in Verdicts => act'[a] \in Verdicts)
      BY <1>0, <2>2, <2>5, <3>1 DEF Verdicts
    <3>4. \A a, b \in Actions : a < b /\ act'[b] # "idle" => act'[a] \in Verdicts
      BY <1>0, <3>3 DEF LeasesAreHeld
    <3>5. /\ \A a \in Actions : act'[a] = "idle" => asked'[a] = None /\ outcome'[a] = "open"
          /\ timers' = leases' /\ (HostAhead => \A a \in Actions : outcome'[a] \in {"open", "rejected"})
      BY <1>0, <2>5, <3>1, <3>3 DEF LeasesAreHeld
    <3>6. \A a \in leases' : LeaseFits(a)' /\ status' = "ready" /\ asked'[a] # None /\ asked'[a].app = hello'
      BY <1>0, <2>1, <2>2, <2>5, <3>1 DEF LeasesAreHeld, LeaseFits
    <3> QED BY <3>2, <3>4, <3>5, <3>6 DEF ArmsStayHeld, LeasesAreHeld
  <2> QED BY <1>2, <2>1, <2>3, <2>4, <2>5
<1>13. ASSUME NEW a \in Actions, Ask(a) PROVE ArmsStayHeld
  <2> DEFINE arm == [screen |-> state, app |-> hello]
  <2>1. /\ Turn(a) /\ status = "ready" /\ leases' = leases \cup {a} /\ timers' = timers \cup {a}
        /\ asked' = [asked EXCEPT ![a] = arm] /\ act' = [act EXCEPT ![a] = "arming"]
        /\ UNCHANGED <<status, hello, outcome>>
    BY <1>13 DEF Ask, Calibrated, host
  <2>2. arm # None /\ arm.app = hello
    <3>1. state \in Screens /\ hello \in 1..MaxApps
      BY <2>1 DEF BridgeInv, ConnectionIsSound, HandshakeIsSound, BridgeTyped, HostTyped, Screens
    <3> QED BY <3>1, BridgeAssumption
  <2> HIDE DEF arm
  <2>3. /\ leases = {} /\ act[a] = "idle" /\ asked[a] = None /\ outcome[a] = "open"
        /\ \A b \in Actions : (b < a => act[b] \in Verdicts) /\ (a < b => act[b] = "idle")
    BY <1>0, <2>1, TurnIsFree
  <2>4. OutcomesAreOfInputs'
    BY <1>0, <1>1, <2>1 DEF OutcomesAreOfInputs
  <2>5. \A b, c \in Actions : b < c /\ act'[c] # "idle" => act'[b] \in Verdicts
    <3> SUFFICES ASSUME NEW b \in Actions, NEW c \in Actions, b < c, act'[c] # "idle" PROVE act'[b] \in Verdicts
      OBVIOUS
    <3>1. CASE c = a
      BY <1>0, <2>1, <2>3, <3>1 DEF Actions
    <3>2. CASE c # a
      <4>1. act[c] # "idle"
        BY <1>0, <2>1, <3>2
      <4>2. act[b] \in Verdicts
        BY <1>0, <4>1 DEF LeasesAreHeld
      <4>3. b # a
        BY <2>3, <4>2 DEF Verdicts
      <4> QED BY <1>0, <2>1, <4>2, <4>3
    <3> QED BY <3>1, <3>2
  <2>6. /\ \A b \in Actions : act'[b] = "idle" => asked'[b] = None /\ outcome'[b] = "open"
        /\ timers' = leases' /\ (HostAhead => \A b \in Actions : outcome'[b] \in {"open", "rejected"})
    BY <1>0, <2>1 DEF LeasesAreHeld
  <2>7. \A b \in leases' : LeaseFits(b)' /\ status' = "ready" /\ asked'[b] # None /\ asked'[b].app = hello'
    BY <1>0, <2>1, <2>2, <2>3 DEF LeaseFits
  <2> QED BY <2>4, <2>5, <2>6, <2>7 DEF ArmsStayHeld, LeasesAreHeld
<1>14. ASSUME NEW a \in Actions, AskUnready(a) PROVE ArmsStayHeld
  <2>1. /\ Turn(a) /\ act' = [act EXCEPT ![a] = "refused"]
        /\ UNCHANGED <<status, hello, outcome, asked, leases, timers>>
    BY <1>14 DEF AskUnready, host
  <2>3. /\ leases = {} /\ act[a] = "idle" /\ asked[a] = None /\ outcome[a] = "open"
        /\ \A b \in Actions : (b < a => act[b] \in Verdicts) /\ (a < b => act[b] = "idle")
    BY <1>0, <2>1, TurnIsFree
  <2>4. OutcomesAreOfInputs'
    BY <1>0, <1>1, <2>1 DEF OutcomesAreOfInputs
  <2>5. \A b, c \in Actions : b < c /\ act'[c] # "idle" => act'[b] \in Verdicts
    <3> SUFFICES ASSUME NEW b \in Actions, NEW c \in Actions, b < c, act'[c] # "idle" PROVE act'[b] \in Verdicts
      OBVIOUS
    <3>1. CASE c = a
      BY <1>0, <2>1, <2>3, <3>1 DEF Actions
    <3>2. CASE c # a
      <4>1. act[c] # "idle"
        BY <1>0, <2>1, <3>2
      <4>2. act[b] \in Verdicts
        BY <1>0, <4>1 DEF LeasesAreHeld
      <4>3. b # a
        BY <2>3, <4>2 DEF Verdicts
      <4> QED BY <1>0, <2>1, <4>2, <4>3
    <3> QED BY <3>1, <3>2
  <2>6. /\ \A b \in Actions : act'[b] = "idle" => asked'[b] = None /\ outcome'[b] = "open"
        /\ timers' = leases' /\ (HostAhead => \A b \in Actions : outcome'[b] \in {"open", "rejected"})
    BY <1>0, <2>1 DEF LeasesAreHeld
  <2>7. \A b \in leases' : LeaseFits(b)' /\ status' = "ready" /\ asked'[b] # None /\ asked'[b].app = hello'
    BY <2>1, <2>3
  <2> QED BY <2>4, <2>5, <2>6, <2>7 DEF ArmsStayHeld, LeasesAreHeld
<1>15. ASSUME NEW a \in Actions, TimerFires(a) PROVE ArmsStayHeld
  <2>1. a \in leases /\ asked[a] # None
    BY <1>0, <1>15, LeasesAreAsked DEF TimerFires
  <2>2. /\ leases' = leases \ {a} /\ timers' = timers \ {a} /\ UNCHANGED <<asked, status, hello>>
        /\ outcome' = Rejected({a}) /\ act' = Abandoned({a})
    BY <1>15 DEF TimerFires, host
  <2>3. /\ \A b \in Actions : outcome'[b] = IF b \in {a} /\ outcome[b] # "acked" THEN "rejected" ELSE outcome[b]
        /\ \A b \in Actions : act'[b] = IF b \in {a} /\ act[b] = "arming" THEN "refused"
                                ELSE IF b \in {a} /\ act[b] = "waiting" THEN "failed" ELSE act[b]
    BY <2>2 DEF Rejected, Abandoned
  <2> QED BY <1>1, <2>1, <2>2, <2>3, DroppingKeeps
<1>16. ASSUME NEW a \in Actions, ExecuteReturns(a) \/ ExecuteThrows(a) PROVE ArmsStayHeld
  <2>1. /\ act[a] = "acting" /\ leases' \in {leases, leases \ {a}} /\ timers' = leases' /\ UNCHANGED <<asked, status, hello>>
        /\ \/ outcome[a] = "acked" /\ act' = [act EXCEPT ![a] = "performed"] /\ a \notin leases' /\ outcome' = outcome
           \/ outcome[a] = "armed" /\ act' = [act EXCEPT ![a] = "waiting"] /\ outcome' = outcome
           \/ outcome[a] = "rejected" /\ act' = [act EXCEPT ![a] = "failed"] /\ outcome' = outcome
           \/ outcome' = Rejected({a}) /\ act' = [act EXCEPT ![a] = "failed"] /\ a \notin leases'
    BY <1>0, <1>16 DEF ExecuteReturns, ExecuteThrows, Consume, StopTimeout, host
  <2>2. \A b \in Actions : /\ b # a => act'[b] = act[b] /\ outcome'[b] = outcome[b]
                           /\ outcome'[b] # outcome[b] => outcome'[b] = "rejected" /\ outcome[b] # "acked"
    BY <1>0, <2>1 DEF Rejected
  <2>3. act'[a] \in {"performed", "waiting", "failed"} /\ (act'[a] = "performed" => outcome'[a] = "acked")
    BY <1>0, <2>1
  <2>4. OutcomesAreOfInputs'
    BY <1>0, <1>1, <2>2, <2>3 DEF OutcomesAreOfInputs
  <2>5. \A b, c \in Actions : b < c /\ act'[c] # "idle" => act'[b] \in Verdicts
    <3> SUFFICES ASSUME NEW b \in Actions, NEW c \in Actions, b < c, act'[c] # "idle" PROVE act'[b] \in Verdicts
      OBVIOUS
    <3>1. act[c] # "idle"
      BY <2>1, <2>2
    <3>2. act[b] \in Verdicts
      BY <1>0, <3>1 DEF LeasesAreHeld
    <3>3. b # a
      BY <2>1, <3>2 DEF Verdicts
    <3> QED BY <2>2, <3>2, <3>3
  <2>6. /\ \A b \in Actions : act'[b] = "idle" => asked'[b] = None /\ outcome'[b] = "open"
        /\ timers' = leases' /\ (HostAhead => \A b \in Actions : outcome'[b] \in {"open", "rejected"})
    <3>1. \A b \in Actions : act'[b] = "idle" => act[b] = "idle" /\ b # a
      BY <2>2, <2>3
    <3>2. \A b \in Actions : act'[b] = "idle" => asked'[b] = None /\ outcome'[b] = "open"
      BY <1>0, <2>1, <2>2, <3>1 DEF LeasesAreHeld
    <3>3. HostAhead => \A b \in Actions : outcome'[b] \in {"open", "rejected"}
      BY <1>0, <2>2 DEF LeasesAreHeld
    <3> QED BY <2>1, <3>2, <3>3
  <2>7. \A b \in leases' : LeaseFits(b)' /\ status' = "ready" /\ asked'[b] # None /\ asked'[b].app = hello'
    <3> SUFFICES ASSUME NEW b \in leases'
                 PROVE  LeaseFits(b)' /\ status' = "ready" /\ asked'[b] # None /\ asked'[b].app = hello'
      OBVIOUS
    <3>1. b \in leases /\ b \in Actions /\ LeaseFits(b) /\ status = "ready" /\ asked[b] # None /\ asked[b].app = hello
      BY <1>0, <2>1 DEF LeasesAreHeld
    <3>2. CASE b # a
      BY <2>1, <2>2, <3>1, <3>2 DEF LeaseFits
    <3>3. CASE b = a
      BY <1>0, <2>1, <3>1, <3>3 DEF LeaseFits
    <3> QED BY <3>2, <3>3
  <2> QED BY <2>4, <2>5, <2>6, <2>7 DEF ArmsStayHeld, LeasesAreHeld
<1> QED BY <1>3, <1>4, <1>5, <1>6, <1>7, <1>8, <1>9, <1>10, <1>11, <1>12, <1>13, <1>14, <1>15, <1>16 DEF HostStep

LEMMA ArmsAreStillHeld ==
  ASSUME BridgeInv, Next
  PROVE  ArmsStayHeld
<1>1. CASE DeviceStep \/ Surroundings
  <2>1. UNCHANGED <<host, armed>>
    BY <1>1, DeviceLeavesHost
  <2>2. UNCHANGED <<leases, timers, asked, outcome, act, status, hello>>
    BY <2>1 DEF host, armed
  <2>3. \A a \in Actions : observed[a] # None => observed'[a] # None
    BY InputsStayOfArms
  <2>4. OutcomesAreOfInputs'
    BY <2>2, <2>3 DEF BridgeInv, ArmsAreAskedFor, OutcomesAreOfInputs
  <2>5. LeasesAreHeld'
    BY <2>2 DEF BridgeInv, LeasesAreHeld, LeaseFits
  <2> QED BY <2>4, <2>5 DEF ArmsStayHeld
<1> QED BY <1>1, ArmsStayHeldByHost DEF Next
-----------------------------------------------------------------------------
(* The way of an arm.                                                      *)
LEMMA QueueTail ==
  ASSUME NEW q \in Seq(DownLine), q # <<>>, NEW a
  PROVE  /\ Tail(q) \in Seq(DownLine)
         /\ NoOrders(q) => NoOrders(Tail(q)) /\ Head(q).type \notin Orders
         /\ Ordered(q, a) /\ ~Arming(Head(q), a) => Ordered(Tail(q), a)
         /\ Ordered(q, a) /\ Arming(Head(q), a) => NoOrders(Tail(q))
<1>1. /\ Tail(q) \in Seq(DownLine) /\ 1 \in DOMAIN q /\ Head(q) = q[1]
      /\ \A i \in DOMAIN Tail(q) : i \in Nat /\ i # 0 /\ i + 1 \in DOMAIN q /\ Tail(q)[i] = q[i + 1]
      /\ \A i \in DOMAIN q : i \in Nat /\ (i # 1 => i - 1 \in DOMAIN Tail(q) /\ Tail(q)[i - 1] = q[i])
  BY TailAt
<1>2. NoOrders(q) => NoOrders(Tail(q)) /\ Head(q).type \notin Orders
  BY <1>1 DEF NoOrders
<1>3. ASSUME Ordered(q, a), ~Arming(Head(q), a) PROVE Ordered(Tail(q), a)
  <2>1. PICK i \in DOMAIN q :
          Arming(q[i], a) /\ \A j \in DOMAIN q : q[j].type \in Orders /\ j # i => j < i /\ ~Arming(q[j], a)
    BY <1>3 DEF Ordered
  <2>2. i \in Nat /\ i # 1 /\ i - 1 \in DOMAIN Tail(q) /\ Tail(q)[i - 1] = q[i]
    BY <1>1, <1>3, <2>1
  <2>3. ASSUME NEW j \in DOMAIN Tail(q), Tail(q)[j].type \in Orders, j # i - 1
        PROVE  j < i - 1 /\ ~Arming(Tail(q)[j], a)
    <3>1. j \in Nat /\ j + 1 \in DOMAIN q /\ Tail(q)[j] = q[j + 1]
      BY <1>1, <2>3
    <3>2. j + 1 # i
      BY <2>2, <2>3, <3>1
    <3>3. j + 1 < i /\ ~Arming(q[j + 1], a)
      BY <2>1, <2>3, <3>1, <3>2
    <3> QED BY <2>2, <3>1, <3>3
  <2> QED BY <2>1, <2>2, <2>3 DEF Ordered
<1>4. ASSUME Ordered(q, a), Arming(Head(q), a) PROVE NoOrders(Tail(q))
  <2>1. PICK i \in DOMAIN q :
          Arming(q[i], a) /\ \A j \in DOMAIN q : q[j].type \in Orders /\ j # i => j < i /\ ~Arming(q[j], a)
    BY <1>4 DEF Ordered
  <2>2. q[1].type \in Orders
    BY <1>1, <1>4 DEF Arming, Says, Orders
  <2>3. i = 1
    BY <1>1, <1>4, <2>1, <2>2
  <2>4. ASSUME NEW j \in DOMAIN Tail(q), Tail(q)[j].type \in Orders PROVE FALSE
    <3>1. j \in Nat /\ j # 0 /\ j + 1 \in DOMAIN q /\ Tail(q)[j] = q[j + 1]
      BY <1>1, <2>4
    <3> QED BY <2>1, <2>3, <2>4, <3>1
  <2> QED BY <2>4 DEF NoOrders
<1> QED BY <1>1, <1>2, <1>3, <1>4

LEMMA QueueAppend ==
  ASSUME NEW q \in Seq(DownLine), NEW x \in DownLine, NEW a
  PROVE  /\ Append(q, x) \in Seq(DownLine)
         /\ x.type \notin Orders /\ NoOrders(q) => NoOrders(Append(q, x))
         /\ x.type \notin Orders /\ Ordered(q, a) => Ordered(Append(q, x), a)
         /\ Arming(x, a) /\ (\A i \in DOMAIN q : ~Arming(q[i], a)) => Ordered(Append(q, x), a)
<1> DEFINE p == Append(q, x)
           n == Len(q) + 1
<1>1. /\ p \in Seq(DownLine) /\ n \in DOMAIN p /\ p[n] = x /\ n \notin DOMAIN q /\ n \in Nat
      /\ \A i \in DOMAIN q : i \in Nat /\ i < n /\ i \in DOMAIN p /\ p[i] = q[i]
      /\ \A i \in DOMAIN p : i \in DOMAIN q \/ i = n
  BY AppendAt
<1> HIDE DEF p, n
<1>2. x.type \notin Orders /\ NoOrders(q) => NoOrders(p)
  BY <1>1 DEF NoOrders
<1>3. ASSUME x.type \notin Orders, Ordered(q, a) PROVE Ordered(p, a)
  <2>1. PICK i \in DOMAIN q :
          Arming(q[i], a) /\ \A j \in DOMAIN q : q[j].type \in Orders /\ j # i => j < i /\ ~Arming(q[j], a)
    BY <1>3 DEF Ordered
  <2> QED BY <1>1, <1>3, <2>1 DEF Ordered
<1>4. ASSUME Arming(x, a), \A i \in DOMAIN q : ~Arming(q[i], a) PROVE Ordered(p, a)
  BY <1>1, <1>4 DEF Ordered
<1> QED BY <1>1, <1>2, <1>3, <1>4 DEF p

LEMMA AnswerTail ==
  ASSUME NEW q \in Seq(UpLine), q # <<>>, NEW a
  PROVE  /\ Tail(q) \in Seq(UpLine)
         /\ NoArmed(q, a) => NoArmed(Tail(q), a) /\ ~Armed(Head(q), a)
         /\ OneArmed(q, a) => OneArmed(Tail(q), a) /\ (Armed(Head(q), a) => NoArmed(Tail(q), a))
         /\ Closed(q, a) <=> Closed(Tail(q), a) \/ Closing(Head(q), a)
<1>1. /\ Tail(q) \in Seq(UpLine) /\ 1 \in DOMAIN q /\ Head(q) = q[1]
      /\ \A i \in DOMAIN Tail(q) : i \in Nat /\ i # 0 /\ i + 1 \in DOMAIN q /\ Tail(q)[i] = q[i + 1]
      /\ \A i \in DOMAIN q : i \in Nat /\ (i # 1 => i - 1 \in DOMAIN Tail(q) /\ Tail(q)[i - 1] = q[i])
  BY TailAt
<1>2. NoArmed(q, a) => NoArmed(Tail(q), a) /\ ~Armed(Head(q), a)
  BY <1>1 DEF NoArmed
<1>3. OneArmed(q, a) => OneArmed(Tail(q), a) /\ (Armed(Head(q), a) => NoArmed(Tail(q), a))
  BY <1>1 DEF OneArmed, NoArmed
<1>4. Closed(q, a) <=> Closed(Tail(q), a) \/ Closing(Head(q), a)
  BY <1>1 DEF Closed
<1> QED BY <1>1, <1>2, <1>3, <1>4

LEMMA AnswerAppend ==
  ASSUME NEW q \in Seq(UpLine), NEW x \in UpLine, NEW a
  PROVE  /\ NoArmed(q, a) /\ ~Armed(x, a) => NoArmed(Append(q, x), a)
         /\ OneArmed(q, a) /\ ~Armed(x, a) => OneArmed(Append(q, x), a)
         /\ NoArmed(q, a) => OneArmed(Append(q, x), a)
         /\ Closed(Append(q, x), a) <=> Closed(q, a) \/ Closing(x, a)
<1> DEFINE p == Append(q, x)
           n == Len(q) + 1
<1>1. /\ n \in DOMAIN p /\ p[n] = x /\ n \notin DOMAIN q
      /\ \A i \in DOMAIN q : i \in DOMAIN p /\ p[i] = q[i]
      /\ \A i \in DOMAIN p : i \in DOMAIN q \/ i = n
  BY AppendAt
<1> HIDE DEF p, n
<1>2. NoArmed(q, a) /\ ~Armed(x, a) => NoArmed(p, a)
  BY <1>1 DEF NoArmed
<1>3. OneArmed(q, a) /\ ~Armed(x, a) => OneArmed(p, a)
  BY <1>1 DEF OneArmed
<1>4. NoArmed(q, a) => OneArmed(p, a)
  BY <1>1 DEF OneArmed, NoArmed
<1>5. Closed(p, a) <=> Closed(q, a) \/ Closing(x, a)
  BY <1>1 DEF Closed
<1> QED BY <1>2, <1>3, <1>4, <1>5 DEF p

\* A lease is held over a connection both ends agree about.
LEMMA LeaseIsConnected ==
  ASSUME BridgeInv, NEW a \in leases
  PROVE  /\ a \in Actions /\ status = "ready" /\ session \in Sessions
         /\ wire => client = session /\ reader = session /\ greeted
<1>1. a \in Actions /\ status = "ready"
  BY DEF BridgeInv, LeasesAreHeld, BridgeTyped, ArmsTyped
<1>2. session \in Sessions /\ session # 0
  BY <1>1 DEF BridgeInv, ConnectionIsSound, EndsAreSound, BridgeTyped, HostTyped, Sessions
<1>3. hello # 0
  BY <1>1 DEF BridgeInv, ConnectionIsSound, HandshakeIsSound
<1>4. ~Ungreeted
  BY <1>3 DEF BridgeInv, ConnectionIsSound, HandshakeIsSound
<1>5. accepted \in Nat /\ session \in Nat /\ accepted <= session
  BY DEF BridgeInv, ConnectionIsSound, EndsAreSound, BridgeTyped, AppTyped, HostTyped
<1>6. accepted = session
  BY <1>4, <1>5 DEF Ungreeted
<1> QED BY <1>1, <1>2, <1>4, <1>6 DEF BridgeInv, ConnectionIsSound, EndsAreSound, Ungreeted

LEMMA QueueTyped ==
  ASSUME BridgeTyped, session \in Sessions
  PROVE  Queue \in Seq(DownLine) /\ inbound \in Seq(DownLine) /\ down[session] \in Seq(DownLine) /\ up \in Seq(UpLine)
<1>1. inbound \in Seq(DownLine) /\ down[session] \in Seq(DownLine) /\ up \in Seq(UpLine)
  BY DEF BridgeTyped, WireTyped
<1> QED BY <1>1, JoinAt DEF Queue

LEMMA SentToQueue ==
  ASSUME BridgeTyped, session \in Sessions, wire, NEW lines \in Seq(DownLine), Sent(lines),
         inbound' = inbound, session' = session
  PROVE  Queue' = Queue \o lines
<1>0. session # 0
  BY DEF Sessions
<1>1. down'[session] = down[session] \o lines
  BY <1>0, SentIs
<1>2. Queue' = inbound \o (down[session] \o lines)
  BY <1>1 DEF Queue
<1>3. inbound \in Seq(DownLine) /\ down[session] \in Seq(DownLine)
  BY QueueTyped
<1>4. inbound \o (down[session] \o lines) = (inbound \o down[session]) \o lines
  <2> DEFINE p == inbound
             q == down[session]
  <2>1. p \in Seq(DownLine) /\ q \in Seq(DownLine)
    BY <1>3
  <2> HIDE DEF p, q
  <2>2. p \o (q \o lines) = (p \o q) \o lines
    BY <2>1, JoinJoins
  <2> QED BY <2>2 DEF p, q
<1> QED BY <1>2, <1>4 DEF Queue

\* What a step of the host may do to a lease it keeps.
QueueIsKept ==
  wire' => wire /\ (Queue' = Queue \/ \E x \in DownLine : x.type \notin Orders /\ Queue' = Append(Queue, x))

LinesAreRead(a) ==
  \/ up' = up /\ outcome'[a] = outcome[a]
  \/ up # <<>> /\ up' = Tail(up) /\ outcome'[a] = outcome[a]
     /\ (HostAhead \/ ~(Armed(Head(up), a) \/ Closing(Head(up), a)))
  \/ up # <<>> /\ up' = Tail(up) /\ Armed(Head(up), a) /\ outcome'[a] = "armed"
  \/ up # <<>> /\ up' = Tail(up) /\ Says(Head(up), "QA_ACK") /\ outcome[a] # "open" /\ outcome'[a] = "acked"

LEMMA NothingSent ==
  ASSUME BridgeInv, NEW a \in leases, HostStep, inbound' = inbound, session' = session, wire' = wire,
         down' = down \/ Sent(<<>>)
  PROVE  QueueIsKept
<1>1. BridgeTyped /\ session \in Sessions
  BY LeaseIsConnected DEF BridgeInv
<1>2. Queue \in Seq(DownLine)
  BY <1>1, QueueTyped
<1>3. CASE down' = down
  BY <1>3 DEF QueueIsKept, Queue
<1>4. CASE Sent(<<>>) /\ wire
  <2>0. <<>> \in Seq(DownLine)
    OBVIOUS
  <2>1. Queue' = Queue \o <<>>
    BY <1>1, <1>4, <2>0, SentToQueue
  <2> QED BY <1>2, <2>1, NoLines DEF QueueIsKept
<1> QED BY <1>3, <1>4 DEF QueueIsKept

LEMMA HostKeepsLease ==
  ASSUME BridgeInv, HostStep, NEW a \in leases, a \in leases'
  PROVE  /\ QueueIsKept /\ LinesAreRead(a) /\ gate' = gate
<1>0. /\ a \in Actions /\ status = "ready" /\ session \in Sessions /\ BridgeTyped /\ LeasesAreHeld /\ timers = leases
      /\ ArmsTyped /\ outcome \in [Actions -> {"open", "armed", "acked", "rejected"}]
      /\ leases \subseteq Actions /\ up \in Seq(UpLine)
  BY LeaseIsConnected DEF BridgeInv, LeasesAreHeld, BridgeTyped, ArmsTyped, WireTyped
<1>1. \A b \in leases : b = a
  BY <1>0, OneLease
<1>2. inbound' = inbound /\ gate' = gate
  BY HostLeavesDevice DEF device
<1>3. ~Connect /\ ~Close /\ ~HandleClose /\ ~(HandleMalformed /\ state = 0)
  BY <1>0 DEF Connect, Close, HandleClose, HandleMalformed, LoseBridge, RemoveLeases
<1>4. \A b \in Actions : ~Ask(b) /\ ~AskUnready(b)
  BY <1>0, TurnIsFree DEF Ask, AskUnready
<1>5. CASE HandleHello \/ HandleState \/ HandlePong \/ (HandleMalformed /\ state # 0)
  <2>1. /\ down' = down /\ wire' = wire /\ session' = session /\ outcome' = outcome
        /\ up # <<>> /\ up' = Tail(up) /\ Head(up).type \in {"QA_HELLO", "QA_STATE", "QA_PONG", "malformed"}
    BY <1>5 DEF HandleHello, HandleState, HandlePong, HandleMalformed, Line, armed
  <2>2. ~(Armed(Head(up), a) \/ Closing(Head(up), a))
    BY <2>1 DEF Armed, Closing, Says
  <2> QED BY <1>2, <2>1, <2>2, NothingSent DEF LinesAreRead
<1>6. CASE SendPing
  <2>1. Ping \in DownLine /\ Ping.type \notin Orders
    BY <1>0 DEF Ping, DownLine, Orders
  <2>2. Sent(<<Ping>>) /\ wire' = wire /\ session' = session /\ up' = up /\ outcome' = outcome
    BY <1>6 DEF SendPing, armed
  <2> DEFINE line == Ping
  <2>3. line \in DownLine /\ line.type \notin Orders /\ Sent(<<line>>)
    BY <2>1, <2>2
  <2> HIDE DEF line
  <2>4. <<line>> \in Seq(DownLine) /\ Queue \in Seq(DownLine)
    BY <1>0, <2>3, QueueTyped
  <2>5. wire => Queue' = Queue \o <<line>>
    BY <1>0, <1>2, <2>2, <2>3, <2>4, SentToQueue
  <2>6. Queue \o <<line>> = Append(Queue, line)
    BY <2>3, <2>4, JoinOne
  <2> QED BY <1>2, <2>2, <2>3, <2>5, <2>6 DEF QueueIsKept, LinesAreRead
<1>7. CASE HandleArmed
  <2> DEFINE x == Head(up).action
  <2>1. wire' = wire /\ session' = session /\ up # <<>> /\ up' = Tail(up) /\ Head(up).type = "QA_ARMED"
    BY <1>7 DEF HandleArmed, Line
  <2>2. \/ (HostAhead \/ x \notin leases) /\ UNCHANGED <<down, armed>>
        \/ x \in leases /\ leases' = leases \ {x}
        \/ x \in leases /\ outcome' = [outcome EXCEPT ![x] = "armed"] /\ UNCHANGED down
    BY <1>7 DEF HandleArmed, ParserDrops, RemoveLeases
  <2>3. Armed(Head(up), a) <=> x = a
    BY <2>1 DEF Armed, Says, IsOf
  <2>4. ~Closing(Head(up), a)
    BY <2>1 DEF Closing
  <2> HIDE DEF x
  <2>5. CASE (HostAhead \/ x \notin leases) /\ UNCHANGED <<down, armed>>
    <3>1. outcome' = outcome /\ (HostAhead \/ ~Armed(Head(up), a))
      BY <2>3, <2>5 DEF armed
    <3> QED BY <1>2, <2>1, <2>4, <2>5, <3>1, NothingSent DEF LinesAreRead
  <2>6. CASE x \in leases /\ leases' = leases \ {x}
    BY <1>1, <2>6
  <2>7. CASE x \in leases /\ outcome' = [outcome EXCEPT ![x] = "armed"] /\ UNCHANGED down
    <3>1. x = a
      BY <1>1, <2>7
    <3>2. outcome'[a] = "armed"
      BY <1>0, <2>7, <3>1
    <3> QED BY <1>2, <2>1, <2>3, <2>7, <3>1, <3>2, NothingSent DEF LinesAreRead
  <2> QED BY <2>2, <2>5, <2>6, <2>7
<1>8. CASE HandleAck
  <2> DEFINE x == Head(up).action
  <2>1. wire' = wire /\ session' = session /\ up # <<>> /\ up' = Tail(up) /\ Head(up).type = "QA_ACK"
    BY <1>8 DEF HandleAck, Line
  <2>2. \/ (HostAhead \/ x \notin leases) /\ UNCHANGED <<down, armed>>
        \/ x \in leases /\ leases' = leases \ {x}
        \/ x \in leases /\ outcome[x] # "open" /\ outcome' = [outcome EXCEPT ![x] = "acked"] /\ UNCHANGED down
    BY <1>8 DEF HandleAck, ParserDrops, RemoveLeases
  <2>3. Closing(Head(up), a) <=> x = a
    BY <2>1 DEF Closing, IsOf
  <2>4. ~Armed(Head(up), a) /\ Says(Head(up), "QA_ACK")
    BY <2>1 DEF Armed, Says
  <2> HIDE DEF x
  <2>5. CASE (HostAhead \/ x \notin leases) /\ UNCHANGED <<down, armed>>
    <3>1. outcome' = outcome /\ (HostAhead \/ ~Closing(Head(up), a))
      BY <2>3, <2>5 DEF armed
    <3> QED BY <1>2, <2>1, <2>4, <2>5, <3>1, NothingSent DEF LinesAreRead
  <2>6. CASE x \in leases /\ leases' = leases \ {x}
    BY <1>1, <2>6
  <2>7. CASE x \in leases /\ outcome[x] # "open" /\ outcome' = [outcome EXCEPT ![x] = "acked"] /\ UNCHANGED down
    <3>1. x = a
      BY <1>1, <2>7
    <3>2. outcome'[a] = "acked" /\ outcome[a] # "open"
      BY <1>0, <2>7, <3>1
    <3> QED BY <1>2, <2>1, <2>4, <2>7, <3>2, NothingSent DEF LinesAreRead
  <2> QED BY <2>2, <2>5, <2>6, <2>7
<1>9. CASE HandleRejected
  <2> DEFINE x == Head(up).action
  <2>1. wire' = wire /\ session' = session /\ up # <<>> /\ up' = Tail(up) /\ Head(up).type = "QA_REJECTED"
    BY <1>9 DEF HandleRejected, Line
  <2>2. RemoveLeases({x}, FALSE)
    BY <1>9 DEF HandleRejected
  <2>3. Closing(Head(up), a) <=> x = a
    BY <2>1 DEF Closing, IsOf
  <2>4. ~Armed(Head(up), a)
    BY <2>1 DEF Armed, Says
  <2> HIDE DEF x
  <2>5. leases' = leases \ {x} /\ Sent(<<>>)
    BY <2>2 DEF RemoveLeases
  <2>6. x # a
    BY <2>5
  <2>7. outcome'[a] = outcome[a]
    BY <1>0, <2>2, <2>6 DEF RemoveLeases, Rejected
  <2> QED BY <1>2, <2>1, <2>3, <2>4, <2>5, <2>6, <2>7, NothingSent DEF LinesAreRead
<1>10. ASSUME NEW b \in Actions, TimerFires(b) PROVE FALSE
  <2>1. b \in leases /\ leases' = leases \ {b}
    BY <1>0, <1>10 DEF TimerFires
  <2> QED BY <1>1, <2>1
<1>11. ASSUME NEW b \in Actions, ExecuteReturns(b) PROVE QueueIsKept /\ LinesAreRead(a)
  <2>1. UNCHANGED <<wire, down, up, session, outcome>>
    BY <1>11 DEF ExecuteReturns, host
  <2> QED BY <1>2, <2>1, NothingSent DEF LinesAreRead
<1>12. ASSUME NEW b \in Actions, ExecuteThrows(b) PROVE QueueIsKept /\ LinesAreRead(a)
  <2>1. leases' = leases \ {b} /\ UNCHANGED <<wire, up, session>>
    BY <1>12 DEF ExecuteThrows, host
  <2>2. b # a /\ b \notin leases
    BY <1>1, <2>1
  <2>3. Sent(<<>>) /\ outcome' = Rejected({b})
    BY <1>12, <2>2 DEF ExecuteThrows
  <2>4. outcome'[a] = outcome[a]
    BY <1>0, <2>2, <2>3 DEF Rejected
  <2> QED BY <1>2, <2>1, <2>3, <2>4, NothingSent DEF LinesAreRead
<1> QED BY <1>2, <1>3, <1>4, <1>5, <1>6, <1>7, <1>8, <1>9, <1>10, <1>11, <1>12 DEF HostStep

LEMMA LeaseIsTracked ==
  ASSUME BridgeInv, NEW a \in leases
  PROVE  /\ wire => OnItsWay(a) \/ AtTheGate(a)
         /\ OneArmed(up, a) /\ (outcome[a] # "open" => NoArmed(up, a))
BY DEF BridgeInv, LeasesAreTracked, ArmIsTracked

LEMMA HostKeepsTrack ==
  ASSUME BridgeInv, HostStep, NEW a \in leases, a \in leases'
  PROVE  ArmIsTracked(a)'
<1>0. BridgeTyped /\ session \in Sessions /\ a \in Actions
  BY LeaseIsConnected DEF BridgeInv
<1>1. Queue \in Seq(DownLine) /\ up \in Seq(UpLine)
  BY <1>0, QueueTyped
<1>2. QueueIsKept /\ LinesAreRead(a) /\ gate' = gate
  BY HostKeepsLease
<1>3. /\ wire => OnItsWay(a) \/ AtTheGate(a)
      /\ OneArmed(up, a) /\ (outcome[a] # "open" => NoArmed(up, a))
  BY LeaseIsTracked
<1>4. wire' => /\ NoOrders(Queue) => NoOrders(Queue')
               /\ Ordered(Queue, a) => Ordered(Queue', a)
  BY <1>1, <1>2, QueueAppend DEF QueueIsKept
<1>5. OneArmed(up', a) /\ (outcome'[a] # "open" => NoArmed(up', a))
  <2>1. CASE up' = up /\ outcome'[a] = outcome[a]
    BY <1>3, <2>1
  <2>2. CASE up # <<>> /\ up' = Tail(up)
    BY <1>1, <1>2, <1>3, <2>2, AnswerTail DEF LinesAreRead
  <2> QED BY <1>2, <2>1, <2>2 DEF LinesAreRead
<1>6. ASSUME wire' PROVE OnItsWay(a)' \/ AtTheGate(a)'
  <2>1. wire
    BY <1>2, <1>6 DEF QueueIsKept
  <2>2. CASE OnItsWay(a)
    <3>1. NoAnswer(up, a) /\ outcome[a] = "open" /\ Ordered(Queue', a) /\ (gate' # None => gate'.action # a)
      BY <1>2, <1>4, <1>6, <2>2 DEF OnItsWay
    <3>2. up # <<>> => ~Armed(Head(up), a) /\ ~Closing(Head(up), a) /\ NoAnswer(Tail(up), a)
      BY <1>1, <3>1, AnswerTail DEF NoAnswer
    <3>3. NoAnswer(up', a) /\ outcome'[a] = "open"
      BY <1>2, <3>1, <3>2 DEF LinesAreRead
    <3> QED BY <3>1, <3>3 DEF OnItsWay
  <2>3. CASE AtTheGate(a)
    <3>1. NoOrders(Queue')
      BY <1>4, <1>6, <2>3 DEF AtTheGate
    <3>2. (gate' # None /\ gate'.action = a) \/ outcome'[a] = "acked" \/ Closed(up', a) \/ HostAhead
      <4>1. CASE gate # None /\ gate.action = a
        BY <1>2, <4>1
      <4>2. CASE outcome[a] = "acked"
        <5>1. up # <<>> => ~Armed(Head(up), a)
          BY <1>1, <1>3, <4>2, AnswerTail
        <5> QED BY <1>2, <4>2, <5>1 DEF LinesAreRead
      <4>3. CASE Closed(up, a) /\ ~HostAhead
        <5>1. up # <<>> => Closed(Tail(up), a) \/ Closing(Head(up), a)
          BY <1>1, <4>3, AnswerTail
        <5>2. Armed(Head(up), a) => ~Closing(Head(up), a)
          BY DEF Armed, Closing, Says
        <5> QED BY <1>2, <4>3, <5>1, <5>2 DEF LinesAreRead
      <4> QED BY <2>3, <4>1, <4>2, <4>3 DEF AtTheGate
    <3> QED BY <3>1, <3>2 DEF AtTheGate
  <2> QED BY <1>3, <2>1, <2>2, <2>3
<1> QED BY <1>5, <1>6 DEF ArmIsTracked

\* A new arm goes last.
LEMMA AskIsTracked ==
  ASSUME BridgeInv, NEW a \in Actions, Ask(a)
  PROVE  leases' = {a} /\ ArmIsTracked(a)'
<1>1. /\ Turn(a) /\ status = "ready" /\ leases' = leases \cup {a} /\ Sent(<<ArmLine(a, state)>>)
      /\ UNCHANGED <<inbound, gate, wire, up, session, outcome>>
  BY DEF Ask, Calibrated, host, device
<1>2. leases = {} /\ asked[a] = None /\ outcome[a] = "open"
  BY <1>1, TurnIsFree DEF BridgeInv
<1>3. session \in Sessions /\ state \in Screens /\ BridgeTyped
  BY <1>1 DEF BridgeInv, ConnectionIsSound, EndsAreSound, HandshakeIsSound, BridgeTyped, HostTyped, Sessions, Screens
<1>4. Queue \in Seq(DownLine) /\ up \in Seq(UpLine) /\ inbound \in Seq(DownLine) /\ down[session] \in Seq(DownLine)
  BY <1>3, QueueTyped
<1>5. NoAnswer(up, a)
  BY <1>2 DEF NoAnswer, NoArmed, Closed, Armed, Closing, Says, IsOf, BridgeInv, ArmsAreAskedFor, AnswersAreOfArms,
              AnswersWell, AskedFor, Answers
<1>6. gate # None => gate.action # a
  BY <1>2 DEF BridgeInv, ArmsAreAskedFor, GateIsOfArm, AskedFor
<1>7. \A i \in DOMAIN inbound : ~Arming(inbound[i], a)
  BY <1>2 DEF Arming, IsOf, BridgeInv, ArmsAreAskedFor, OrdersAreOfArms, OrdersAreAskedFor, AskedFor
<1>8. \A i \in DOMAIN down[session] : ~Arming(down[session][i], a)
  BY <1>2, <1>3 DEF Arming, IsOf, BridgeInv, ArmsAreAskedFor, OrdersAreOfArms, OrdersAreAskedFor, AskedFor
<1>9. \A i \in DOMAIN Queue : ~Arming(Queue[i], a)
  <2> DEFINE p == inbound
             q == down[session]
  <2>1. /\ p \in Seq(DownLine) /\ q \in Seq(DownLine)
        /\ (\A i \in DOMAIN p : ~Arming(p[i], a)) /\ (\A i \in DOMAIN q : ~Arming(q[i], a))
    BY <1>4, <1>7, <1>8
  <2> HIDE DEF p, q
  <2>2. \A i \in DOMAIN (p \o q) : ~Arming((p \o q)[i], a)
    <3> SUFFICES ASSUME NEW i \in DOMAIN (p \o q) PROVE ~Arming((p \o q)[i], a)
      OBVIOUS
    <3>1. (i \in DOMAIN p /\ (p \o q)[i] = p[i]) \/ (i - Len(p) \in DOMAIN q /\ (p \o q)[i] = q[i - Len(p)])
      BY <2>1
    <3> QED BY <2>1, <3>1
  <2> QED BY <2>2 DEF Queue, p, q
<1>10. wire => Ordered(Queue', a)
  <2> DEFINE line == ArmLine(a, state)
  <2>1. line \in DownLine /\ Arming(line, a) /\ Sent(<<line>>)
    BY <1>1, <1>3 DEF ArmLine, DownLine, Arming, Says, IsOf
  <2> HIDE DEF line
  <2>2. <<line>> \in Seq(DownLine)
    BY <2>1
  <2>3. wire => Queue' = Queue \o <<line>>
    BY <1>1, <1>3, <2>1, <2>2, SentToQueue
  <2>4. Queue \o <<line>> = Append(Queue, line)
    BY <1>4, <2>1, JoinOne
  <2>5. Ordered(Append(Queue, line), a)
    <3> DEFINE q == Queue
    <3>1. q \in Seq(DownLine) /\ \A i \in DOMAIN q : ~Arming(q[i], a)
      BY <1>4, <1>9
    <3> HIDE DEF q
    <3>2. Ordered(Append(q, line), a)
      BY <2>1, <3>1, QueueAppend
    <3> QED BY <3>2 DEF q
  <2> QED BY <2>3, <2>4, <2>5
<1>11. OneArmed(up, a) /\ NoArmed(up, a)
  BY <1>5 DEF NoAnswer, NoArmed, OneArmed
<1> QED BY <1>1, <1>2, <1>5, <1>6, <1>10, <1>11 DEF ArmIsTracked, OnItsWay

\* The app handles the first order of the queue.
LEMMA HandledIsFirst ==
  ASSUME BridgeInv, NEW a \in leases, NEW type, Handle(type)
  PROVE  /\ Queue \in Seq(DownLine) /\ Queue # <<>> /\ Queue' = Tail(Queue)
         /\ Head(Queue) = Head(inbound) /\ Head(Queue).type = type /\ Head(inbound) \in DownLine
<1>0. BridgeTyped /\ session \in Sessions
  BY LeaseIsConnected DEF BridgeInv
<1>1. Queue \in Seq(DownLine) /\ inbound \in Seq(DownLine) /\ down[session] \in Seq(DownLine)
  BY <1>0, QueueTyped
<1>2. inbound # <<>> /\ inbound' = Tail(inbound) /\ down' = down /\ session' = session /\ Head(inbound).type = type
  BY DEF Handle, host
<1> DEFINE p == inbound
           q == down[session]
<1>3. p \in Seq(DownLine) /\ q \in Seq(DownLine) /\ p # <<>>
  BY <1>1, <1>2
<1>4. Queue = p \o q /\ Queue' = Tail(p) \o q
  BY <1>2 DEF Queue
<1> HIDE DEF p, q
<1>5. p \o q # <<>> /\ Tail(p \o q) = Tail(p) \o q /\ Head(p \o q) = Head(p) /\ Head(p) \in DownLine
  BY <1>3, TailOfJoin, TailAt
<1> QED BY <1>1, <1>2, <1>4, <1>5 DEF p

\* What the app may do to a lease it does not answer.
LEMMA UnansweredIsTracked ==
  ASSUME BridgeInv, NEW a \in leases, UNCHANGED outcome, wire' => wire,
         wire' => \/ Queue' = Queue /\ gate' = gate
                  \/ /\ Queue \in Seq(DownLine) /\ Queue # <<>> /\ Queue' = Tail(Queue) /\ ~Arming(Head(Queue), a)
                     /\ gate' = gate \/ (Head(Queue).type \in Orders /\ (gate' # None => gate'.action # a)),
         up' = up \/ \E x \in UpLine : up' = Append(up, x) /\ ~Armed(x, a) /\ ~Closing(x, a)
  PROVE  ArmIsTracked(a)'
<1>0. up \in Seq(UpLine)
  BY DEF BridgeInv, BridgeTyped, WireTyped
<1>1. /\ wire => OnItsWay(a) \/ AtTheGate(a)
      /\ OneArmed(up, a) /\ (outcome[a] # "open" => NoArmed(up, a))
  BY LeaseIsTracked
<1>2. /\ NoArmed(up, a) => NoArmed(up', a)
      /\ OneArmed(up, a) => OneArmed(up', a)
      /\ Closed(up', a) <=> Closed(up, a)
  <2>1. CASE up' = up
    BY <2>1
  <2>2. ASSUME NEW x \in UpLine, up' = Append(up, x), ~Armed(x, a), ~Closing(x, a)
        PROVE  /\ NoArmed(up, a) => NoArmed(up', a)
               /\ OneArmed(up, a) => OneArmed(up', a)
               /\ Closed(up', a) <=> Closed(up, a)
    BY <1>0, <2>2, AnswerAppend
  <2> QED BY <2>1, <2>2
<1>3. ASSUME wire', OnItsWay(a) PROVE OnItsWay(a)'
  <2>1. Ordered(Queue', a) /\ (gate' # None => gate'.action # a)
    BY <1>3, QueueTail DEF OnItsWay
  <2> QED BY <1>2, <1>3, <2>1 DEF OnItsWay, NoAnswer
<1>4. ASSUME wire', AtTheGate(a) PROVE AtTheGate(a)'
  <2>1. NoOrders(Queue') /\ gate' = gate
    BY <1>4, QueueTail DEF AtTheGate
  <2> QED BY <1>2, <1>4, <2>1 DEF AtTheGate
<1> QED BY <1>1, <1>2, <1>3, <1>4 DEF ArmIsTracked

LEMMA ObserveKeepsTrack ==
  ASSUME BridgeInv, NEW a \in leases, NEW shape, Observe(shape)
  PROVE  ArmIsTracked(a)'
<1>0. /\ app \in 1..MaxApps /\ gate \in Arm \cup {None} /\ up \in Seq(UpLine) /\ a \in Actions
      /\ wire => client = session
  BY LeaseIsConnected DEF BridgeInv, BridgeTyped, AppTyped, WireTyped
<1>1. Queue' = Queue /\ UNCHANGED <<outcome, wire>>
  BY ObserveIs DEF Queue, host, armed
<1>2. /\ wire => OnItsWay(a) \/ AtTheGate(a)
      /\ OneArmed(up, a) /\ (outcome[a] # "open" => NoArmed(up, a))
  BY LeaseIsTracked
<1>3. CASE gate = None
  <2>1. gate' = gate /\ (up' = up \/ Written(Malformed))
    BY <1>3, ObserveIs
  <2>2. Malformed \in UpLine /\ ~Armed(Malformed, a) /\ ~Closing(Malformed, a)
    BY DEF Malformed, UpLine, Armed, Closing, Says
  <2>3. up' = up \/ \E x \in UpLine : up' = Append(up, x) /\ ~Armed(x, a) /\ ~Closing(x, a)
    BY <1>0, <2>1, <2>2, WrittenIs
  <2> QED BY <1>1, <2>1, <2>3, UnansweredIsTracked
<1>4. CASE gate # None
  <2>1. PICK type \in {"QA_REJECTED", "QA_ACK"} : Written(Answer(type, gate)) /\ gate' \in {gate, None}
    BY <1>4, ObserveIs
  <2> DEFINE line == Answer(type, gate)
  <2>2. line \in UpLine /\ line.type = type /\ line.action = gate.action /\ Written(line)
    BY <1>0, <1>4, <2>1, AnswersAre DEF Answers
  <2> HIDE DEF line
  <2>3. ~Armed(line, a) /\ (Closing(line, a) <=> gate.action = a)
    BY <2>1, <2>2 DEF Armed, Closing, Says, IsOf
  <2>4. up' = up \/ up' = Append(up, line)
    BY <1>0, <2>2, WrittenIs
  <2>5. wire => up' = Append(up, line)
    BY <1>0, <2>2 DEF Written
  <2>6. /\ NoArmed(up, a) => NoArmed(up', a)
        /\ OneArmed(up, a) => OneArmed(up', a)
        /\ wire => (Closed(up', a) <=> Closed(up, a) \/ gate.action = a)
    <3>1. CASE up' = Append(up, line)
      <4>1. /\ NoArmed(up, a) => NoArmed(Append(up, line), a)
            /\ OneArmed(up, a) => OneArmed(Append(up, line), a)
            /\ Closed(Append(up, line), a) <=> Closed(up, a) \/ Closing(line, a)
        BY <1>0, <2>2, <2>3, AnswerAppend
      <4> QED BY <2>3, <3>1, <4>1
    <3>2. CASE up' = up /\ ~wire
      BY <3>2
    <3> QED BY <2>4, <2>5, <3>1, <3>2
  <2>7. ASSUME wire, OnItsWay(a) PROVE OnItsWay(a)'
    BY <1>1, <1>4, <2>1, <2>6, <2>7 DEF OnItsWay, NoAnswer
  <2>8. ASSUME wire, AtTheGate(a) PROVE AtTheGate(a)'
    BY <1>1, <1>4, <2>6, <2>8 DEF AtTheGate
  <2> QED BY <1>1, <1>2, <2>6, <2>7, <2>8 DEF ArmIsTracked
<1> QED BY <1>3, <1>4

LEMMA HandleArmKeepsTrack ==
  ASSUME BridgeInv, NEW a \in leases, HandleArm
  PROVE  ArmIsTracked(a)'
<1> DEFINE g == [action |-> Head(inbound).action, screen |-> Head(inbound).screen]
<1>0. /\ app \in 1..MaxApps /\ gate \in Arm \cup {None} /\ up \in Seq(UpLine) /\ a \in Actions
      /\ wire => client = session
  BY LeaseIsConnected DEF BridgeInv, BridgeTyped, AppTyped, WireTyped
<1>1. /\ Queue \in Seq(DownLine) /\ Queue # <<>> /\ Queue' = Tail(Queue) /\ Head(Queue) = Head(inbound)
      /\ Says(Head(inbound), "QA_ARM") /\ Head(inbound) \in DownLine
  <2>1. Handle("QA_ARM")
    BY DEF HandleArm
  <2> QED BY <2>1, HandledIsFirst DEF Says
<1>2. UNCHANGED <<outcome, wire>>
  BY DEF HandleArm, Handle, armed
<1>3. g \in Arm /\ g.action = Head(inbound).action
  BY <1>1, OrderIs DEF Arm
<1>4. \/ gate' = g /\ Written(Answer("QA_ARMED", g))
      \/ gate' = gate /\ Written(Answer("QA_REJECTED", g))
  BY DEF HandleArm
<1>5. Arming(Head(Queue), a) <=> g.action = a
  BY <1>1, <1>3 DEF Arming, IsOf
<1>6. Head(Queue).type \in Orders
  BY <1>1 DEF Orders, Says
<1>7. /\ wire => OnItsWay(a) \/ AtTheGate(a)
      /\ OneArmed(up, a) /\ (outcome[a] # "open" => NoArmed(up, a))
  BY LeaseIsTracked
<1> DEFINE granted == Answer("QA_ARMED", g)
           refused == Answer("QA_REJECTED", g)
<1>8. /\ granted \in UpLine /\ granted.type = "QA_ARMED" /\ granted.action = g.action
      /\ refused \in UpLine /\ refused.type = "QA_REJECTED" /\ refused.action = g.action
  BY <1>0, <1>3, AnswersAre DEF Answers
<1>9. (gate' = g /\ Written(granted)) \/ (gate' = gate /\ Written(refused))
  BY <1>4
<1>10. g # None
  BY <1>3, BridgeAssumption DEF Arm
<1> HIDE DEF granted, refused, g
<1>11. ~AtTheGate(a)
  BY <1>1, <1>6, QueueTail DEF AtTheGate
<1>12. CASE wire /\ g.action = a
  <2>1. OnItsWay(a)
    BY <1>7, <1>11, <1>12
  <2>2. NoOrders(Queue')
    BY <1>1, <1>5, <1>12, <2>1, QueueTail DEF OnItsWay
  <2>3. CASE gate' = g /\ Written(granted)
    <3>1. up' = Append(up, granted)
      BY <1>0, <1>12, <2>3 DEF Written
    <3>2. OneArmed(up', a)
      BY <1>0, <1>8, <2>1, <3>1, AnswerAppend DEF OnItsWay, NoAnswer
    <3>3. outcome'[a] = "open"
      BY <1>2, <2>1 DEF OnItsWay
    <3> QED BY <1>10, <1>12, <2>2, <2>3, <3>2, <3>3 DEF ArmIsTracked, AtTheGate
  <2>4. CASE gate' = gate /\ Written(refused)
    <3>1. up' = Append(up, refused)
      BY <1>0, <1>12, <2>4 DEF Written
    <3>2. Closing(refused, a) /\ ~Armed(refused, a)
      BY <1>8, <1>12 DEF Closing, Armed, Says, IsOf
    <3>3. OneArmed(up', a) /\ NoArmed(up', a) /\ Closed(up', a)
      BY <1>0, <1>7, <1>8, <2>1, <3>1, <3>2, AnswerAppend DEF OnItsWay, NoAnswer
    <3> QED BY <2>2, <3>3 DEF ArmIsTracked, AtTheGate
  <2> QED BY <1>9, <2>3, <2>4
<1>13. CASE ~wire
  <2>1. up' = up
    BY <1>9, <1>13 DEF Written
  <2> QED BY <1>2, <1>7, <1>13, <2>1 DEF ArmIsTracked
<1>14. CASE wire /\ g.action # a
  <2>1. up' = up \/ \E x \in UpLine : up' = Append(up, x) /\ ~Armed(x, a) /\ ~Closing(x, a)
    <3>1. ~Armed(granted, a) /\ ~Closing(granted, a) /\ ~Armed(refused, a) /\ ~Closing(refused, a)
      BY <1>8, <1>14 DEF Armed, Closing, IsOf
    <3> QED BY <1>0, <1>8, <1>9, <3>1, WrittenIs
  <2>2. ~Arming(Head(Queue), a)
    BY <1>5, <1>14
  <2>3. gate' = gate \/ (Head(Queue).type \in Orders /\ (gate' # None => gate'.action # a))
    BY <1>6, <1>9, <1>14
  <2> QED BY <1>1, <1>2, <2>1, <2>2, <2>3, UnansweredIsTracked
<1> QED BY <1>12, <1>13, <1>14

LEMMA AppKeepsTrack ==
  ASSUME BridgeInv, DeviceStep \/ Surroundings, NEW a \in leases
  PROVE  ArmIsTracked(a)'
<1>0. /\ app \in 1..MaxApps /\ screen \in Screens /\ up \in Seq(UpLine) /\ inbound \in Seq(DownLine)
      /\ BridgeTyped /\ session \in Sessions /\ a \in Actions
      /\ wire => client = session /\ reader = session
  BY LeaseIsConnected DEF BridgeInv, BridgeTyped, AppTyped, WireTyped
<1>1. UNCHANGED <<session, outcome>>
  BY DeviceLeavesHost DEF host, armed
<1> DEFINE Quiet == up' = up \/ \E x \in UpLine : up' = Append(up, x) /\ ~Armed(x, a) /\ ~Closing(x, a)
<1>2. CASE UNCHANGED <<inbound, down, gate, wire, up>>
  <2>1. Queue' = Queue
    BY <1>1, <1>2 DEF Queue
  <2> QED BY <1>1, <1>2, <2>1, UnansweredIsTracked
<1>3. CASE UNCHANGED up /\ ~wire'
  BY <1>1, <1>3, LeaseIsTracked DEF ArmIsTracked
<1>4. CASE Accept \/ WriteFails \/ ScreenChanges
  BY <1>2, <1>4 DEF Accept, WriteFails, ScreenChanges
<1>5. CASE AppRestarts \/ LinkBreaks
  BY <1>3, <1>5 DEF AppRestarts, LinkBreaks
<1>6. CASE ReaderEnds
  <2>1. ~wire /\ wire' = wire /\ up' = up
    BY <1>0, <1>6 DEF ReaderEnds, Alive
  <2> QED BY <1>3, <2>1
<1>7. CASE Read
  <2>1. UNCHANGED <<wire, up, gate>>
    BY <1>7 DEF Read
  <2>2. ASSUME wire PROVE Queue' = Queue
    <3> DEFINE p == inbound
               q == down[session]
    <3>1. p \in Seq(DownLine) /\ q \in Seq(DownLine)
      BY <1>0, QueueTyped
    <3>2. q # <<>> /\ inbound' = Append(p, Head(q)) /\ down' = [down EXCEPT ![session] = Tail(q)]
      BY <1>0, <1>7, <2>2 DEF Read
    <3>3. down'[session] = Tail(q)
      BY <1>0, <3>2 DEF BridgeTyped, WireTyped
    <3>4. Queue = p \o q /\ Queue' = Append(p, Head(q)) \o Tail(q)
      BY <1>1, <3>2, <3>3 DEF Queue
    <3> HIDE DEF p, q
    <3> QED BY <3>1, <3>2, <3>4, ReadKeepsJoin
  <2> QED BY <1>1, <2>1, <2>2, UnansweredIsTracked
<1>8. ASSUME NEW line \in UpLine, Written(line), line.type \notin {"QA_ARMED", "QA_REJECTED", "QA_ACK"}
      PROVE  up' = up \/ \E x \in UpLine : up' = Append(up, x) /\ ~Armed(x, a) /\ ~Closing(x, a)
  <2>1. ~Armed(line, a) /\ ~Closing(line, a)
    BY <1>8 DEF Armed, Closing, Says
  <2> QED BY <1>0, <1>8, <2>1, WrittenIs
<1>9. CASE Greet \/ PublishState
  <2>1. UNCHANGED <<inbound, down, gate, wire>>
    BY <1>9 DEF Greet, PublishState
  <2>2. Queue' = Queue
    BY <1>1, <2>1 DEF Queue
  <2>3. /\ Hello \in UpLine /\ Hello.type \notin {"QA_ARMED", "QA_REJECTED", "QA_ACK"}
        /\ State \in UpLine /\ State.type \notin {"QA_ARMED", "QA_REJECTED", "QA_ACK"}
    BY <1>0 DEF Hello, State, UpLine
  <2>4. Quiet
    BY <1>8, <1>9, <2>3 DEF Greet, PublishState
  <2> QED BY <1>1, <2>1, <2>2, <2>4, UnansweredIsTracked
<1>10. CASE HandlePing
  <2>1. Handle("QA_PING") /\ UNCHANGED <<gate, wire>> /\ Written(Pong(Head(inbound).by))
    BY <1>10 DEF HandlePing, Handle
  <2>2. /\ Queue \in Seq(DownLine) /\ Queue # <<>> /\ Queue' = Tail(Queue) /\ Head(Queue).type = "QA_PING"
        /\ Head(Queue) = Head(inbound) /\ Head(inbound) \in DownLine
    BY <2>1, HandledIsFirst
  <2>3. Head(inbound).by \in Sessions
    BY <2>2, OrderIs DEF Says
  <2>4. Pong(Head(inbound).by) \in UpLine /\ Pong(Head(inbound).by).type \notin {"QA_ARMED", "QA_REJECTED", "QA_ACK"}
    BY <2>3 DEF Pong, UpLine
  <2>5. Quiet
    BY <1>8, <2>1, <2>4
  <2>6. ~Arming(Head(Queue), a)
    BY <2>2 DEF Arming, Says
  <2> QED BY <1>1, <2>1, <2>2, <2>5, <2>6, UnansweredIsTracked
<1>11. CASE HandleDisarm
  <2>1. Handle("QA_DISARM") /\ gate' = None /\ UNCHANGED <<up, wire>>
    BY <1>11 DEF HandleDisarm, Handle
  <2>2. Queue \in Seq(DownLine) /\ Queue # <<>> /\ Queue' = Tail(Queue) /\ Head(Queue).type = "QA_DISARM"
    BY <2>1, HandledIsFirst
  <2>3. ~Arming(Head(Queue), a) /\ Head(Queue).type \in Orders
    BY <2>2 DEF Arming, Says, Orders
  <2> QED BY <1>1, <2>1, <2>2, <2>3, UnansweredIsTracked
<1>12. CASE HandleArm
  BY <1>12, HandleArmKeepsTrack
<1>13. CASE \E b \in Actions : Gesture(b)
  BY <1>13, ObserveKeepsTrack DEF Gesture
<1>14. CASE \E shape \in Shapes : StrayTouch(shape)
  BY <1>14, ObserveKeepsTrack DEF StrayTouch
<1>15. CASE \E b \in Actions : Expire(b)
  BY <1>2, <1>15 DEF Expire
<1> QED BY <1>4, <1>5, <1>6, <1>7, <1>9, <1>10, <1>11, <1>12, <1>13, <1>14, <1>15 DEF DeviceStep, Surroundings

LEMMA LeasesStayTracked ==
  ASSUME BridgeInv, Next
  PROVE  LeasesAreTracked'
<1>1. CASE DeviceStep \/ Surroundings
  <2>1. leases' = leases
    BY <1>1, DeviceLeavesHost DEF armed
  <2>2. \A a \in leases' : ArmIsTracked(a)'
    BY <1>1, <2>1, AppKeepsTrack
  <2> QED BY <2>2 DEF LeasesAreTracked
<1>2. CASE HostStep
  <2>1. \A a \in leases' : a \notin leases => \E b \in Actions : Ask(b)
    <3>1. CASE \E b \in Actions : Ask(b)
      BY <3>1
    <3>2. CASE ~\E b \in Actions : Ask(b)
      <4>1. leases' \subseteq leases
        BY <1>2, <3>2 DEF HostStep, Connect, Close, HandleClose, HandleHello, HandleState, HandleMalformed, SendPing,
           HandlePong, HandleArmed, HandleAck, HandleRejected, LoseBridge, RemoveLeases, Consume, AskUnready, TimerFires,
           ExecuteReturns, ExecuteThrows, armed
      <4> QED BY <4>1
    <3> QED BY <3>1, <3>2
  <2>2. \A a \in leases' : ArmIsTracked(a)'
    <3> SUFFICES ASSUME NEW a \in leases' PROVE ArmIsTracked(a)'
      OBVIOUS
    <3>1. CASE a \in leases
      BY <1>2, <3>1, HostKeepsTrack
    <3>2. CASE a \notin leases
      <4>1. PICK b \in Actions : Ask(b)
        BY <2>1, <3>2
      <4>2. leases' = {b} /\ ArmIsTracked(b)'
        BY <4>1, AskIsTracked
      <4> QED BY <4>2
    <3> QED BY <3>1, <3>2
  <2> QED BY <2>2 DEF LeasesAreTracked
<1> QED BY <1>1, <1>2 DEF Next
-----------------------------------------------------------------------------
(* The results.                                                            *)
LEMMA BridgeStarts ==
  ASSUME Init
  PROVE  BridgeInv
<1>1. AppTyped /\ HostTyped
  <2>1. 1 \in 1..MaxApps /\ 1 \in Screens /\ 0 \in 0..MaxSessions /\ 0 \in 0..MaxScreen /\ 0 \in 0..MaxApps
        /\ 0 \in 0..Samples
    BY BridgeAssumption DEF Screens
  <2>2. AppTyped
    BY <2>1 DEF Init, AppTyped
  <2>3. HostTyped
    BY <2>1 DEF Init, HostTyped, Status
  <2> QED BY <2>2, <2>3
<1>2. WireTyped
  <2>1. <<>> \in Seq(DownLine) /\ <<>> \in Seq(UpLine)
    OBVIOUS
  <2> QED BY <2>1 DEF Init, WireTyped
<1>3. ArmsTyped
  BY DEF Init, ArmsTyped
<1>4. ConnectionIsSound
  BY DEF Init, ConnectionIsSound, EndsAreSound, HandshakeIsSound, Ungreeted, NoHello, OneHello
<1>5. OrdersAreOfArms /\ GateIsOfArm /\ AnswersAreOfArms /\ InputsAreOfArms /\ OutcomesAreOfInputs
  BY DEF Init, OrdersAreOfArms, OrdersAreAskedFor, GateIsOfArm, AnswersAreOfArms, InputsAreOfArms, OutcomesAreOfInputs
<1>6. LeasesAreHeld /\ LeasesAreTracked
  BY DEF Init, LeasesAreHeld, LeasesAreTracked
<1> QED BY <1>1, <1>2, <1>3, <1>4, <1>5, <1>6 DEF BridgeInv, BridgeTyped, ArmsAreAskedFor

LEMMA BridgeSteps ==
  ASSUME BridgeInv, [Next]_vars
  PROVE  BridgeInv'
<1>1. CASE Next
  <2>1. BridgeTyped /\ ConnectionIsSound
    BY DEF BridgeInv
  <2>2. BridgeTyped'
    BY <1>1, <2>1, BridgeStaysTyped
  <2>3. ConnectionIsSound'
    BY <1>1, <2>1, EndsStaySound, HandshakeStaysSound DEF ConnectionIsSound
  <2>4. LeasesAreHeld' /\ OutcomesAreOfInputs'
    BY <1>1, ArmsAreStillHeld DEF ArmsStayHeld
  <2>5. ArmsAreAskedFor'
    BY <1>1, <2>4, OrdersStayOfArms, GateStaysOfArm, AnswersStayOfArms, InputsStayOfArms DEF ArmsAreAskedFor
  <2>6. LeasesAreTracked'
    BY <1>1, LeasesStayTracked
  <2> QED BY <2>2, <2>3, <2>4, <2>5, <2>6 DEF BridgeInv
<1>2. CASE UNCHANGED vars
  BY <1>2 DEF vars, device, host, armed, BridgeInv, BridgeTyped, AppTyped, WireTyped, HostTyped, ArmsTyped,
     ConnectionIsSound, EndsAreSound, HandshakeIsSound, Ungreeted, ArmsAreAskedFor, OrdersAreOfArms,
     OrdersAreAskedFor, GateIsOfArm, AnswersAreOfArms, AnswersWell, AskedFor, InputsAreOfArms, OutcomesAreOfInputs,
     LeasesAreHeld, LeaseFits, LeasesAreTracked, ArmIsTracked, OnItsWay, AtTheGate, Queue
<1> QED BY <1>1, <1>2

LEMMA BridgeInvHolds == Spec => []BridgeInv
BY BridgeStarts, BridgeSteps, PTL DEF Spec

LEMMA SoundArmsAreHonest ==
  ASSUME BridgeInv
  PROVE  ArmsAreHonest
<1>1. TypeOK
  <2>1. /\ \A a \in Actions : asked[a] = None \/ (asked[a].screen \in Screens /\ asked[a].app \in 1..MaxApps)
        /\ \A a \in Actions : observed[a] = None \/ (observed[a].shape \in Shapes /\ observed[a].screen \in Screens)
    BY DEF BridgeInv, BridgeTyped, ArmsTyped, AppTyped, AskedArm, Input
  <2>2. \A a \in Actions : act[a] \in {"idle", "arming", "acting", "waiting"} \cup Verdicts
                           /\ outcome[a] \in {"open", "armed", "acked", "rejected"}
    BY DEF BridgeInv, BridgeTyped, ArmsTyped, Live
  <2> QED BY <2>1, <2>2 DEF TypeOK, BridgeInv, BridgeTyped, AppTyped, WireTyped, HostTyped, ArmsTyped, Status
<1>2. AckMeansObserved
  BY DEF AckMeansObserved, BridgeInv, ArmsAreAskedFor, OutcomesAreOfInputs, InputsAreOfArms
<1>3. LostBridgeHoldsNothing
  BY DEF LostBridgeHoldsNothing, BridgeInv, LeasesAreHeld
<1>4. ASSUME NEW a \in leases, outcome[a] = "armed", wire, up = <<>>, down[session] = <<>>, inbound = <<>>
      PROVE  gate # None /\ gate.action = a
  <2>1. a \in Actions
    BY <1>4, LeaseIsConnected
  <2>2. ~HostAhead
    BY <1>4, <2>1 DEF BridgeInv, LeasesAreHeld
  <2>3. ~Closed(up, a)
    BY <1>4 DEF Closed
  <2>4. AtTheGate(a)
    BY <1>4, LeaseIsTracked DEF OnItsWay
  <2> QED BY <1>4, <2>2, <2>3, <2>4 DEF AtTheGate
<1>5. HeldArmIsGranted
  BY <1>4 DEF HeldArmIsGranted
<1> QED BY <1>1, <1>2, <1>3, <1>5 DEF ArmsAreHonest

\* The bridge is never taken for more than it is: an action passes for performed only when
\* the app saw its input on the screen the arm was asked for, a lease the host takes for
\* armed is the one QaArmGate holds once nothing is under way, and no lease outlives the
\* connection it was granted over (arm-controller.ts, bridge-client.ts, QaArmGate.cs).
THEOREM ArmsHold == Spec => []ArmsAreHonest
BY BridgeInvHolds, SoundArmsAreHonest, PTL
=============================================================================
