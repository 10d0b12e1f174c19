---------------------------- MODULE BridgeArming ----------------------------
(***************************************************************************)
(* How the host learns that a gesture reached the game.  Before a gesture  *)
(* is injected the worker's ArmController asks the QA bridge inside the    *)
(* Unity app to expect it (QA_ARM); the bridge answers QA_ARMED, observes  *)
(* the input, consumes the arm and answers QA_ACK.  One device is          *)
(* modelled, with the workers (sessions) that connect to it one after the  *)
(* other: BridgeClient, ClockCalibrator and ArmController at the host,     *)
(* QaBridgeServer and QaArmGate in the app, the TCP connection between     *)
(* them, and the dispatcher that uses the lease.                           *)
(*                                                                         *)
(* A screen stands for the view, the focused control and the metrics epoch *)
(* of the app; a shape for the normalised gesture.  QA_STATE lines that    *)
(* repeat the screen the host already has are left out.                    *)
(***************************************************************************)
EXTENDS Naturals, Sequences, FiniteSets

CONSTANTS
    MaxActions,   \* bound: actions dispatched to this device
    Shapes,       \* gesture shapes
    ShapeOf,      \* the shape of each action's gesture
    MaxScreen,    \* bound: screens the app goes through
    MaxSessions,  \* bound: workers that connect
    MaxApps,      \* bound: launches of the app
    Samples,      \* pings of a clock calibration (3 in runtime-bridge.ts)
    MaxLines,     \* bound: lines towards the host before another unasked one
    HostAhead,    \* performance.now() of the server is ahead of elapsedRealtime
                  \* of the device by more than an arm lasts
    None

Actions  == 1..MaxActions
Screens  == 1..MaxScreen
Sessions == 1..MaxSessions

ASSUME BridgeAssumption ==
    /\ MaxActions \in Nat /\ MaxScreen \in Nat \ {0}
    /\ ShapeOf \in [Actions -> Shapes]
    /\ MaxSessions \in Nat \ {0} /\ MaxApps \in Nat \ {0}
    /\ Samples \in Nat /\ MaxLines \in Nat \ {0} /\ HostAhead \in BOOLEAN
    /\ None \notin Shapes \cup [action : Actions, screen : Screens]
    /\ None \notin [shape : Shapes, screen : Screens] \cup [screen : Screens, app : 1..MaxApps]

VARIABLES
    (* the app *)
    app,        \* which launch of the app is running (bridgeInstanceId, bootId)
    screen,     \* what it shows; screens are numbered as they come
    gate,       \* QaArmGate.active
    client,     \* session the server writes to, 0 when none
    greeted,    \* QA_HELLO was sent on it (helloSent)
    published,  \* screen of the last QA_STATE on it, 0 before the first
    reader,     \* session whose ReadLoop occupies the accept thread, 0 when none
    accepted,   \* last session accepted
    inbound,    \* lines read and not handled yet
    expired,    \* actions whose arm has expired on the device's clock
    seen,       \* actions whose gesture the app has seen
    observed,   \* input that consumed the arm of each action
    (* the wire *)
    wire,       \* the current session's connection is up
    down,       \* lines towards the app, per session
    up,         \* lines towards the current session
    (* the host *)
    session,    \* current worker, 0 before the first
    status,     \* BridgeClient.status
    hello,      \* launch named by the last QA_HELLO, 0 when none
    state,      \* screen of the last QA_STATE, 0 when none
    pings,      \* pings answered by the calibration
    pinging,    \* one of them is awaited
    leases,     \* actions in ArmController.leases
    timers,     \* actions whose local timeout is running
    asked,      \* descriptor of each lease
    outcome,    \* what became of the promises of each lease
    act         \* where the dispatcher is with each action

device == <<app, screen, gate, client, greeted, published, reader, accepted,
            inbound, expired, observed>>
host   == <<session, status, hello, state, pings, pinging>>
armed  == <<leases, timers, asked, outcome, act>>
vars   == <<device, seen, wire, down, up, host, armed>>

Arm      == [action : Actions, screen : Screens]
Verdicts == {"performed", "failed", "refused"}   \* refused: never armed

TypeOK ==
    /\ app \in 1..MaxApps /\ screen \in Screens
    /\ gate \in Arm \cup {None}
    /\ client \in 0..MaxSessions /\ reader \in 0..MaxSessions
    /\ accepted \in 0..MaxSessions /\ session \in 0..MaxSessions
    /\ greeted \in BOOLEAN /\ wire \in BOOLEAN
    /\ published \in 0..MaxScreen /\ state \in 0..MaxScreen
    /\ expired \subseteq Actions /\ pinging \in BOOLEAN
    /\ seen \subseteq Actions
    /\ leases \subseteq Actions /\ timers \subseteq Actions
    /\ status \in {"idle", "connecting", "ready", "error", "closed"}
    /\ hello \in 0..MaxApps /\ pings \in 0..Samples
    /\ \A a \in Actions :
         /\ outcome[a] \in {"open", "armed", "acked", "rejected"}
         /\ act[a] \in {"idle", "arming", "acting", "waiting"} \cup Verdicts
         /\ asked[a] = None \/ (asked[a].screen \in Screens /\ asked[a].app \in 1..MaxApps)
         /\ observed[a] = None \/ (observed[a].shape \in Shapes /\ observed[a].screen \in Screens)

Init ==
    /\ app = 1 /\ screen = 1
    /\ gate = None /\ client = 0 /\ greeted = FALSE /\ published = 0
    /\ reader = 0 /\ accepted = 0 /\ inbound = <<>>
    /\ expired = {} /\ seen = {}
    /\ observed = [a \in Actions |-> None]
    /\ wire = FALSE /\ down = [s \in Sessions |-> <<>>] /\ up = <<>>
    /\ session = 0 /\ status = "idle" /\ hello = 0 /\ state = 0 /\ pings = 0
    /\ pinging = FALSE /\ leases = {} /\ timers = {}
    /\ asked = [a \in Actions |-> None]
    /\ outcome = [a \in Actions |-> "open"]
    /\ act = [a \in Actions |-> "idle"]

-----------------------------------------------------------------------------
(* The lines of the protocol. *)

Ping            == [type |-> "QA_PING", by |-> session]
ArmLine(a, s)   == [type |-> "QA_ARM", action |-> a, screen |-> s]
Disarm          == [type |-> "QA_DISARM"]
Hello           == [type |-> "QA_HELLO", app |-> app]
State           == [type |-> "QA_STATE", screen |-> screen]
Pong(s)         == [type |-> "QA_PONG", to |-> s]
\* A QA_REJECTED without an action: JsonUtility writes the null as "", which the
\* host's schema refuses.
Malformed       == [type |-> "malformed"]
Answer(type, g) == [type |-> type, action |-> g.action, screen |-> g.screen,
                    app |-> app]

\* What a write to the socket leaves in flight: nothing when the peer is gone.
Sent(lines)    == down' = IF wire
                          THEN [down EXCEPT ![session] = @ \o lines]
                          ELSE down
Written(line)  == up' = IF client = session /\ wire THEN Append(up, line) ELSE up

-----------------------------------------------------------------------------
(* ArmController: leases and their promises. *)

\* Mutant: a lease that is closed leaves its timer running.
StopNoTimeout(S) == timers

StopTimeout(S) == timers \ S

\* reject() of a settled promise changes nothing.
Rejected(S) ==
    [a \in Actions |->
        IF a \in S /\ outcome[a] # "acked" THEN "rejected" ELSE outcome[a]]

\* Mutant: only the promise of arm() is rejected, not the one of waitForAck().
AbandonedArming(S) ==
    [a \in Actions |-> IF a \in S /\ act[a] = "arming" THEN "refused" ELSE act[a]]

\* The dispatcher goes on when the promise it awaits is rejected.
Abandoned(S) ==
    [a \in Actions |->
        CASE a \in S /\ act[a] = "arming"  -> "refused"
          [] a \in S /\ act[a] = "waiting" -> "failed"
          [] OTHER -> act[a]]

\* removeLease: one QA_DISARM for each lease, which names no arm for the app.
RemoveLeases(S, disarms) ==
    /\ leases'  = leases \ S
    /\ timers'  = StopTimeout(S)
    /\ outcome' = Rejected(S)
    /\ act'     = Abandoned(S)
    /\ Sent(IF disarms THEN [i \in 1..Cardinality(S \cap leases) |-> Disarm]
                       ELSE <<>>)
    /\ UNCHANGED asked

Calibrated == status = "ready" /\ pings = Samples
Busy       == {a \in Actions : act[a] \in {"arming", "acting", "waiting"}}

\* The outbox dispatches one group action of the run at a time, in sequence.
Turn(a) == act[a] = "idle" /\ \A b \in 1..(a - 1) : act[b] \in Verdicts

Ask(a) ==
    /\ Turn(a)
    /\ Calibrated
    /\ leases'  = leases \cup {a}
    /\ timers'  = timers \cup {a}
    /\ asked'   = [asked EXCEPT ![a] = [screen |-> state, app |-> hello]]
    /\ act'     = [act EXCEPT ![a] = "arming"]
    /\ Sent(<<ArmLine(a, state)>>)
    /\ UNCHANGED <<device, seen, wire, up, host, outcome>>

\* A worker whose bridge is lost keeps serving its run: the arm throws.
AskUnready(a) ==
    /\ Turn(a)
    /\ status = "error" /\ pings = Samples
    /\ act' = [act EXCEPT ![a] = "refused"]
    /\ UNCHANGED <<device, seen, wire, down, up, host, leases, timers, asked,
                   outcome>>

\* The local timeout covers the whole exchange, the gesture included.
TimerFires(a) ==
    /\ a \in timers
    /\ leases'  = leases \ {a}
    /\ timers'  = timers \ {a}
    /\ outcome' = Rejected({a})
    /\ act'     = Abandoned({a})
    /\ Sent(IF status = "ready" THEN <<Disarm>> ELSE <<>>)
    /\ UNCHANGED <<device, seen, wire, up, host, asked>>

\* waitForAck hands over the acknowledgement and closes the lease.
Consume(a) ==
    /\ leases' = leases \ {a}
    /\ timers' = StopTimeout({a})
    /\ act'    = [act EXCEPT ![a] = "performed"]

\* The executor returns: the dispatcher waits for the acknowledgement.
ExecuteReturns(a) ==
    /\ act[a] = "acting"
    /\ \/ outcome[a] = "acked" /\ Consume(a)
       \/ /\ outcome[a] = "armed"
          /\ act' = [act EXCEPT ![a] = "waiting"]
          /\ UNCHANGED <<leases, timers>>
       \/ /\ outcome[a] = "rejected"
          /\ act' = [act EXCEPT ![a] = "failed"]
          /\ UNCHANGED <<leases, timers>>
    /\ UNCHANGED <<device, seen, wire, down, up, host, asked, outcome>>

\* The executor throws; the injected gesture may still reach the app.
\* cancel() of a lease that was rejected before does nothing.
ExecuteThrows(a) ==
    /\ act[a] = "acting"
    /\ leases'  = leases \ {a}
    /\ timers'  = StopTimeout({a})
    /\ outcome' = Rejected({a})
    /\ act'     = [act EXCEPT ![a] = "failed"]
    /\ Sent(IF a \in leases /\ status = "ready" THEN <<Disarm>> ELSE <<>>)
    /\ UNCHANGED <<device, seen, wire, up, host, asked>>

-----------------------------------------------------------------------------
(* BridgeClient: the connection of one worker. *)

\* A started worker forwards a port and connects through it.
Connect ==
    /\ session < MaxSessions /\ status \in {"idle", "closed"}
    /\ session' = session + 1
    /\ status' = "connecting" /\ hello' = 0 /\ state' = 0
    /\ pings' = 0 /\ pinging' = FALSE
    /\ wire' = TRUE /\ up' = <<>>
    /\ UNCHANGED <<device, seen, down, armed>>

\* The start of the worker fails, or the worker stops: dispose, then close.
Close ==
    /\ status \in {"connecting", "ready", "error"}
    /\ RemoveLeases(leases, status = "ready")
    /\ status' = "closed" /\ wire' = FALSE /\ up' = <<>>
    /\ UNCHANGED <<device, seen, session, hello, state, pings, pinging>>

\* Mutant: the ArmController does not listen to the status.
LoseBridgeUnheard(newStatus) == status' = newStatus /\ UNCHANGED <<down, armed>>

\* handleClose: the status listener of the ArmController drops every lease, and
\* nobody reconnects.
LoseBridge(newStatus) ==
    /\ RemoveLeases(leases, FALSE)
    /\ status' = newStatus

HandleClose ==
    /\ status \in {"connecting", "ready"} /\ ~wire
    /\ LoseBridge("error")
    /\ up' = <<>>
    /\ UNCHANGED <<device, seen, wire, session, hello, state, pings, pinging>>

Line(type) ==
    /\ status \in {"connecting", "ready"}
    /\ up # <<>> /\ Head(up).type = type
    /\ up' = Tail(up)
    /\ UNCHANGED <<device, seen, session>>

HandleHello ==
    /\ Line("QA_HELLO")
    /\ hello' = Head(up).app
    /\ UNCHANGED <<wire, down, status, state, pings, pinging, armed>>

HandleState ==
    /\ Line("QA_STATE")
    /\ hello # 0
    /\ state' = Head(up).screen
    /\ status' = "ready"
    /\ UNCHANGED <<wire, down, hello, pings, pinging, armed>>

\* Before the handshake is complete a line the parser refuses ends the connection;
\* afterwards it is dropped.
HandleMalformed ==
    /\ Line("malformed")
    /\ IF state = 0
       THEN LoseBridge("error") /\ wire' = FALSE
       ELSE UNCHANGED <<wire, down, status, armed>>
    /\ UNCHANGED <<hello, state, pings, pinging>>

\* One ping of the calibration and its answer; a worker whose ping times out is
\* closed.
SendPing ==
    /\ status = "ready" /\ pings < Samples /\ ~pinging
    /\ pinging' = TRUE
    /\ Sent(<<Ping>>)
    /\ UNCHANGED <<device, seen, wire, up, session, status, hello, state, pings,
                   armed>>

\* A pong of another ping, left from a former worker, is not listened to.
HandlePong ==
    /\ Line("QA_PONG")
    /\ IF pinging /\ Head(up).to = session
       THEN pings' = pings + 1 /\ pinging' = FALSE
       ELSE UNCHANGED <<pings, pinging>>
    /\ UNCHANGED <<wire, down, status, hello, state, armed>>

\* The answer fits the descriptor the lease was asked with.
Matches(line) ==
    /\ line.action \in leases
    /\ asked[line.action] = [screen |-> line.screen, app |-> line.app]

\* The parser compares expiresAtRealtimeMs, a time of the device, with the clock of
\* the host: it drops the answer when that clock is ahead.
ParserDrops == HostAhead

\* An answer for a lease that is gone changes nothing; one that does not fit
\* removes the lease.
HandleArmed ==
    /\ Line("QA_ARMED")
    /\ LET l == Head(up) IN
       IF ~ParserDrops /\ l.action \in leases
       THEN IF Matches(l)
            THEN /\ outcome' = [outcome EXCEPT ![l.action] = "armed"]
                 /\ act' = [act EXCEPT ![l.action] = "acting"]
                 /\ UNCHANGED <<down, leases, timers, asked>>
            ELSE RemoveLeases({l.action}, TRUE)
       ELSE UNCHANGED <<down, armed>>
    /\ UNCHANGED <<wire, status, hello, state, pings, pinging>>

HandleAck ==
    /\ Line("QA_ACK")
    /\ LET l == Head(up) IN
       IF ~ParserDrops /\ l.action \in leases
       THEN IF Matches(l) /\ outcome[l.action] # "open"
            THEN /\ outcome' = [outcome EXCEPT ![l.action] = "acked"]
                 /\ IF act[l.action] = "waiting" THEN Consume(l.action)
                    ELSE UNCHANGED <<leases, timers, act>>
                 /\ UNCHANGED <<down, asked>>
            ELSE RemoveLeases({l.action}, TRUE)
       ELSE UNCHANGED <<down, armed>>
    /\ UNCHANGED <<wire, status, hello, state, pings, pinging>>

\* A rejected lease is removed and the app is not told.
HandleRejected ==
    /\ Line("QA_REJECTED")
    /\ RemoveLeases({Head(up).action}, FALSE)
    /\ UNCHANGED <<wire, status, hello, state, pings, pinging>>

-----------------------------------------------------------------------------
(* The app: QaBridgeServer and QaArmGate. *)

\* One connection at a time: the thread that accepts also reads.
Accept ==
    /\ reader = 0 /\ accepted < session
    /\ reader' = session /\ accepted' = session
    /\ client' = session /\ greeted' = FALSE /\ published' = 0
    /\ UNCHANGED <<app, screen, gate, inbound, expired, observed, seen, wire,
                   down, up, host, armed>>

Read ==
    /\ reader # 0 /\ client = reader /\ down[reader] # <<>>
    /\ inbound' = Append(inbound, Head(down[reader]))
    /\ down' = [down EXCEPT ![reader] = Tail(@)]
    /\ UNCHANGED <<app, screen, gate, client, greeted, published, reader,
                   accepted, expired, observed, seen, wire, up, host, armed>>

Alive(s) == wire /\ s = session

\* ReadLoop ends at the end of the stream, or before it when the connection is
\* reset.  Only the loop of the accepted client clears the gate.
ReaderEnds ==
    /\ reader # 0 /\ ~Alive(reader)
    /\ reader' = 0
    /\ down' = [down EXCEPT ![reader] = <<>>]
    /\ IF client = reader
       THEN client' = 0 /\ greeted' = FALSE /\ gate' = None
       ELSE UNCHANGED <<client, greeted, gate>>
    /\ UNCHANGED <<app, screen, published, accepted, inbound, expired, observed,
                   seen, wire, up, host, armed>>

\* Publishing to a connection the host has left fails: CloseClient.
WriteFails ==
    /\ client # 0 /\ ~Alive(client)
    /\ client' = 0 /\ greeted' = FALSE
    /\ UNCHANGED <<app, screen, gate, published, reader, accepted, inbound,
                   expired, observed, seen, wire, down, up, host, armed>>

\* Update: QA_HELLO first, then the lines read, then the state.
Greet ==
    /\ client # 0 /\ ~greeted
    /\ greeted' = TRUE
    /\ Written(Hello)
    /\ UNCHANGED <<app, screen, gate, client, published, reader, accepted, inbound,
                   expired, observed, seen, wire, down, host, armed>>

Handle(type) ==
    /\ client = 0 \/ greeted
    /\ inbound # <<>> /\ Head(inbound).type = type
    /\ inbound' = Tail(inbound)
    /\ UNCHANGED <<app, screen, client, greeted, published, reader, accepted,
                   expired, observed, seen, wire, down, host, armed>>

HandlePing ==
    /\ Handle("QA_PING")
    /\ Written(Pong(Head(inbound).by))
    /\ UNCHANGED gate

\* INVALID_ARM when the arm has expired, ARM_BUSY while another one is active.
MayArm(a) ==
    /\ a \notin expired
    /\ gate = None \/ gate.action \in expired

HandleArm ==
    /\ Handle("QA_ARM")
    /\ LET g == [action |-> Head(inbound).action, screen |-> Head(inbound).screen] IN
       IF MayArm(g.action)
       THEN gate' = g /\ Written(Answer("QA_ARMED", g))
       ELSE UNCHANGED gate /\ Written(Answer("QA_REJECTED", g))

\* The action a QA_DISARM names is not looked at.
HandleDisarm ==
    /\ Handle("QA_DISARM")
    /\ gate' = None
    /\ UNCHANGED up

PublishState ==
    /\ client # 0 /\ greeted /\ published # screen /\ Len(up) < MaxLines
    /\ inbound = <<>>
    /\ published' = screen
    /\ Written(State)
    /\ UNCHANGED <<app, screen, gate, client, greeted, reader, accepted, inbound,
                   expired, observed, seen, wire, down, host, armed>>

\* Mutant: the shape of the input is not compared.
FitsScreen(shape) == screen = gate.screen

\* TryConsume accepts an input of the expected shape on the expected screen.  The
\* line for an input without an arm matters only before the first QA_STATE.
Fits(shape) == shape = ShapeOf[gate.action] /\ screen = gate.screen

Observe(shape) ==
    /\ \/ /\ gate = None
          /\ IF published = 0 THEN Written(Malformed) ELSE UNCHANGED up
          /\ UNCHANGED <<gate, observed>>
       \/ /\ gate # None /\ gate.action \in expired
          /\ Written(Answer("QA_REJECTED", gate))
          /\ gate' = None
          /\ UNCHANGED observed
       \/ /\ gate # None /\ gate.action \notin expired /\ ~Fits(shape)
          /\ Written(Answer("QA_REJECTED", gate))
          /\ UNCHANGED <<gate, observed>>
       \/ /\ gate # None /\ gate.action \notin expired /\ Fits(shape)
          /\ Written(Answer("QA_ACK", gate))
          /\ observed' = [observed EXCEPT ![gate.action] =
                            [shape |-> shape, screen |-> screen]]
          /\ gate' = None
    /\ UNCHANGED <<app, screen, client, greeted, published, reader, accepted,
                   inbound, expired, wire, down, host, armed>>

-----------------------------------------------------------------------------
(* What surrounds them. *)

\* The app sees the gesture Appium injected, once; perhaps long after the dispatcher
\* has given up.
Gesture(a) ==
    /\ a \notin seen /\ act[a] \in {"acting", "waiting", "failed"}
    /\ seen' = seen \cup {a}
    /\ Observe(ShapeOf[a])

\* Somebody touches the screen while an arm is active; otherwise it matters before the
\* first QA_STATE only, where a late Gesture has the same effect.
StrayTouch(shape) ==
    /\ gate # None /\ Len(up) < MaxLines
    /\ shape \notin {ShapeOf[a] : a \in Actions}
    /\ Observe(shape)
    /\ UNCHANGED seen

\* The screen is compared while an arm is active: a change at another time is seen as
\* one after the next QA_ARM.
ScreenChanges ==
    /\ screen < MaxScreen /\ gate # None
    /\ screen' = screen + 1
    /\ UNCHANGED <<app, gate, client, greeted, published, reader, accepted, inbound,
                   expired, observed, seen, wire, down, up, host, armed>>

\* 30 s pass on the device after the arm was computed.
Expire(a) ==
    /\ asked[a] # None /\ a \notin expired
    /\ \/ gate # None /\ gate.action = a
       \/ \E i \in 1..Len(inbound) : inbound[i] = ArmLine(a, asked[a].screen)
    /\ expired' = expired \cup {a}
    /\ UNCHANGED <<app, screen, gate, client, greeted, published, reader, accepted,
                   inbound, observed, seen, wire, down, up, host, armed>>

\* The app dies and is launched again.
AppRestarts ==
    /\ app < MaxApps
    /\ app' = app + 1
    /\ gate' = None /\ client' = 0 /\ greeted' = FALSE /\ published' = 0
    /\ reader' = 0 /\ inbound' = <<>> /\ accepted' = session
    /\ wire' = FALSE
    /\ down' = [s \in Sessions |-> <<>>]
    /\ UNCHANGED <<screen, expired, observed, seen, up, host, armed>>

\* adb loses the device or its forward.
LinkBreaks ==
    /\ wire
    /\ wire' = FALSE
    /\ UNCHANGED <<device, seen, down, up, host, armed>>

HostStep ==
    \/ Connect \/ Close \/ HandleClose
    \/ HandleHello \/ HandleState \/ HandleMalformed \/ SendPing \/ HandlePong
    \/ HandleArmed \/ HandleAck \/ HandleRejected
    \/ \E a \in Actions :
         \/ Ask(a) \/ AskUnready(a) \/ TimerFires(a)
         \/ ExecuteReturns(a) \/ ExecuteThrows(a)

DeviceStep ==
    \/ Accept \/ Read \/ ReaderEnds \/ WriteFails \/ Greet
    \/ HandlePing \/ HandleArm \/ HandleDisarm \/ PublishState

Surroundings ==
    \/ \E a \in Actions : Gesture(a) \/ Expire(a)
    \/ \E shape \in Shapes : StrayTouch(shape)
    \/ ScreenChanges \/ AppRestarts \/ LinkBreaks

Next == HostStep \/ DeviceStep \/ Surroundings

\* The timeouts of the host fire, and the W3C client bounds every request to
\* Appium; the device, the wire and the app owe nothing.
Fairness ==
    \A a \in Actions :
        WF_vars(TimerFires(a)) /\ WF_vars(ExecuteReturns(a) \/ ExecuteThrows(a))

Spec == Init /\ [][Next]_vars /\ Fairness

-----------------------------------------------------------------------------
(* Properties. *)

\* An action is taken for performed only when the app saw an input of its shape,
\* once, on the screen the host had seen when it asked (design, section 13: an
\* unrelated touch cannot be mistaken for the synchronized action).
AckMeansObserved ==
    \A a \in Actions :
        act[a] = "performed" =>
            observed[a] = [shape |-> ShapeOf[a], screen |-> asked[a].screen]

\* A QA_DISARM names no arm and the timers outlive many things, yet none hits the
\* arm of a later action: when nothing is under way between host and app, a lease
\* the host holds for armed is the one the app holds.
HeldArmIsGranted ==
    \A a \in leases :
        ( /\ outcome[a] = "armed" /\ wire
          /\ up = <<>> /\ down[session] = <<>> /\ inbound = <<>> )
        => gate # None /\ gate.action = a

\* Whatever is lost or comes late, each dispatch ends: the local timeout covers the
\* arm, the gesture and the acknowledgement.
EveryArmSettles ==
    \A a \in Actions : (a \in Busy) ~> (act[a] \in Verdicts)

\* No lease survives the bridge that granted it: not the loss of the connection,
\* not the restart of the app, not the end of the worker.
LostBridgeHoldsNothing ==
    /\ status # "ready" => leases = {} /\ timers = {}
    /\ \A a \in leases : asked[a].app = hello

\* What the host takes an arm for is what it is, at both ends of the connection:
\* armed means held by the app and granted by this bridge, performed means seen.
ArmsAreHonest == TypeOK /\ AckMeansObserved /\ HeldArmIsGranted /\ LostBridgeHoldsNothing

\* What docs/superpowers/plans/2026-07-31-m5-unity-qa-bridge.md:168 says of the end
\* of a lease: the app is disarmed, once every line has been handled.
\* The code breaks it: README, Disagreements without a run.
ClosedLeaseIsDisarmed ==
    ( /\ status = "ready" /\ wire /\ client = session
      /\ up = <<>> /\ down[session] = <<>> /\ inbound = <<>> )
    => gate = None \/ gate.action \in leases \cup expired

\* What runtime-bridge.ts:36 wants of the clock of the parser: only the answer for
\* an arm that has expired on the device is dropped.
\* The code breaks it: README, Disagreements without a run.
OnlyExpiredArmsAreDropped ==
    [][ ( /\ Len(up) > 0 /\ Head(up).type = "QA_ARMED" /\ up' = Tail(up)
          /\ status = "ready" /\ status' = "ready"
          /\ Head(up).action \in leases
          /\ Matches(Head(up)) )
        => outcome'[Head(up).action] = "armed" \/ Head(up).action \in expired ]_vars

=============================================================================
