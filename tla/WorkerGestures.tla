--------------------------- MODULE WorkerGestures ---------------------------
(***************************************************************************)
(* The actions a device's worker performs (device-worker.ts) through its   *)
(* Appium session (w3c-client.ts), while it is stopped and started again.  *)
(*                                                                         *)
(* An action is a series of requests, each awaited: bring the app to the   *)
(* front, ask what is in front until it is the app, then the gesture.  The *)
(* host may give up on a request that the server still has.  Sessions are  *)
(* numbered; ports, leases and the bridge are WorkerResources' matter.  A  *)
(* point is a pair of numerators over Scale.                               *)
(***************************************************************************)
EXTENDS Naturals, Sequences

CONSTANTS
  Call,           \* calls of executeAction
  ActionCommand,  \* what they may ask for: [type, path, durationMs]
  MaxSessions,    \* bound: sessions created
  MaxWorkerStops, \* bound: stops of the worker
  Width, Height,  \* the viewport
  Scale,          \* coordinates of a command lie in 0..Scale
  RequestTimeout  \* requestTimeoutMs

ASSUME WorkerGesturesAssumption ==
  /\ {MaxSessions, MaxWorkerStops, RequestTimeout} \subseteq Nat
  /\ Width \in Nat \ {0, 1} /\ Height \in Nat \ {0, 1} /\ Scale \in Nat \ {0}
  /\ \A c \in ActionCommand :
       /\ c.path \in Seq((0..Scale) \X (0..Scale)) /\ c.durationMs \in Nat
       /\ c.type \in {"tap", "longPress"} => Len(c.path) = 1
       /\ c.type \in {"swipe", "drag"} => Len(c.path) > 1

VARIABLES
  worker,      \* DeviceWorker._state
  generation,  \* DeviceWorker._generation
  fence,       \* the session of this.client and this.fence, 0 for undefined
  made,        \* sessions created so far
  holds,       \* the sessions whose client has an activeFence
  alive,       \* the sessions the server has
  front,       \* whether the app is in front of the device
  call,        \* the calls of executeAction
  asked,       \* the requests the server has not handled yet
  done,        \* the gestures the device made
  reported     \* runtime faults: the generation they are of, and the one they name

workerVars  == <<worker, generation, fence, made, holds>>
gestureVars == <<workerVars, alive, front, call, asked, done, reported>>

\* born is the generation a call began in; seen and late serve the properties.
NoCall == [pc |-> "free", fence |-> 0, born |-> 0, answer |-> "none", seen |-> FALSE,
           late |-> "no", command |-> "none"]

Requests == {"activate", "look", "gesture", "terminate", "reactivate"}

GestureInit ==
  /\ worker = "DISCONNECTED" /\ generation = 1 /\ fence = 0 /\ made = 0 /\ holds = {}
  /\ alive = {} /\ front = FALSE
  /\ call = [c \in Call |-> NoCall]
  /\ asked = {} /\ done = {} /\ reported = {}
-----------------------------------------------------------------------------
(* Pointer actions (appium-action.ts).                                     *)

\* Math.round of a coordinate times the last pixel.
Pixel(n, size) == (2 * n * (size - 1) + Scale) \div (2 * Scale)

Point(p) == <<Pixel(p[1], Width), Pixel(p[2], Height)>>

MoveTo(p, ms) == [is |-> "move", at |-> Point(p), ms |-> ms]
Press         == [is |-> "down", at |-> <<>>, ms |-> 0]
Lift          == [is |-> "up", at |-> <<>>, ms |-> 0]
Hold(ms)      == [is |-> "pause", at |-> <<>>, ms |-> ms]

\* The path in segments of equal time, the last of which takes what is left.
Along(path, ms) ==
  LET n == Len(path) - 1
  IN  [i \in 1..n |-> MoveTo(path[i + 1],
                             ms \div n + IF i = n THEN ms - (ms \div n) * n ELSE 0)]

Pointer == {"tap", "longPress", "swipe", "drag"}

PointerActions(c) ==
  <<MoveTo(c.path[1], 0), Press>>
  \o (CASE c.type = "longPress" -> <<Hold(c.durationMs)>>
        [] c.type \in {"swipe", "drag"} -> Along(c.path, c.durationMs)
        [] OTHER -> <<>>)
  \o <<Lift>>
-----------------------------------------------------------------------------
(* The worker.                                                             *)

\* A fault of what began in generation born names the generation of by now.
Fault(born, category) == [born |-> born, generation |-> generation, category |-> category]

StartWorker ==
  /\ worker \in {"DISCONNECTED", "STOPPED", "ERROR"} /\ made < MaxSessions
  /\ worker' = "STARTING" /\ made' = made + 1
  /\ alive' = alive \cup {made + 1} /\ holds' = holds \cup {made + 1}
  /\ UNCHANGED <<generation, fence, front, call, asked, done, reported>>

WorkerReady ==
  /\ worker = "STARTING" /\ worker' = "READY" /\ fence' = made
  /\ UNCHANGED <<generation, made, holds, alive, front, call, asked, done, reported>>

\* A step of start failed, maybe by a fault: the session is deleted, if that
\* succeeds and says so.
WorkerFailsToStart ==
  /\ worker = "STARTING" /\ worker' = "ERROR"
  /\ alive' \in {alive, alive \ {made}} /\ holds' \in {holds, holds \ {made}}
  /\ reported' \in {reported, reported \cup {Fault(generation, "BRIDGE_TIMEOUT")}}
  /\ UNCHANGED <<generation, fence, made, front, call, asked, done>>

StopWorker ==
  /\ worker \in {"READY", "ERROR"} /\ generation <= MaxWorkerStops
  /\ worker' = "STOPPING"
  /\ UNCHANGED <<generation, fence, made, holds, alive, front, call, asked, done, reported>>

\* deleteSession: the fence is cleared when the answer says that it succeeded,
\* and not when the answer is lost; a session that is lost already is an error.
DeleteSession ==
  /\ worker = "STOPPING" /\ fence \in alive
  /\ alive' = alive \ {fence}
  /\ holds' \in {holds \ {fence}, holds}
  /\ UNCHANGED <<worker, generation, fence, made, front, call, asked, done, reported>>

\* The rest of stop: the Appium server goes too, if it can be stopped.
WorkerStops ==
  /\ worker = "STOPPING"
  /\ \/ worker' = "STOPPED" /\ fence \notin holds /\ alive' = alive \ {fence}
     \/ worker' = "ERROR" /\ alive' \in {alive, alive \ {fence}}
  /\ fence' = 0 /\ generation' = generation + 1
  /\ UNCHANGED <<made, holds, front, call, asked, done, reported>>

\* The device drops the session, or shows something else (external).
SessionLost ==
  /\ \E s \in alive : alive' = alive \ {s}
  /\ UNCHANGED <<workerVars, front, call, asked, done, reported>>

FrontChanges ==
  /\ front' = ~ front
  /\ UNCHANGED <<workerVars, alive, call, asked, done, reported>>
-----------------------------------------------------------------------------
(* The actions.                                                            *)

\* toRuntimeFaultEvent.
Report(c, category) ==
  reported' = reported \cup {Fault(call[c].born, category)}

Fails(c) == call' = [call EXCEPT ![c].pc = "failed"]

\* Mutant: each request is made of the session the worker has by then.
SessionByNow(c) == fence

\* A call keeps the client and the fence it read when it began.
SessionOf(c) == call[c].fence

\* requestValue: a stale fence is refused before anything is sent.
Send(c, request) ==
  IF SessionOf(c) \in holds
  THEN /\ call' = [call EXCEPT ![c].pc = request, ![c].answer = "none"]
       /\ asked' = asked \cup {[call |-> c, pc |-> request, session |-> SessionOf(c)]}
       /\ UNCHANGED reported
  ELSE Fails(c) /\ Report(c, "BRIDGE_STATE_MISMATCH") /\ UNCHANGED asked

ExecuteAction(c) ==
  \E command \in ActionCommand :
    /\ call[c].pc = "free" /\ worker = "READY" /\ fence # 0
    /\ call' = [call EXCEPT ![c] = [NoCall EXCEPT !.pc = "activate", !.fence = fence,
                                                   !.born = generation, !.command = command]]
    /\ asked' = asked \cup {[call |-> c, pc |-> "activate", session |-> fence]}
    /\ UNCHANGED <<workerVars, alive, front, done, reported>>

(* The server handles a request, for the call that awaits it or gave it up *)
(* (external).                                                             *)
Serve(q) ==
  LET held == q.session \in alive
      long == q.pc = "gesture" /\ call[q.call].command.durationMs > RequestTimeout
  IN  /\ q \in asked
      /\ asked' = asked \ {q}
      /\ front' = IF held /\ q.pc \in {"activate", "reactivate"} THEN TRUE
                  ELSE IF held /\ q.pc = "terminate" THEN FALSE ELSE front
      /\ done' = IF held /\ q.pc = "gesture"
                 THEN done \cup {[call |-> q.call, session |-> q.session,
                                  moves |-> IF call[q.call].command.type \in Pointer
                                            THEN PointerActions(call[q.call].command)
                                            ELSE <<>>]}
                 ELSE done
      /\ call' = IF call[q.call].pc # q.pc THEN call
                 ELSE [call EXCEPT ![q.call].answer = IF ~ held THEN "gone"
                                                      ELSE IF long THEN "late"
                                                      ELSE IF q.pc = "look" /\ ~ front THEN "other"
                                                      ELSE "ok"]
      /\ UNCHANGED <<workerVars, alive, reported>>

Answered(c, request, answer) == call[c].pc = request /\ call[c].answer = answer

Activated(c) ==
  /\ Answered(c, "activate", "ok")
  /\ Send(c, "look")
  /\ UNCHANGED <<workerVars, alive, front, done>>

\* A key or a text is one request, as a gesture is.
NextRequest(command) ==
  IF command.type \in {"terminate", "restart"} THEN "terminate" ELSE "gesture"

Sees(c) == Answered(c, "look", "ok")

AppInFront(c) ==
  LET next == NextRequest(call[c].command)
  IN  /\ Sees(c)
      /\ IF call[c].command.type = "activate"
         THEN /\ call' = [call EXCEPT ![c].pc = "performed", ![c].seen = call[c].answer = "ok"]
              /\ UNCHANGED <<asked, reported>>
         ELSE IF SessionOf(c) \in holds
         THEN /\ call' = [call EXCEPT ![c].pc = next, ![c].answer = "none",
                                      ![c].seen = call[c].answer = "ok"]
              /\ asked' = asked \cup {[call |-> c, pc |-> next, session |-> SessionOf(c)]}
              /\ UNCHANGED reported
         ELSE Fails(c) /\ Report(c, "BRIDGE_STATE_MISMATCH") /\ UNCHANGED asked
      /\ UNCHANGED <<workerVars, alive, front, done>>

\* Something else is in front: the call asks again, or its five seconds are over.
OtherInFront(c) ==
  /\ Answered(c, "look", "other")
  /\ \/ Send(c, "look")
     \/ Fails(c) /\ UNCHANGED <<asked, reported>>
  /\ UNCHANGED <<workerVars, alive, front, done>>

Terminated(c) ==
  /\ Answered(c, "terminate", "ok") /\ call[c].command.type = "restart"
  /\ Send(c, "reactivate")
  /\ UNCHANGED <<workerVars, alive, front, done>>

Performed(c) ==
  /\ \/ Answered(c, "gesture", "ok") \/ Answered(c, "reactivate", "ok")
     \/ Answered(c, "terminate", "ok") /\ call[c].command.type = "terminate"
  /\ call' = [call EXCEPT ![c].pc = "performed"]
  /\ UNCHANGED <<workerVars, alive, front, asked, done, reported>>

\* 404 or "invalid session id".
SessionGone(c) ==
  /\ call[c].pc \in Requests /\ call[c].answer = "gone"
  /\ Fails(c) /\ Report(c, "APPIUM_SESSION_LOST")
  /\ UNCHANGED <<workerVars, alive, front, asked, done>>

\* AbortSignal.timeout: the server was slow, or the gesture takes longer.
TimesOut(c) ==
  /\ call[c].pc \in Requests /\ call[c].answer \in {"none", "late"}
  /\ call' = [call EXCEPT ![c].pc = "failed",
                          ![c].late = IF call[c].answer = "none" THEN "server" ELSE "gesture"]
  /\ Report(c, "BRIDGE_TIMEOUT")
  /\ UNCHANGED <<workerVars, alive, front, asked, done>>

\* No server to be reached, or an error of its own: a fault of no category.  It
\* may have got the request nevertheless.
RequestFails(c) ==
  /\ call[c].pc \in Requests /\ call[c].answer = "none"
  /\ Fails(c) /\ asked' \in {asked, {q \in asked : q.call # c}}
  /\ UNCHANGED <<workerVars, alive, front, done, reported>>

GestureNext ==
  \/ StartWorker \/ WorkerReady \/ WorkerFailsToStart \/ StopWorker
  \/ DeleteSession \/ WorkerStops \/ SessionLost \/ FrontChanges
  \/ \E c \in Call :
       \/ ExecuteAction(c) \/ Activated(c) \/ AppInFront(c) \/ OtherInFront(c) \/ Terminated(c)
       \/ Performed(c) \/ SessionGone(c) \/ TimesOut(c) \/ RequestFails(c)
  \/ \E q \in asked : Serve(q)

GestureSpec == GestureInit /\ [][GestureNext]_gestureVars
-----------------------------------------------------------------------------
GestureTypeOK ==
  /\ worker \in {"DISCONNECTED", "STARTING", "READY", "STOPPING", "STOPPED", "ERROR"}
  /\ generation \in Nat /\ made \in 0..MaxSessions /\ fence \in 0..made
  /\ alive \subseteq 1..made /\ holds \subseteq 1..made
  /\ \A c \in Call : call[c].pc \in Requests \cup {"free", "performed", "failed"}
  /\ \A q \in asked : q.call \in Call /\ q.pc \in Requests /\ q.session \in 1..made

(* Whatever the worker went through meanwhile, a gesture is made in the    *)
(* session its action began in, and once at most.                          *)
GesturesStayInTheirSession ==
  \A p \in done :
    /\ p.session = call[p.call].fence
    /\ \A o \in done : o.call = p.call => o = p

(* An action that reads as performed was: after the app had been seen in   *)
(* front, and the gesture by the device.                                   *)
PerformedIsDone ==
  \A c \in Call : call[c].pc = "performed" =>
    /\ call[c].seen
    /\ call[c].command.type \notin {"terminate", "restart", "activate"}
         => \E p \in done : p.call = c

(* A gesture begins at the first point of its path and presses there, ends *)
(* at the last and lifts, never leaves the screen, and takes as long as it *)
(* was asked to (createCommandPointerActions).                             *)
GesturesAreAsDrawn ==
  \A p \in {q \in done : call[q.call].command.type \in Pointer} :
    LET m     == p.moves
        c     == call[p.call].command
        moved == {i \in DOMAIN m : m[i].is = "move"}
        took[i \in 0..Len(m)] == IF i = 0 THEN 0 ELSE took[i - 1] + m[i].ms
    IN  /\ m[1].at = Point(c.path[1]) /\ m[2] = Press /\ m[Len(m)] = Lift
        /\ \E i \in moved : m[i].at = Point(c.path[Len(c.path)])
                            /\ \A j \in moved : j <= i
        /\ \A i \in moved : m[i].at[1] < Width /\ m[i].at[2] < Height
        /\ took[Len(m)] = IF c.type = "tap" THEN 0 ELSE c.durationMs

GesturesAreTheirs ==
  GestureTypeOK /\ GesturesStayInTheirSession /\ PerformedIsDone /\ GesturesAreAsDrawn

(* A fault names the generation of the worker its action ran on: "Appium,  *)
(* logcat, and bridge fences belong to the rebuilt worker generation"      *)
(* (M9-task23-explicit-resume-acceptance.md), and the incident keeps it.   *)
(* The code breaks it: README, Disagreements without a run.                *)
FaultsNameTheirWorker ==
  \A f \in reported : f.generation = f.born

(* "swipe/drag path 2-128 points and 50-30,000 ms"                         *)
(* (m9-actions-failure-policies.md): a request times out when the server   *)
(* is slow, not because of what it was asked to do.                        *)
(* The code breaks it: README, Disagreements without a run.                *)
OnlySlowServersTimeOut ==
  \A c \in Call : call[c].late # "gesture"
=============================================================================
