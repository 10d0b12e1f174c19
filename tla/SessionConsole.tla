--------------------------- MODULE SessionConsole ---------------------------
(***************************************************************************)
(* The Sessions page of the console (SessionsPage.tsx) at work with the    *)
(* session routes (routes/sessions.ts, state/api.ts).  The page keeps a    *)
(* copy of one run and of its action log, which only the answers to its    *)
(* own requests renew; the run itself also changes by the failure policy   *)
(* and by other clients.  Answers may be lost, and the operator may leave  *)
(* the page, which forgets everything.                                     *)
(*                                                                         *)
(* A handler of the server is one step here; what happens inside it is the *)
(* subject of SessionLifecycle.                                            *)
(***************************************************************************)
EXTENDS Naturals, Sequences, FiniteSets

CONSTANTS
  RunMember,    \* the devices the operator chose, ...
  FirstLeader,  \* ... and the one chosen first
  MaxRuns,      \* bound: runs created
  MaxEpoch,     \* bound: epochs of a run
  MaxLog,       \* bound: entries of a run's action log
  MaxLostCalls, \* bound: answers that are lost
  MaxVisits     \* bound: times the page is opened

ASSUME SessionConsoleAssumption ==
  /\ FirstLeader \in RunMember
  /\ MaxRuns \in Nat /\ MaxLog \in Nat /\ MaxLostCalls \in Nat
  /\ MaxEpoch \in Nat \ {0} /\ MaxVisits \in Nat \ {0}

VARIABLES
  runs,     \* the runs of the database
  page,     \* what the page shows: the copy of a run and of its log
  call,     \* the handler of each button, with the request it awaits
  adrift,   \* requests of a page that was left, not yet handled
  lost,     \* answers lost so far
  visits    \* times the page was opened

consoleVars == <<runs, page, call, adrift, lost, visits>>

NoSession == [run |-> 0, state |-> "none", epoch |-> 0, leader |-> "none",
              members |-> {}, out |-> {}]
NoCall == [at |-> "idle", shown |-> 0, epoch |-> 0, target |-> "none",
           answer |-> "none", view |-> NoSession, log |-> 0]

\* The buttons whose handler sends something.  create goes on to preflight
\* and start; all but actions and devices read the action log last.
Handler == {"create", "refresh", "pause", "resume", "retry", "skip", "promote", "rejoin",
            "actions", "devices"}

FreshPage == [session |-> NoSession, log |-> 0]

\* The page reads the devices when it is opened.
FreshCalls == [h \in Handler |-> IF h = "devices" THEN [NoCall EXCEPT !.at = "devices"]
                                 ELSE NoCall]

ConsoleInit ==
  /\ runs = <<>>
  /\ page = FreshPage
  /\ call = FreshCalls
  /\ adrift = {}
  /\ lost = 0
  /\ visits = 1
-----------------------------------------------------------------------------
(* The server.                                                             *)

NewRun == [state |-> "CREATED", epoch |-> 1, leader |-> FirstLeader,
           members |-> RunMember, out |-> {}, log |-> 0]

\* What the service makes of run r, q being its rows.
ViewOf(r, q) ==
  [run |-> r, state |-> q.state, epoch |-> q.epoch, leader |-> q.leader,
   members |-> q.members, out |-> q.out]

\* A new epoch with the members that take part in it.
NextEpoch(q, members, leader) ==
  [q EXCEPT !.state = "RUNNING", !.epoch = @ + 1, !.members = members, !.out = {},
            !.leader = leader]

\* The conditions RuntimeSessionRouteService puts on a request, m being the
\* device a promotion or a rejoin names.
Accepts(q, request, m) ==
  CASE request = "preflight" -> q.state = "CREATED"
    [] request = "start" -> q.state = "PREFLIGHT"
    [] request = "pause" -> q.state = "RUNNING"
    [] request = "resume" -> q.state = "PAUSED" /\ q.epoch < MaxEpoch
    [] request = "promote" -> /\ q.state = "PAUSED" /\ q.epoch < MaxEpoch
                              /\ m \in q.members \ (q.out \cup {q.leader})
    [] request = "rejoin" -> q.state = "PAUSED" /\ q.epoch < MaxEpoch /\ m \in q.out
    [] request = "retry" -> q.state = "RUNNING" /\ q.log < MaxLog
    [] request = "skip" -> q.state \in {"RUNNING", "PAUSED"} /\ q.log < MaxLog
    [] OTHER -> TRUE

After(q, request, m) ==
  CASE request = "preflight" -> [q EXCEPT !.state = "PREFLIGHT"]
    [] request = "start" -> [q EXCEPT !.state = "RUNNING"]
    [] request = "pause" -> [q EXCEPT !.state = "PAUSED"]
    [] request = "resume" -> NextEpoch(q, q.members \ q.out, q.leader)
    [] request = "promote" -> NextEpoch(q, q.members \ q.out, m)
    [] request = "rejoin" -> NextEpoch(q, (q.members \ q.out) \cup {m}, q.leader)
    [] request \in {"retry", "skip"} -> [q EXCEPT !.log = @ + 1]
    [] OTHER -> q

\* The runs after a request is handled, of which a device list changes none.
Accepted(request, r, m) ==
  CASE request = "create" -> Len(runs) < MaxRuns
    [] request = "devices" -> TRUE
    [] OTHER -> Accepts(runs[r], request, m)

RunsAfter(request, r, m) ==
  CASE request = "create" -> Append(runs, NewRun)
    [] request = "devices" -> runs
    [] OTHER -> [runs EXCEPT ![r] = After(@, request, m)]

Awaiting(h) == call[h].at # "idle" /\ call[h].answer = "none"

\* A request is handled: it takes effect, and the answer leaves with the run
\* and the log as they are now.
Handle(h) ==
  LET c == call[h]
      r == IF c.at = "create" THEN Len(runs) + 1 ELSE c.shown
      after == RunsAfter(c.at, c.shown, c.target)
  IN /\ Awaiting(h)
     /\ Accepted(c.at, c.shown, c.target)
     /\ runs' = after
     /\ call' = [call EXCEPT ![h] =
                   IF c.at = "devices" THEN [c EXCEPT !.answer = "ok"]
                   ELSE [c EXCEPT !.answer = "ok", !.shown = r,
                                  !.view = ViewOf(r, after[r]), !.log = after[r].log]]
     /\ UNCHANGED <<page, adrift, lost, visits>>

\* The effect is there, but the page sees a failed fetch.
HandleAndLose(h) ==
  LET c == call[h] IN
  /\ Awaiting(h) /\ lost < MaxLostCalls
  /\ Accepted(c.at, c.shown, c.target)
  /\ runs' = RunsAfter(c.at, c.shown, c.target)
  /\ lost' = lost + 1
  /\ call' = [call EXCEPT ![h].answer = "failed"]
  /\ UNCHANGED <<page, adrift, visits>>

\* A request is refused: for the state of the run, or for what else the
\* handler meets, such as a device that is offline or a worker that fails.
Refuse(h) ==
  /\ Awaiting(h)
  /\ call' = [call EXCEPT ![h].answer = "failed"]
  /\ UNCHANGED <<runs, page, adrift, lost, visits>>

\* A handler of a page that was left goes on to its last request.
HandleAdrift(a) ==
  LET r == IF a.request = "create" THEN Len(runs) + 1 ELSE a.run
      next == CASE a.request = "create" -> {"preflight"}
                [] a.request = "preflight" -> {"start"}
                [] OTHER -> {}
  IN /\ Accepted(a.request, a.run, a.target)
     /\ runs' = RunsAfter(a.request, a.run, a.target)
     /\ adrift' = (adrift \ {a}) \cup
                    [request : next, run : {r}, target : {a.target}]
     /\ UNCHANGED <<page, call, lost, visits>>

AdriftFails(a) ==
  /\ adrift' = adrift \ {a}
  /\ UNCHANGED <<runs, page, call, lost, visits>>

\* The failure policy pauses a run or quarantines a follower, another client
\* submits an action or completes the run.
ServerChanges(r) ==
  /\ \/ runs[r].state = "RUNNING" /\ runs' = [runs EXCEPT ![r].state = "PAUSED"]
     \/ /\ runs[r].state = "RUNNING" /\ runs[r].log < MaxLog
        /\ runs' = [runs EXCEPT ![r].log = @ + 1]
     \/ /\ runs[r].state \in {"RUNNING", "PAUSED"}
        /\ \E m \in runs[r].members \ (runs[r].out \cup {runs[r].leader}) :
             runs' = [runs EXCEPT ![r].out = @ \cup {m}]
     \/ /\ runs[r].state \in {"RUNNING", "PAUSED"}
        /\ runs' = [runs EXCEPT ![r].state = "FINISHED"]
  /\ UNCHANGED <<page, call, adrift, lost, visits>>
-----------------------------------------------------------------------------
(* The page.                                                               *)

\* Mutant: a refresh does not make the page busy.
CountedButRefresh == Handler \ {"refresh"}

\* The handlers whose flag makes the page busy.
Counted == Handler
isBusy == \E h \in Counted : call[h].at # "idle"

\* The buttons of the header and of the panels: the handler returns at once
\* if the copy of the run is not in the state the button is for.
RunOffered(h) ==
  CASE h = "create" -> page.session.run = 0
    [] h = "refresh" -> page.session.run # 0
    [] h = "pause" -> page.session.state = "RUNNING"
    [] h = "resume" -> page.session.state = "PAUSED"
    [] OTHER -> h = "devices"

\* The buttons of a member, by its row in the copy.
MemberOffered(h, m) ==
  LET s == page.session IN
  /\ s.state = "PAUSED"
  /\ \/ h = "promote" /\ m \in s.members \ (s.out \cup {s.leader})
     \/ h = "rejoin" /\ m \in s.out

\* The buttons of the action log and of its entries.
ActionOffered(h) ==
  \/ h = "actions" /\ page.session.run # 0
  \/ h = "retry" /\ page.session.state = "RUNNING" /\ page.log > 0
  \/ h = "skip" /\ page.session.state \in {"RUNNING", "PAUSED"} /\ page.log > 0

\* Whether the operator may click, and on what.
Offered(h, m) ==
  IF h \in {"promote", "rejoin"} THEN MemberOffered(h, m)
  ELSE m = "none" /\ (RunOffered(h) \/ ActionOffered(h))

Click(h, m) ==
  /\ ~isBusy
  /\ Offered(h, m)
  /\ call' = [call EXCEPT ![h] = [at |-> h, shown |-> page.session.run,
                                  epoch |-> page.session.epoch, target |-> m,
                                  answer |-> "none", view |-> NoSession, log |-> 0]]
  /\ UNCHANGED <<runs, page, adrift, lost, visits>>

\* What the handler sends after the answer to a request.
NextRequest(at) ==
  CASE at = "create" -> "preflight"
    [] at = "preflight" -> "start"
    [] at \in {"actions", "devices"} -> "idle"
    [] OTHER -> "actions"

\* An answer arrives: the page takes over the run or the log it brings, and
\* the handler sends its next request or returns.
Receive(h) ==
  LET c == call[h]
      next == NextRequest(c.at)
  IN /\ c.answer = "ok"
     /\ page' = CASE c.at \in {"devices", "retry", "skip"} -> page
                  [] c.at = "actions" -> [page EXCEPT !.log = c.log]
                  [] OTHER -> [page EXCEPT !.session = c.view]
     /\ call' = [call EXCEPT ![h] =
                   IF next = "idle" THEN NoCall
                   ELSE [c EXCEPT !.at = next, !.answer = "none",
                                  !.view = NoSession, !.log = 0]]
     /\ UNCHANGED <<runs, adrift, lost, visits>>

\* A request failed: the handler shows the error and returns.
ReceiveError(h) ==
  /\ call[h].answer = "failed"
  /\ call' = [call EXCEPT ![h] = NoCall]
  /\ UNCHANGED <<runs, page, adrift, lost, visits>>

\* What the handler h will ask next, if that has an effect.
Underway(h) ==
  LET c == call[h]
      request == IF c.answer = "none" THEN c.at ELSE NextRequest(c.at)
  IN IF c.answer = "failed" \/ request \in {"idle", "devices", "actions", "refresh"}
     THEN {} ELSE {[request |-> request, run |-> c.shown, target |-> c.target]}

\* The operator opens another page and comes back: what the page knew is
\* gone, its handlers run on unseen.
LeavePage ==
  /\ visits < MaxVisits
  /\ visits' = visits + 1
  /\ page' = FreshPage
  /\ call' = FreshCalls
  /\ adrift' = adrift \cup UNION {Underway(h) : h \in Handler}
  /\ UNCHANGED <<runs, lost>>
-----------------------------------------------------------------------------
ConsoleNext ==
  \/ \E h \in Handler :
       \/ Handle(h) \/ HandleAndLose(h) \/ Refuse(h)
       \/ Receive(h) \/ ReceiveError(h)
       \/ \E m \in RunMember \cup {"none"} : Click(h, m)
  \/ \E a \in adrift : HandleAdrift(a) \/ AdriftFails(a)
  \/ \E r \in DOMAIN runs : ServerChanges(r)
  \/ LeavePage

ConsoleSpec == ConsoleInit /\ [][ConsoleNext]_consoleVars
-----------------------------------------------------------------------------
ConsoleTypeOK ==
  /\ \A r \in DOMAIN runs :
       /\ runs[r].state \in {"CREATED", "PREFLIGHT", "RUNNING", "PAUSED", "FINISHED"}
       /\ runs[r].leader \in runs[r].members
       /\ runs[r].out \subseteq runs[r].members
       /\ runs[r].epoch \in 1 .. MaxEpoch
  /\ page.session.run \in 0 .. Len(runs)
  /\ page.log \in 0 .. MaxLog
  /\ \A h \in Handler : call[h].answer \in {"none", "ok", "failed"}
  /\ visits \in 1 .. MaxVisits

StateRank(state) ==
  CASE state = "CREATED" -> 1 [] state = "PREFLIGHT" -> 2 [] state = "RUNNING" -> 3
    [] state = "PAUSED" -> 4 [] OTHER -> 5

\* Whether copy w of a run is not older than copy v of it.
NotOlder(v, w) ==
  \/ w.epoch > v.epoch
  \/ /\ w.epoch = v.epoch
     /\ StateRank(w.state) >= StateRank(v.state)
     /\ v.out \subseteq w.out

\* While it shows a run, the page never replaces its copy of the run, nor of
\* its action log, by an older one, in whatever order answers arrive
\* (SessionsPage.tsx, isBusy: one handler at a time).
ViewNeverGoesBack ==
  [][page.session.run # 0 /\ page'.session.run = page.session.run
       => /\ NotOlder(page.session, page'.session)
          /\ page'.log >= page.log]_consoleVars

\* "All require current run version/epoch [...]; stale browser requests
\* return 409 with the latest snapshot" (m7 plan, line 136): a promotion or a
\* rejoin that takes effect was asked of the epoch it changes.
\* The code breaks it: README, Disagreements without a run.
StaleRequestsAreRefused ==
  [][\A h \in Handler :
       /\ call[h].at \in {"promote", "rejoin"} /\ call[h].answer = "none"
       /\ call'[h].answer = "ok"
       => call[h].epoch = runs[call[h].shown].epoch]_consoleVars

\* The console shows every run that is under way or waits for its operator,
\* once the page is at rest.
\* The code breaks it: README, Disagreements without a run.
RunningRunIsReachable ==
  ~isBusy /\ adrift = {} =>
    \A r \in DOMAIN runs : runs[r].state \in {"RUNNING", "PAUSED"} => page.session.run = r
=============================================================================
