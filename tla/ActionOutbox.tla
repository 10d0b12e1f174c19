---------------------------- MODULE ActionOutbox ----------------------------
(***************************************************************************)
(* The group-action pipeline of one synchronized run: the actions,         *)
(* action_outbox, action_targets, device_action_results and                *)
(* action_skip_decisions tables (run-repository.ts, action-outbox.ts) and  *)
(* the dispatcher that carries an action to every selected device          *)
(* (action-dispatcher.ts), over a run that is paused, resumed, completed   *)
(* and loses followers underneath it (RunControl).                         *)
(*                                                                         *)
(* The server is one event loop.  A handler keeps the processor from one   *)
(* await to the next; cpu says which synchronous section still has         *)
(* transactions to commit, and nothing but a crash comes between them.     *)
(* Everything a handler holds in memory is in step, which a crash erases;  *)
(* the tables survive.  A row of actions is named by its action_seq.       *)
(***************************************************************************)
EXTENDS RunControl

CONSTANTS
  Request,      \* client request ids of submitted and retried actions
  SkipRequest,  \* client request ids of skip decisions
  Command,      \* action commands an operator submits
  EnvelopeOf,   \* Command -> what the actions row keeps besides command_json
  Verified,     \* commands that pass the text focus barrier first
  Armed,        \* commands that arm the Unity bridge on each device
  Reconciles,   \* whether startup calls reconcileAfterRestart
  MaxActions    \* bound: actions accepted in one run

ASSUME ActionOutboxAssumption ==
  /\ MaxActions \in Nat
  /\ Reconciles \in BOOLEAN
  /\ Verified \subseteq Armed
  /\ Armed \subseteq Command
  /\ "none" \notin SkipRequest

Act == 1..MaxActions

VARIABLES
  lastSeq,      \* highest action_seq of the run
  actionState,  \* actions.state
  outbox,       \* action_outbox.state
  target,       \* action_targets.state
  result,       \* device_action_results.state
  request,      \* actions.client_request_id
  command,      \* actions.command_json
  parent,       \* actions.parent_action_id, 0 for none
  skip,         \* request id of the action's skip decision, "none" for none
  cpu,          \* synchronous section being executed, or "idle" or "down"
  step,         \* where the dispatch of an action to a device is awaiting
  sent,         \* gestures posted to the device's Appium session
  performed     \* gestures the device has carried out

tables  == <<lastSeq, actionState, outbox, target, result, request, command, parent, skip>>
devices == <<sent, performed>>
vars    == <<runVars, tables, devices, cpu, step>>

InFlight == {"QUEUED", "LEASED", "DISPATCHING"}
Final    == {"SUCCEEDED", "FAILED", "CANCELLED", "UNKNOWN"}
Answer   == {"SUCCEEDED", "FAILED"}
Step     == {"none", "verify", "reject", "arm", "execute", "posted", "ack", "cancel"}
Cpu      == {"idle", "lease", "mark", "reject", "pause", "complete", "down"}

Opened == 1..lastSeq
Blank(value) == [a \in Act |-> [s \in Serial |-> value]]

TypeOK ==
  /\ RunTypeOK
  /\ lastSeq \in 0..MaxActions
  /\ actionState \in [Act -> InFlight \cup Final \cup {"NONE"}]
  /\ outbox \in [Act -> InFlight \cup {"NONE", "ACKED", "CANCELLED"}]
  /\ target \in [Act -> [Serial -> {"NONE", "QUEUED", "DISPATCHING"} \cup Final]]
  /\ result \in [Act -> [Serial -> {"NONE", "PENDING"} \cup Final]]
  /\ request \in [Act -> Request \cup {"none"}]
  /\ command \in [Act -> Command \cup {"none"}]
  /\ parent \in [Act -> 0..MaxActions]
  /\ skip \in [Act -> SkipRequest \cup {"none"}]
  /\ cpu \in Cpu
  /\ step \in [Act -> [Serial -> Step]]
  /\ sent \in [Act -> [Serial -> Nat]]
  /\ performed \in [Act -> [Serial -> Nat]]

Init ==
  /\ RunInit
  /\ lastSeq = 0
  /\ actionState = [a \in Act |-> "NONE"]
  /\ outbox = [a \in Act |-> "NONE"]
  /\ target = Blank("NONE")
  /\ result = Blank("NONE")
  /\ request = [a \in Act |-> "none"]
  /\ command = [a \in Act |-> "none"]
  /\ parent = [a \in Act |-> 0]
  /\ skip = [a \in Act |-> "none"]
  /\ cpu = "idle"
  /\ step = Blank("none")
  /\ sent = Blank(0)
  /\ performed = Blank(0)
-----------------------------------------------------------------------------
(* UPDATE ... SET state = to WHERE state IN (from), for one row, and for   *)
(* the per-device rows of one action.                                      *)
Moved(state, from, to) == IF state \in from THEN to ELSE state

\* Mutant: overwrites the rows that already have an answer.
OverwrittenRow(row, from, to) ==
  [s \in Serial |-> IF row[s] = "NONE" \/ from = {} THEN row[s] ELSE to]

MovedRow(row, from, to) == [s \in Serial |-> Moved(row[s], from, to)]

(* What create answers when the request id was used before: the action it  *)
(* takes the request for, or nothing (an error).                           *)
DedupAnswer(q, c, p) ==
  {a \in Opened : request[a] = q /\ EnvelopeOf[command[a]] = EnvelopeOf[c] /\ parent[a] = p}

\* Mutant: forgets the actions that have left the queue.
NothingQueued == \A a \in Act : actionState[a] # "QUEUED"

NothingInFlight == \A a \in Act : actionState[a] \notin InFlight

(* create accepts a new request: one row in every table, a target for each *)
(* active member of the current epoch.  The caller goes on to dispatch it. *)
Create(q, c, p) ==
  LET a == lastSeq + 1
      members(value) == [s \in Serial |-> IF s \in Active THEN value ELSE "NONE"]
  IN  /\ cpu = "idle"
      /\ a \in Act
      /\ \A b \in Opened : request[b] # q
      /\ runState = "RUNNING"
      /\ NothingInFlight
      /\ Active # {}
      /\ lastSeq' = a
      /\ actionState' = [actionState EXCEPT ![a] = "QUEUED"]
      /\ outbox' = [outbox EXCEPT ![a] = "QUEUED"]
      /\ target' = [target EXCEPT ![a] = members("QUEUED")]
      /\ result' = [result EXCEPT ![a] = members("PENDING")]
      /\ request' = [request EXCEPT ![a] = q]
      /\ command' = [command EXCEPT ![a] = c]
      /\ parent' = [parent EXCEPT ![a] = p]
      /\ cpu' = "lease"
      /\ UNCHANGED <<runVars, devices, skip, step>>

Submit(q, c) == Create(q, c, 0)

\* Mutant: takes any closed action for one that may be decided about.
Closed(a) == a \in Opened /\ actionState[a] \in Final

\* The operator may retry or skip the action.
Undecided(a) ==
  /\ a \in Opened
  /\ skip[a] = "none"
  /\ actionState[a] \in {"FAILED", "UNKNOWN"}

Retry(a, q) ==
  /\ Undecided(a)
  /\ Create(q, command[a], a)

Skip(a, k) ==
  /\ cpu = "idle"
  /\ Undecided(a)
  /\ runState \in {"RUNNING", "PAUSED"}
  /\ \A b \in Opened : skip[b] # k
  /\ skip' = [skip EXCEPT ![a] = k]
  /\ UNCHANGED <<runVars, devices, lastSeq, actionState, outbox, target, result,
                 request, command, parent, cpu, step>>
-----------------------------------------------------------------------------
(* Dispatch.  The first two transactions follow create without an await.   *)
Lease ==
  LET a == lastSeq
  IN  /\ cpu = "lease"
      /\ outbox[a] = "QUEUED"
      /\ outbox' = [outbox EXCEPT ![a] = "LEASED"]
      /\ actionState' = [actionState EXCEPT ![a] = Moved(@, {"QUEUED"}, "LEASED")]
      /\ cpu' = "mark"
      /\ UNCHANGED <<runVars, devices, lastSeq, target, result, request, command,
                     parent, skip, step>>

FirstStep(c) ==
  IF c \in Verified THEN "verify" ELSE IF c \in Armed THEN "arm" ELSE "execute"

MarkDispatching ==
  LET a == lastSeq
  IN  /\ cpu = "mark"
      /\ outbox[a] = "LEASED"
      /\ outbox' = [outbox EXCEPT ![a] = "DISPATCHING"]
      /\ actionState' = [actionState EXCEPT ![a] = Moved(@, {"LEASED"}, "DISPATCHING")]
      /\ target' = [target EXCEPT ![a] = MovedRow(@, {"QUEUED"}, "DISPATCHING")]
      /\ step' = [step EXCEPT ![a] =
                    [s \in Serial |-> IF target[a][s] = "NONE" THEN "none"
                                      ELSE FirstStep(command[a])]]
      /\ cpu' = "idle"
      /\ UNCHANGED <<runVars, devices, lastSeq, result, request, command, parent, skip>>

(* completeTarget, for the holder of the lease: it throws, and changes     *)
(* nothing, unless the target is still its own to answer.                  *)
Owns(a, s) ==
  /\ outbox[a] = "DISPATCHING"
  /\ target[a][s] = "DISPATCHING"
  /\ result[a][s] = "PENDING"

\* Mutant: the verdict is failed only when every device failed.
VerdictOfAll(results) ==
  IF \A s \in Serial : results[s] \in {"NONE", "FAILED"} THEN "FAILED" ELSE "SUCCEEDED"

\* Mutant: writes the outbox state into the actions row.
VerdictAcked(results) == IF results = [s \in Serial |-> "NONE"] THEN "NONE" ELSE "ACKED"

VerdictOf(results) ==
  IF \E s \in Serial : results[s] = "FAILED" THEN "FAILED" ELSE "SUCCEEDED"

\* Mutant: a group with a failed device is never complete.
AllSucceeded(results) == \A s \in Serial : results[s] \in {"NONE", "SUCCEEDED"}

AllAnswered(results) == \A s \in Serial : results[s] # "PENDING"

CompleteTarget(a, s, answer) ==
  LET results == [result[a] EXCEPT ![s] = answer]
      last == AllAnswered(results)
  IN  IF ~ Owns(a, s)
      THEN UNCHANGED tables
      ELSE /\ target' = [target EXCEPT ![a][s] = answer]
           /\ result' = [result EXCEPT ![a] = results]
           /\ actionState' = IF last
                             THEN [actionState EXCEPT ![a] =
                                     Moved(@, {"DISPATCHING"}, VerdictOf(results))]
                             ELSE actionState
           /\ outbox' = IF last THEN [outbox EXCEPT ![a] = "ACKED"] ELSE outbox
           /\ UNCHANGED <<lastSeq, request, command, parent, skip>>

(* A device's part of the dispatch continues after the await at point.     *)
At(a, s, point) == cpu = "idle" /\ step[a][s] = point

Goto(a, s, point) == step' = [step EXCEPT ![a][s] = point]

(* The text focus barrier judges the whole group before any device acts.   *)
VerifyPasses(a) ==
  /\ cpu = "idle"
  /\ \E s \in Serial : step[a][s] = "verify"
  /\ step' = [step EXCEPT ![a] = MovedRow(@, {"verify"}, "arm")]
  /\ UNCHANGED <<runVars, tables, devices, cpu>>

VerifyFails(a) ==
  /\ cpu = "idle"
  /\ \E s \in Serial : step[a][s] = "verify"
  /\ step' = [step EXCEPT ![a] = MovedRow(@, {"verify"}, "reject")]
  /\ cpu' = "reject"
  /\ UNCHANGED <<runVars, tables, devices>>

Reject(a, s) ==
  /\ cpu = "reject"
  /\ step[a][s] = "reject"
  /\ CompleteTarget(a, s, "FAILED")
  /\ Goto(a, s, "none")
  /\ cpu' = IF \E t \in Serial \ {s} : step[a][t] = "reject" THEN "reject" ELSE "idle"
  /\ UNCHANGED <<runVars, devices>>
-----------------------------------------------------------------------------
ArmGranted(a, s) ==
  /\ At(a, s, "arm")
  /\ Goto(a, s, "execute")
  /\ UNCHANGED <<runVars, tables, devices, cpu>>

\* Before the gesture the worker brings the application to the foreground.
Post(a, s) ==
  /\ At(a, s, "execute")
  /\ sent' = [sent EXCEPT ![a][s] = @ + 1]
  /\ Goto(a, s, "posted")
  /\ UNCHANGED <<runVars, tables, performed, cpu>>

\* The device carries a posted gesture out when it gets to it, whatever has
\* become of the server in the meantime.
Perform(a, s) ==
  /\ performed[a][s] < sent[a][s]
  /\ performed' = [performed EXCEPT ![a][s] = @ + 1]
  /\ UNCHANGED <<runVars, tables, sent, cpu, step>>

Respond(a, s) ==
  /\ At(a, s, "posted")
  /\ performed[a][s] = sent[a][s]
  /\ IF command[a] \in Armed
     THEN Goto(a, s, "ack") /\ UNCHANGED tables
     ELSE Goto(a, s, "none") /\ CompleteTarget(a, s, "SUCCEEDED")
  /\ UNCHANGED <<runVars, devices, cpu>>

AckReceived(a, s) ==
  /\ At(a, s, "ack")
  /\ CompleteTarget(a, s, "SUCCEEDED")
  /\ Goto(a, s, "none")
  /\ UNCHANGED <<runVars, devices, cpu>>

\* Mutant: a gesture without an answer in time is posted again.
RepeatOnFailure(a, s) ==
  IF step[a][s] = "posted" THEN "execute"
  ELSE IF step[a][s] = "ack" THEN "cancel" ELSE "none"

\* An armed device is disarmed before the failure is recorded.
OnFailure(a, s) ==
  IF step[a][s] # "arm" /\ command[a] \in Armed THEN "cancel" ELSE "none"

\* No arm lease, no worker, a lost session, an error answer or a timeout.
Fail(a, s) ==
  /\ cpu = "idle"
  /\ step[a][s] \in {"arm", "execute", "posted", "ack"}
  /\ Goto(a, s, OnFailure(a, s))
  /\ IF OnFailure(a, s) = "none" THEN CompleteTarget(a, s, "FAILED") ELSE UNCHANGED tables
  /\ UNCHANGED <<runVars, devices, cpu>>

BarrierCancelled(a, s) ==
  /\ At(a, s, "cancel")
  /\ CompleteTarget(a, s, "FAILED")
  /\ Goto(a, s, "none")
  /\ UNCHANGED <<runVars, devices, cpu>>
-----------------------------------------------------------------------------
(* pause and complete, once they have stopped the workers and the video:   *)
(* what is queued is withdrawn, then the run changes state if it still is  *)
(* in the state the handler read before its awaits.  (A handler so late    *)
(* that the run has finished finds nothing to withdraw and nothing to do.) *)
\* Mutant: withdraws what is being dispatched as well.
WithdrawnAll == {a \in Act : outbox[a] \in InFlight}

\* Mutant: withdraws every action of the run, whatever its state.
WithdrawnAny == {a \in Act : outbox[a] # "NONE"}

Withdrawn == {a \in Act : outbox[a] \in {"QUEUED", "LEASED"}}

CancelQueuedForRun(handler) ==
  /\ cpu = "idle"
  /\ runState \in {"RUNNING", "PAUSED"}
  /\ outbox' = [a \in Act |-> IF a \in Withdrawn THEN "CANCELLED" ELSE outbox[a]]
  /\ actionState' = [a \in Act |->
       IF a \in Withdrawn THEN Moved(actionState[a], {"QUEUED", "LEASED"}, "CANCELLED")
                          ELSE actionState[a]]
  /\ target' = [a \in Act |->
       IF a \in Withdrawn THEN MovedRow(target[a], {"QUEUED", "DISPATCHING"}, "CANCELLED")
                          ELSE target[a]]
  /\ result' = [a \in Act |->
       IF a \in Withdrawn THEN MovedRow(result[a], {"PENDING"}, "CANCELLED") ELSE result[a]]
  /\ cpu' = handler
  /\ UNCHANGED <<runVars, devices, lastSeq, request, command, parent, skip, step>>

CommitPause ==
  /\ cpu = "pause"
  /\ Pause \/ (runState # "RUNNING" /\ UNCHANGED runVars)
  /\ cpu' = "idle"
  /\ UNCHANGED <<tables, devices, step>>

\* complete compares with the state it read, RUNNING or PAUSED: it may lose.
CommitComplete ==
  /\ cpu = "complete"
  /\ Finish \/ UNCHANGED runVars
  /\ cpu' = "idle"
  /\ UNCHANGED <<tables, devices, step>>

\* The handlers that do not touch the actions.
RunMoves ==
  /\ cpu = "idle"
  /\ \/ Preflight
     \/ Start
     \/ Resume
     \/ \E s \in Serial : Rejoin(s) \/ Promote(s) \/ Quarantine(s)
  /\ UNCHANGED <<tables, devices, cpu, step>>
-----------------------------------------------------------------------------
Crash ==
  /\ cpu # "down"
  /\ cpu' = "down"
  /\ step' = Blank("none")
  /\ UNCHANGED <<runVars, tables, devices>>

\* Mutant: reconciles only what was never leased.
UnfinishedQueued == {a \in Act : outbox[a] = "QUEUED"}

Unfinished == {a \in Act : outbox[a] \in InFlight}

\* Mutant: a leased action counts as never sent.
ReconciledAsWithdrawn(a) == IF outbox[a] \in InFlight THEN "CANCELLED" ELSE "UNKNOWN"

ReconciledTo(a) == IF outbox[a] = "QUEUED" THEN "CANCELLED" ELSE "UNKNOWN"

ReconcileAfterRestart ==
  /\ outbox' = [a \in Act |-> IF a \in Unfinished THEN "CANCELLED" ELSE outbox[a]]
  /\ actionState' = [a \in Act |->
       IF a \in Unfinished THEN ReconciledTo(a) ELSE actionState[a]]
  /\ target' = [a \in Act |->
       IF a \in Unfinished
       THEN MovedRow(target[a], {"QUEUED", "DISPATCHING"}, ReconciledTo(a))
       ELSE target[a]]
  /\ result' = [a \in Act |->
       IF a \in Unfinished THEN MovedRow(result[a], {"PENDING"}, ReconciledTo(a))
                           ELSE result[a]]
  /\ UNCHANGED <<lastSeq, request, command, parent, skip>>

Restart ==
  /\ cpu = "down"
  /\ cpu' = "idle"
  /\ IF Reconciles THEN ReconcileAfterRestart ELSE UNCHANGED tables
  /\ UNCHANGED <<runVars, devices, step>>
-----------------------------------------------------------------------------
Operator ==
  \/ \E q \in Request, c \in Command : Submit(q, c)
  \/ \E a \in Act, q \in Request : Retry(a, q)
  \/ \E a \in Act, k \in SkipRequest : Skip(a, k)
  \/ \E handler \in {"pause", "complete"} : CancelQueuedForRun(handler)

\* The rest of a synchronous section that has begun.
Section ==
  \/ Lease
  \/ MarkDispatching
  \/ \E a \in Act, s \in Serial : Reject(a, s)
  \/ CommitPause
  \/ CommitComplete

\* The text barrier answers, for the whole group.
Verify(a) == VerifyPasses(a) \/ VerifyFails(a)

\* An await of the dispatch to one device is over.
Continue(a, s) ==
  \/ ArmGranted(a, s)
  \/ Post(a, s)
  \/ Respond(a, s)
  \/ AckReceived(a, s)
  \/ Fail(a, s)
  \/ BarrierCancelled(a, s)

Next ==
  \/ Operator
  \/ Section
  \/ RunMoves
  \/ \E a \in Act : Verify(a)
  \/ \E a \in Act, s \in Serial : Continue(a, s) \/ Perform(a, s)
  \/ Crash
  \/ Restart

Spec == Init /\ [][Next]_vars

(* The event loop finishes the section it is in, a server that went down   *)
(* is launched again, and every await of a dispatch ends: HTTP requests,   *)
(* the foreground poll, the arm lease and the focus samples all have a     *)
(* deadline.  Other handlers may run first, hence SF.                      *)
Fairness ==
  /\ WF_vars(Section)
  /\ WF_vars(Restart)
  /\ \A a \in Act : SF_vars(Verify(a))
  /\ \A a \in Act, s \in Serial : SF_vars(Continue(a, s))

FairSpec == Spec /\ Fairness
-----------------------------------------------------------------------------
(* create and dispatch never let two group actions of a run be on their    *)
(* way at once, across crashes and across pauses and resumes.              *)
OneGroupActionInFlight ==
  \A a, b \in Act : actionState[a] \in InFlight /\ actionState[b] \in InFlight => a = b

(* A device is sent the gesture of an action at most once, whatever fails, *)
(* times out or restarts: only an operator's retry, a new action, repeats. *)
NoReplay ==
  \A a \in Act, s \in Serial : performed[a][s] <= sent[a][s] /\ sent[a][s] <= 1

(* The gestures of a run are single: one group action is on its way at a   *)
(* time, and it reaches each of its devices at most once.                  *)
GesturesAreSingle == OneGroupActionInFlight /\ NoReplay

(* CANCELLED is a promise that nothing happened on any device: pause,      *)
(* complete and the startup reconciliation withdraw no posted gesture.     *)
CancelledNeverSent ==
  \A a \in Act, s \in Serial :
    actionState[a] = "CANCELLED" \/ result[a][s] = "CANCELLED" => sent[a][s] = 0

(* An action that closed SUCCEEDED was carried out by every device it was  *)
(* targeted at, and no device result is left open behind it.               *)
SucceededWasPerformed ==
  \A a \in Act, s \in Serial :
    actionState[a] = "SUCCEEDED" /\ target[a][s] # "NONE" =>
      performed[a][s] = 1 /\ result[a][s] = "SUCCEEDED"

(* What the operator is told is what happened: no gesture was posted for   *)
(* an action reported CANCELLED, and one reported SUCCEEDED was performed  *)
(* by everybody, whatever was withdrawn, lost or restarted meanwhile.      *)
AnswersAreTrue == CancelledNeverSent /\ SucceededWasPerformed

(* The four tables that record one action tell one story: the outbox state *)
(* is the action's, the two per-device tables have the same rows, an       *)
(* action is open exactly while a device has yet to answer, and it closes  *)
(* with a verdict its answers justify.                                     *)
OutboxOf(state) ==
  CASE state \in Answer -> "ACKED"
    [] state = "UNKNOWN" -> "CANCELLED"
    [] OTHER -> state

ResultsOf(state) ==
  {"NONE"} \cup CASE state = "NONE" -> {}
                  [] state \in {"QUEUED", "LEASED"} -> {"PENDING"}
                  [] state = "DISPATCHING" -> {"PENDING"} \cup Answer
                  [] state = "FAILED" -> Answer
                  [] state = "UNKNOWN" -> {"UNKNOWN"} \cup Answer
                  [] OTHER -> {state}

TargetOf(state, answer) ==
  IF answer # "PENDING" THEN answer
  ELSE IF state = "DISPATCHING" THEN "DISPATCHING" ELSE "QUEUED"

Story(state, out, targets, results) ==
  /\ out = OutboxOf(state)
  /\ state \in InFlight <=> \E s \in Serial : results[s] = "PENDING"
  /\ \A s \in Serial :
       results[s] \in ResultsOf(state) /\ targets[s] = TargetOf(state, results[s])

BooksAgree == \A a \in Act : Story(actionState[a], outbox[a], target[a], result[a])

(* While a dispatch to a device is awaiting anything, the rows it will     *)
(* answer are still its own: completeTarget never throws, so no answer is  *)
(* lost and the dispatch never fails half way through a group.             *)
AnswersAreAccepted ==
  \A a \in Act, s \in Serial : step[a][s] # "none" => Owns(a, s)

(* A retry repeats the command of an earlier action that closed FAILED or  *)
(* UNKNOWN, the action before any other that may have run since.           *)
RetryLineage ==
  \A a \in Opened :
    parent[a] # 0 =>
      /\ parent[a] < a
      /\ actionState[parent[a]] \in {"FAILED", "UNKNOWN"}
      /\ command[a] = command[parent[a]]

(* The record of an action is coherent at every await of every handler:    *)
(* its tables agree with each other, its state with the answers, and its   *)
(* lineage with the action it retries.                                     *)
RecordIsCoherent == TypeOK /\ BooksAgree /\ RetryLineage

(* Gestures leave the server in action_seq order: none is posted once a    *)
(* later action has been accepted.                                         *)
GesturesFollowSequence ==
  [][\A a \in Act : sent'[a] # sent[a] => a = lastSeq]_vars

(* What a device answered and how an action closed is never rewritten, by  *)
(* a late answer, a withdrawal or a reconciliation.                        *)
AnswersAreFinal ==
  [][\A a \in Act :
       /\ actionState[a] \in Final => actionState'[a] = actionState[a]
       /\ \A s \in Serial : result[a][s] \in Final => result'[a][s] = result[a][s]]_vars

(* An action that has been leased is in some handler's hands: with the     *)
(* reconciliation at startup, a crash leaves nothing LEASED or DISPATCHING.*)
NoAbandonedLease ==
  cpu = "idle" =>
    \A a \in Act :
      actionState[a] \in {"LEASED", "DISPATCHING"} => \E s \in Serial : step[a][s] # "none"

(* A dispatch that a crash cut short is ended by the restart. A LEASED     *)
(* action is left out: the next pause or completion withdraws it, while    *)
(* nothing but a reconciliation touches a DISPATCHING one.                 *)
NoAbandonedDispatch ==
  cpu = "idle" =>
    \A a \in Act :
      actionState[a] = "DISPATCHING" => \E s \in Serial : step[a][s] # "none"

(* The reconciliation at startup abandons nothing, and calls withdrawn     *)
(* only what no device was sent.                                           *)
ReconciledIsTrue == NoAbandonedLease /\ CancelledNeverSent

(* Every accepted action gets a verdict, so the run can take the next one. *)
EveryActionSettles ==
  \A a \in Act : actionState[a] \in InFlight ~> actionState[a] \in Final

(* A request id is taken for an earlier action only if it carries the same *)
(* command: reuse with another payload is rejected.                        *)
(* The code breaks it: README, Disagreements without a run.                *)
ReusedIdIsRejected ==
  \A q \in Request, c \in Command, p \in {0} \cup Opened :
    \A a \in DedupAnswer(q, c, p) : command[a] = c
-----------------------------------------------------------------------------
(* The pipeline keeps the promise of the ledger.                           *)
Ledger == INSTANCE ActionLedger WITH
  opened <- lastSeq,
  verdict <- [a \in Act |-> IF actionState[a] \in InFlight THEN "OPEN" ELSE actionState[a]],
  outcome <- result,
  applied <- performed

(* Leases, barriers, crashes, withdrawals and reconciliation together are  *)
(* one ledger whose entries open in sequence and close once.               *)
KeepsTheLedger == Ledger!LedgerSpec
=============================================================================
