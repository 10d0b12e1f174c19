------------------------- MODULE ActionOutboxProofs -------------------------
(***************************************************************************)
(* What ActionOutbox guarantees for any devices, commands, requests and    *)
(* number of actions, with and without reconciliation at startup; and that *)
(* it implements ActionLedger.                                             *)
(***************************************************************************)
EXTENDS ActionOutbox, TLAPS

(* What every step of the run keeps, whoever takes it.                     *)
LEMMA RunTypes ==
  ASSUME RunTypeOK, RunNext
  PROVE  RunTypeOK'
<1>1. CASE Preflight \/ Start \/ Pause \/ Finish
  BY <1>1 DEF Preflight, Start, Pause, Finish, RunTypeOK, RunState
<1>2. ASSUME NEW members, NEW first \in Serial, OpenEpoch(members, first)
      PROVE  RunTypeOK'
  BY <1>2, RunControlAssumption DEF OpenEpoch, RunTypeOK, RunState, Membership
<1>3. CASE Resume
  BY <1>2, <1>3 DEF Resume, RunTypeOK
<1>4. ASSUME NEW s \in Serial, Rejoin(s) \/ Promote(s)
      PROVE  RunTypeOK'
  BY <1>2, <1>4 DEF Rejoin, Promote, RunTypeOK
<1>5. ASSUME NEW s \in Serial, Quarantine(s)
      PROVE  RunTypeOK'
  BY <1>5 DEF Quarantine, RunTypeOK, RunState, Membership
<1> QED
  BY <1>1, <1>3, <1>4, <1>5 DEF RunNext
-----------------------------------------------------------------------------
(* What the updates of the tables are made of.                             *)
LEMMA MovedTypes ==
  ASSUME NEW Rows, NEW row \in [Serial -> Rows], NEW from, NEW to \in Rows
  PROVE  MovedRow(row, from, to) \in [Serial -> Rows]
BY DEF MovedRow, Moved

LEMMA GotoTypes ==
  ASSUME TypeOK, NEW a \in Act, NEW s \in Serial, NEW point \in Step, Goto(a, s, point)
  PROVE  step' \in [Act -> [Serial -> Step]]
BY DEF Goto, TypeOK

LEMMA CompleteTargetTypes ==
  ASSUME TypeOK, NEW a \in Act, NEW s \in Serial, NEW answer \in Answer,
         CompleteTarget(a, s, answer)
  PROVE  /\ actionState' \in [Act -> InFlight \cup Final \cup {"NONE"}]
         /\ outbox' \in [Act -> InFlight \cup {"NONE", "ACKED", "CANCELLED"}]
         /\ target' \in [Act -> [Serial -> {"NONE", "QUEUED", "DISPATCHING"} \cup Final]]
         /\ result' \in [Act -> [Serial -> {"NONE", "PENDING"} \cup Final]]
         /\ UNCHANGED <<lastSeq, request, command, parent, skip>>
<1> DEFINE results == [result[a] EXCEPT ![s] = answer]
<1>1. VerdictOf(results) \in Answer
  BY DEF VerdictOf, Answer
<1>2. CASE ~ Owns(a, s)
  BY <1>2 DEF CompleteTarget, TypeOK, tables
<1>3. CASE Owns(a, s)
  <2>1. target' = [target EXCEPT ![a][s] = answer] /\ result' = [result EXCEPT ![a] = results]
    BY <1>3 DEF CompleteTarget
  <2>2. actionState' \in {actionState, [actionState EXCEPT ![a] =
                             Moved(actionState[a], {"DISPATCHING"}, VerdictOf(results))]}
    BY <1>3 DEF CompleteTarget
  <2>3. outbox' \in {outbox, [outbox EXCEPT ![a] = "ACKED"]}
    BY <1>3 DEF CompleteTarget
  <2>4. UNCHANGED <<lastSeq, request, command, parent, skip>>
    BY <1>3 DEF CompleteTarget
  <2>5. Moved(actionState[a], {"DISPATCHING"}, VerdictOf(results))
          \in InFlight \cup Final \cup {"NONE"}
    BY <1>1 DEF Moved, TypeOK, Answer, Final
  <2>6. actionState' \in [Act -> InFlight \cup Final \cup {"NONE"}]
    BY <2>2, <2>5 DEF TypeOK
  <2>7. outbox' \in [Act -> InFlight \cup {"NONE", "ACKED", "CANCELLED"}]
    BY <2>3 DEF TypeOK
  <2>8. target' \in [Act -> [Serial -> {"NONE", "QUEUED", "DISPATCHING"} \cup Final]]
    BY <2>1 DEF TypeOK, Answer, Final
  <2>9. result' \in [Act -> [Serial -> {"NONE", "PENDING"} \cup Final]]
    BY <2>1 DEF TypeOK, Answer, Final
  <2> QED
    BY <2>4, <2>6, <2>7, <2>8, <2>9
<1> QED
  BY <1>2, <1>3
-----------------------------------------------------------------------------
(* Type correctness is inductive by itself.                                *)
LEMMA TypeStep ==
  ASSUME TypeOK, [Next]_vars
  PROVE  TypeOK'
<1> USE ActionOutboxAssumption
<1>1. ASSUME NEW q \in Request, NEW c \in Command \cup {"none"}, NEW p \in 0..MaxActions,
             Create(q, c, p)
      PROVE  TypeOK'
  <2>1. lastSeq' \in 0..MaxActions /\ lastSeq + 1 \in Act
    BY <1>1 DEF Create, Act
  <2>2. /\ actionState' \in [Act -> InFlight \cup Final \cup {"NONE"}]
        /\ outbox' \in [Act -> InFlight \cup {"NONE", "ACKED", "CANCELLED"}]
    BY <1>1, <2>1 DEF Create, TypeOK, InFlight
  <2>3. /\ target' \in [Act -> [Serial -> {"NONE", "QUEUED", "DISPATCHING"} \cup Final]]
        /\ result' \in [Act -> [Serial -> {"NONE", "PENDING"} \cup Final]]
    BY <1>1, <2>1 DEF Create, TypeOK
  <2>4. /\ request' \in [Act -> Request \cup {"none"}]
        /\ command' \in [Act -> Command \cup {"none"}]
        /\ parent' \in [Act -> 0..MaxActions]
    BY <1>1, <2>1 DEF Create, TypeOK
  <2> QED
    BY <1>1, <2>1, <2>2, <2>3, <2>4 DEF Create, TypeOK, runVars, RunTypeOK, devices, Cpu, Active
<1>2. ASSUME NEW q \in Request, NEW c \in Command, Submit(q, c)
      PROVE  TypeOK'
  BY <1>1, <1>2 DEF Submit
<1>3. ASSUME NEW a \in Act, NEW q \in Request, Retry(a, q)
      PROVE  TypeOK'
  <2>1. Create(q, command[a], a)
    BY <1>3 DEF Retry
  <2>2. command[a] \in Command \cup {"none"} /\ a \in 0..MaxActions
    BY DEF TypeOK, Act
  <2> QED
    BY <1>1, <2>1, <2>2
<1>4. ASSUME NEW a \in Act, NEW k \in SkipRequest, Skip(a, k)
      PROVE  TypeOK'
  BY <1>4 DEF Skip, TypeOK, runVars, RunTypeOK, devices, Active
<1>5. CASE Lease
  BY <1>5 DEF Lease, TypeOK, runVars, RunTypeOK, devices, Active, InFlight, Cpu, Moved
<1>6. CASE MarkDispatching
  <2>1. /\ actionState' \in [Act -> InFlight \cup Final \cup {"NONE"}]
        /\ outbox' \in [Act -> InFlight \cup {"NONE", "ACKED", "CANCELLED"}]
    BY <1>6 DEF MarkDispatching, TypeOK, InFlight, Moved
  <2>2. target' \in [Act -> [Serial -> {"NONE", "QUEUED", "DISPATCHING"} \cup Final]]
    BY <1>6 DEF MarkDispatching, TypeOK, MovedRow, Moved
  <2>3. step' \in [Act -> [Serial -> Step]]
    BY <1>6 DEF MarkDispatching, TypeOK, FirstStep, Step
  <2> QED
    BY <1>6, <2>1, <2>2, <2>3 DEF MarkDispatching, TypeOK, runVars, RunTypeOK, devices, Active, Cpu
<1>7. ASSUME NEW a \in Act, NEW s \in Serial, Reject(a, s)
      PROVE  TypeOK'
  BY <1>7, CompleteTargetTypes
     DEF Reject, Goto, TypeOK, runVars, RunTypeOK, devices, Active, Cpu, Step, Answer
<1>8. ASSUME NEW a \in Act, VerifyPasses(a) \/ VerifyFails(a)
      PROVE  TypeOK'
  <2>1. step' \in [Act -> [Serial -> Step]]
    <3>1. \E next \in Step : step' = [step EXCEPT ![a] = MovedRow(step[a], {"verify"}, next)]
      BY <1>8 DEF VerifyPasses, VerifyFails, Step
    <3>2. step[a] \in [Serial -> Step]
      BY DEF TypeOK
    <3>3. \A next \in Step : MovedRow(step[a], {"verify"}, next) \in [Serial -> Step]
      BY <3>2, MovedTypes
    <3> QED
      BY <3>1, <3>3 DEF TypeOK
  <2> QED
    BY <1>8, <2>1 DEF VerifyPasses, VerifyFails, TypeOK, runVars, RunTypeOK, tables, devices,
                      Active, Cpu
<1>9. ASSUME NEW a \in Act, NEW s \in Serial, ArmGranted(a, s) \/ Post(a, s)
      PROVE  TypeOK'
  <2>1. step' \in [Act -> [Serial -> Step]]
    BY <1>9, GotoTypes DEF ArmGranted, Post, Step
  <2>2. sent' \in [Act -> [Serial -> Nat]]
    <3>1. CASE ArmGranted(a, s)
      BY <3>1 DEF ArmGranted, devices, TypeOK
    <3>2. CASE Post(a, s)
      BY <3>2 DEF Post, TypeOK
    <3> QED
      BY <1>9, <3>1, <3>2
  <2> QED
    BY <1>9, <2>1, <2>2 DEF ArmGranted, Post, TypeOK, runVars, RunTypeOK, tables, devices, Active
<1>10. ASSUME NEW a \in Act, NEW s \in Serial, Perform(a, s)
       PROVE  TypeOK'
  BY <1>10 DEF Perform, TypeOK, runVars, RunTypeOK, tables, Active
<1>11. ASSUME NEW a \in Act, NEW s \in Serial,
              Respond(a, s) \/ AckReceived(a, s) \/ Fail(a, s) \/ BarrierCancelled(a, s)
       PROVE  TypeOK'
  <2>1. \/ UNCHANGED tables
        \/ \E answer \in Answer : CompleteTarget(a, s, answer)
    BY <1>11 DEF Respond, AckReceived, Fail, BarrierCancelled, Answer
  <2>2. step' \in [Act -> [Serial -> Step]]
    <3>1. \E next \in {"ack", "none", "cancel"} : Goto(a, s, next)
      <4>1. OnFailure(a, s) \in {"none", "cancel"}
        BY DEF OnFailure
      <4> QED
        BY <1>11, <4>1 DEF Respond, AckReceived, Fail, BarrierCancelled
    <3> QED
      BY <3>1, GotoTypes, Zenon DEF Step
  <2>3. UNCHANGED <<runVars, devices, cpu>>
    BY <1>11 DEF Respond, AckReceived, Fail, BarrierCancelled
  <2> QED
    BY <2>1, <2>2, <2>3, CompleteTargetTypes
       DEF TypeOK, runVars, RunTypeOK, tables, devices, Active
<1>12. ASSUME NEW handler \in {"pause", "complete"}, CancelQueuedForRun(handler)
       PROVE  TypeOK'
  <2>1. /\ actionState' \in [Act -> InFlight \cup Final \cup {"NONE"}]
        /\ outbox' \in [Act -> InFlight \cup {"NONE", "ACKED", "CANCELLED"}]
    BY <1>12 DEF CancelQueuedForRun, TypeOK, Moved, Final
  <2>2. target' \in [Act -> [Serial -> {"NONE", "QUEUED", "DISPATCHING"} \cup Final]]
    BY <1>12 DEF CancelQueuedForRun, TypeOK, MovedRow, Moved, Final
  <2>3. result' \in [Act -> [Serial -> {"NONE", "PENDING"} \cup Final]]
    BY <1>12 DEF CancelQueuedForRun, TypeOK, MovedRow, Moved, Final
  <2> QED
    BY <1>12, <2>1, <2>2, <2>3
       DEF CancelQueuedForRun, TypeOK, runVars, RunTypeOK, devices, Active, Cpu
<1>13. CASE CommitPause \/ CommitComplete \/ RunMoves
  <2>1. RunTypeOK'
    <3>1. RunNext \/ UNCHANGED runVars
      BY <1>13 DEF CommitPause, CommitComplete, RunMoves, RunNext
    <3> QED
      BY <3>1, RunTypes DEF TypeOK, RunTypeOK, runVars, Active
  <2> QED
    BY <1>13, <2>1 DEF CommitPause, CommitComplete, RunMoves, TypeOK, tables, devices, Cpu
<1>14. CASE Crash
  BY <1>14 DEF Crash, Blank, TypeOK, runVars, RunTypeOK, tables, devices, Active, Cpu, Step
<1>15. CASE Restart
  <2>1. ASSUME ReconcileAfterRestart
        PROVE  /\ actionState' \in [Act -> InFlight \cup Final \cup {"NONE"}]
               /\ outbox' \in [Act -> InFlight \cup {"NONE", "ACKED", "CANCELLED"}]
               /\ target' \in [Act -> [Serial -> {"NONE", "QUEUED", "DISPATCHING"} \cup Final]]
               /\ result' \in [Act -> [Serial -> {"NONE", "PENDING"} \cup Final]]
               /\ UNCHANGED <<lastSeq, request, command, parent, skip>>
    <3>1. \A a \in Act : ReconciledTo(a) \in Final
      BY DEF ReconciledTo, Final
    <3>2. /\ actionState' \in [Act -> InFlight \cup Final \cup {"NONE"}]
          /\ outbox' \in [Act -> InFlight \cup {"NONE", "ACKED", "CANCELLED"}]
      BY <2>1, <3>1 DEF ReconcileAfterRestart, TypeOK
    <3>3. target' \in [Act -> [Serial -> {"NONE", "QUEUED", "DISPATCHING"} \cup Final]]
      BY <2>1, <3>1 DEF ReconcileAfterRestart, TypeOK, MovedRow, Moved
    <3>4. result' \in [Act -> [Serial -> {"NONE", "PENDING"} \cup Final]]
      BY <2>1, <3>1 DEF ReconcileAfterRestart, TypeOK, MovedRow, Moved
    <3> QED
      BY <2>1, <3>2, <3>3, <3>4 DEF ReconcileAfterRestart
  <2>2. UNCHANGED tables \/ ReconcileAfterRestart
    BY <1>15 DEF Restart
  <2> QED
    BY <1>15, <2>1, <2>2 DEF Restart, TypeOK, runVars, RunTypeOK, tables, devices, Active, Cpu
<1>16. CASE UNCHANGED vars
  BY <1>16 DEF vars, TypeOK, runVars, RunTypeOK, tables, devices, Active
<1> QED
  BY <1>2, <1>3, <1>4, <1>5, <1>6, <1>7, <1>8, <1>9, <1>10, <1>11, <1>12, <1>13, <1>14, <1>15, <1>16
     DEF Next, Operator, Section, Verify, Continue

(* Every table keeps its types, whatever fails and restarts.               *)
THEOREM TypeCorrect == Spec => []TypeOK
<1>1. Init => TypeOK
  BY RunControlAssumption, ActionOutboxAssumption
     DEF Init, RunInit, Blank, TypeOK, RunTypeOK, RunState, Membership, Cpu, Step
<1>2. TypeOK /\ [Next]_vars => TypeOK'
  BY TypeStep
<1> QED
  BY <1>1, <1>2, PTL DEF Spec
-----------------------------------------------------------------------------
(* The inductive invariant.  An open action is the last one accepted; the  *)
(* rows of each action agree (Story), a dispatch that is awaiting owns the *)
(* rows it will answer (Owned), and how far a gesture has got is bounded   *)
(* by where its dispatch stands and by what has been recorded (Sends).     *)
Sequence ==
  \A a \in Act : /\ actionState[a] \in InFlight => a = lastSeq
                 /\ a > lastSeq => actionState[a] = "NONE"

Owned(a) == \A s \in Serial : step[a][s] # "none" => Owns(a, s)

Sends(a) ==
  \A s \in Serial :
    /\ performed[a][s] <= sent[a][s] /\ sent[a][s] <= 1
    /\ step[a][s] \in {"verify", "reject", "arm", "execute"} => sent[a][s] = 0
    /\ step[a][s] = "posted" => sent[a][s] = 1
    /\ step[a][s] = "ack" => performed[a][s] = 1
    /\ result[a][s] = "SUCCEEDED" => performed[a][s] = 1
    /\ result[a][s] \in {"NONE", "CANCELLED"} => sent[a][s] = 0
    /\ actionState[a] \in {"NONE", "QUEUED", "LEASED", "CANCELLED"} => sent[a][s] = 0

Rows(a) == Story(actionState[a], outbox[a], target[a], result[a]) /\ Owned(a) /\ Sends(a)

Inv ==
  /\ TypeOK
  /\ Sequence
  /\ \A a \in Act : Rows(a)
  /\ cpu = "down" => \A a \in Act, s \in Serial : step[a][s] = "none"

(* What Story says of each state of an action.                             *)
LEMMA StoryOf ==
  ASSUME NEW state \in InFlight \cup Final \cup {"NONE"}, NEW out, NEW targets, NEW results
  PROVE  Story(state, out, targets, results) <=>
    /\ out = OutboxOf(state)
    /\ state \in InFlight => \E s \in Serial : results[s] = "PENDING"
    /\ state \notin InFlight => \A s \in Serial : results[s] # "PENDING"
    /\ \A s \in Serial :
         /\ targets[s] = TargetOf(state, results[s])
         /\ state = "NONE" => results[s] = "NONE"
         /\ state \in {"QUEUED", "LEASED"} => results[s] \in {"NONE", "PENDING"}
         /\ state = "DISPATCHING" =>
              results[s] \in {"NONE", "PENDING", "SUCCEEDED", "FAILED"}
         /\ state = "SUCCEEDED" => results[s] \in {"NONE", "SUCCEEDED"}
         /\ state = "FAILED" => results[s] \in {"NONE", "SUCCEEDED", "FAILED"}
         /\ state = "CANCELLED" => results[s] \in {"NONE", "CANCELLED"}
         /\ state = "UNKNOWN" => results[s] \in {"NONE", "UNKNOWN", "SUCCEEDED", "FAILED"}
<1>1. /\ state = "NONE" => ResultsOf(state) = {"NONE"}
      /\ state \in {"QUEUED", "LEASED"} => ResultsOf(state) = {"NONE", "PENDING"}
      /\ state = "DISPATCHING" =>
           ResultsOf(state) = {"NONE", "PENDING", "SUCCEEDED", "FAILED"}
      /\ state = "SUCCEEDED" => ResultsOf(state) = {"NONE", "SUCCEEDED"}
      /\ state = "FAILED" => ResultsOf(state) = {"NONE", "SUCCEEDED", "FAILED"}
      /\ state = "CANCELLED" => ResultsOf(state) = {"NONE", "CANCELLED"}
      /\ state = "UNKNOWN" => ResultsOf(state) = {"NONE", "UNKNOWN", "SUCCEEDED", "FAILED"}
  BY DEF ResultsOf, Answer
<1> QED
  BY <1>1 DEF Story, InFlight, Final

LEMMA OutboxStates ==
  ASSUME NEW state \in InFlight \cup Final \cup {"NONE"}
  PROVE  /\ state \in {"NONE", "QUEUED", "LEASED", "DISPATCHING", "CANCELLED"} =>
              OutboxOf(state) = state
         /\ state \in Answer => OutboxOf(state) = "ACKED"
         /\ state = "UNKNOWN" => OutboxOf(state) = "CANCELLED"
BY DEF OutboxOf, Answer, InFlight, Final

LEMMA OpenState ==
  ASSUME TypeOK, NEW a \in Act, Rows(a), outbox[a] \in InFlight
  PROVE  actionState[a] = outbox[a]
<1>1. OutboxOf(actionState[a]) = outbox[a] /\ actionState[a] \in InFlight \cup Final \cup {"NONE"}
  BY DEF Rows, Story, TypeOK
<1> QED
  BY <1>1, OutboxStates DEF InFlight, Final, Answer

LEMMA RowsUnchanged ==
  ASSUME NEW b \in Act, Rows(b),
         UNCHANGED <<actionState[b], outbox[b], target[b], result[b],
                     step[b], sent[b], performed[b]>>
  PROVE  Rows(b)'
<1>1. Story(actionState[b], outbox[b], target[b], result[b])'
  BY DEF Rows, Story
<1>2. Owned(b)'
  BY DEF Rows, Owned, Owns
<1>3. Sends(b)'
  BY DEF Rows, Sends
<1> QED
  BY <1>1, <1>2, <1>3 DEF Rows
-----------------------------------------------------------------------------
(* An answer that is recorded: the device's rows are still the dispatch's  *)
(* own, and with the last answer the action closes on a just verdict.      *)
LEMMA OwnedIsDispatching ==
  ASSUME TypeOK, NEW a \in Act, NEW s \in Serial, Rows(a), step[a][s] # "none"
  PROVE  /\ Owns(a, s)
         /\ actionState[a] = "DISPATCHING"
<1>1. Owns(a, s)
  BY DEF Rows, Owned
<1>2. actionState[a] = "DISPATCHING"
  BY <1>1, OpenState DEF Owns, InFlight
<1> QED
  BY <1>1, <1>2

LEMMA AnswerRecorded ==
  ASSUME Inv, NEW a \in Act, NEW s \in Serial, NEW answer \in Answer,
         step[a][s] # "none",
         answer = "SUCCEEDED" => performed[a][s] = 1,
         CompleteTarget(a, s, answer), Goto(a, s, "none"), UNCHANGED devices
  PROVE  Sequence' /\ \A b \in Act : Rows(b)'
<1> DEFINE results == [result[a] EXCEPT ![s] = answer]
           last == AllAnswered(results)
           closing == VerdictOf(results)
<1>1. Owns(a, s) /\ actionState[a] = "DISPATCHING"
  BY OwnedIsDispatching DEF Inv
<1>2. /\ target' = [target EXCEPT ![a][s] = answer]
      /\ result' = [result EXCEPT ![a] = results]
      /\ actionState' = IF last THEN [actionState EXCEPT ![a] = closing] ELSE actionState
      /\ outbox' = IF last THEN [outbox EXCEPT ![a] = "ACKED"] ELSE outbox
      /\ lastSeq' = lastSeq
  BY <1>1, Zenon DEF CompleteTarget, Moved
<1>3. /\ actionState'[a] = IF last THEN closing ELSE "DISPATCHING"
      /\ outbox'[a] = IF last THEN "ACKED" ELSE "DISPATCHING"
      /\ target'[a] = [target[a] EXCEPT ![s] = answer]
      /\ result'[a] = results
      /\ step'[a] = [step[a] EXCEPT ![s] = "none"]
      /\ sent'[a] = sent[a] /\ performed'[a] = performed[a]
  BY <1>1, <1>2 DEF Inv, TypeOK, Goto, Owns, devices
<1>4. \A b \in Act \ {a} :
        UNCHANGED <<actionState[b], outbox[b], target[b], result[b], step[b], sent[b], performed[b]>>
  BY <1>2 DEF Inv, TypeOK, Goto, devices
<1>5. closing \in Answer
  BY DEF VerdictOf, Answer
<1>6. result[a] \in [Serial -> {"NONE", "PENDING"} \cup Final] /\ step[a] \in [Serial -> Step]
        /\ target[a] \in [Serial -> {"NONE", "QUEUED", "DISPATCHING"} \cup Final]
  BY DEF Inv, TypeOK
<1>7. \A t \in Serial : /\ results[t] = IF t = s THEN answer ELSE result[a][t]
                        /\ target'[a][t] = IF t = s THEN answer ELSE target[a][t]
                        /\ step'[a][t] = IF t = s THEN "none" ELSE step[a][t]
  BY <1>3, <1>6
<1>8. /\ \A t \in Serial : /\ target[a][t] = TargetOf("DISPATCHING", result[a][t])
                           /\ result[a][t] \in {"NONE", "PENDING", "SUCCEEDED", "FAILED"}
  BY <1>1, StoryOf DEF Inv, Rows, InFlight
<1>9. Story(actionState[a], outbox[a], target[a], result[a])'
  <2>1. CASE last
    <3>1. \A t \in Serial : results[t] # "PENDING"
      BY <2>1 DEF AllAnswered
    <3>2. \A t \in Serial : target'[a][t] = TargetOf(closing, results[t])
      BY <1>7, <1>8, <3>1 DEF TargetOf
    <3>3. \A t \in Serial : results[t] \in {"NONE", "SUCCEEDED", "FAILED"}
      BY <1>7, <1>8, <3>1 DEF Answer
    <3>4. closing = "SUCCEEDED" => \A t \in Serial : results[t] \in {"NONE", "SUCCEEDED"}
      BY <3>3 DEF VerdictOf
    <3>5. Story(closing, "ACKED", target'[a], results)
      <4>1. OutboxOf(closing) = "ACKED" /\ closing \in Final \ InFlight
        BY <1>5, OutboxStates DEF InFlight, Final, Answer
      <4> HIDE DEF results, last, closing
      <4> QED
        BY <1>5, <3>1, <3>2, <3>3, <3>4, <4>1, StoryOf DEF InFlight, Final, Answer
    <3> QED
      BY <1>3, <2>1, <3>5
  <2>2. CASE ~ last
    <3>1. \E t \in Serial : results[t] = "PENDING"
      BY <2>2 DEF AllAnswered
    <3>2. \A t \in Serial : target'[a][t] = TargetOf("DISPATCHING", results[t])
      BY <1>7, <1>8 DEF TargetOf, Answer
    <3>3. \A t \in Serial : results[t] \in {"NONE", "PENDING", "SUCCEEDED", "FAILED"}
      BY <1>7, <1>8 DEF Answer
    <3>4. Story("DISPATCHING", "DISPATCHING", target'[a], results)
      <4>1. OutboxOf("DISPATCHING") = "DISPATCHING"
        BY OutboxStates DEF InFlight
      <4> HIDE DEF results, last, closing
      <4> QED
        BY <3>1, <3>2, <3>3, <4>1, StoryOf DEF InFlight
    <3> QED
      BY <1>3, <2>2, <3>4
  <2> QED
    BY <2>1, <2>2
<1>10. Owned(a)'
  <2>1. ASSUME NEW t \in Serial, step'[a][t] # "none"
        PROVE  Owns(a, t)'
    <3>1. t # s /\ step[a][t] # "none"
      BY <1>7, <2>1
    <3>2. Owns(a, t)
      BY <3>1 DEF Inv, Rows, Owned
    <3>3. ~ last
      BY <1>7, <3>1, <3>2 DEF AllAnswered, Owns
    <3> QED
      BY <1>3, <1>7, <3>1, <3>2, <3>3 DEF Owns
  <2> QED
    BY <2>1 DEF Owned
<1>11. Sends(a)'
  <2>1. Sends(a)
    BY DEF Inv, Rows
  <2>2. actionState'[a] \notin {"NONE", "QUEUED", "LEASED", "CANCELLED"}
    BY <1>3, <1>5 DEF Answer
  <2> QED
    BY <1>3, <1>7, <2>1, <2>2 DEF Sends, Answer
<1>12. Sequence'
  BY <1>1, <1>2, <1>3, <1>4, <1>5 DEF Inv, Sequence, InFlight, Answer
<1>13. ASSUME NEW b \in Act \ {a}
       PROVE  Rows(b)'
  BY <1>4, <1>13, RowsUnchanged DEF Inv
<1> QED
  BY <1>9, <1>10, <1>11, <1>12, <1>13 DEF Rows
-----------------------------------------------------------------------------
(* The actions that leave the tables alone, and those that change the rows *)
(* of the last action before anything was posted for it.                   *)
LEMMA RowsAtRest ==
  ASSUME Inv, UNCHANGED <<tables, devices, step>>
  PROVE  Sequence' /\ \A b \in Act : Rows(b)'
BY RowsUnchanged DEF Inv, Sequence, tables, devices

LEMMA StepMoves ==
  ASSUME Inv, NEW a \in Act, NEW s \in Serial, NEW point,
         step[a][s] # "none", Goto(a, s, point),
         UNCHANGED tables, performed' = performed,
         sent'[a] \in [Serial -> Nat],
         \A t \in Serial \ {s} : sent'[a][t] = sent[a][t],
         \A b \in Act \ {a} : sent'[b] = sent[b],
         performed[a][s] <= sent'[a][s] /\ sent'[a][s] <= 1,
         point \in {"verify", "reject", "arm", "execute"} => sent'[a][s] = 0,
         point = "posted" => sent'[a][s] = 1,
         point = "ack" => performed[a][s] = 1
  PROVE  Sequence' /\ \A b \in Act : Rows(b)'
<1>1. Owns(a, s) /\ actionState[a] = "DISPATCHING"
  BY OwnedIsDispatching DEF Inv
<1>2. ASSUME NEW b \in Act \ {a}
      PROVE  Rows(b)'
  BY RowsUnchanged DEF Inv, TypeOK, Goto, tables
<1>3. \A t \in Serial : step'[a][t] = IF t = s THEN point ELSE step[a][t]
  BY DEF Inv, TypeOK, Goto
<1>4. Story(actionState[a], outbox[a], target[a], result[a])'
  BY DEF Inv, Rows, tables
<1>5. Owned(a)'
  BY <1>1, <1>3 DEF Inv, Rows, Owned, Owns, tables
<1>6. Sends(a)'
  BY <1>1, <1>3 DEF Inv, Rows, Sends, Owns, tables
<1>7. Sequence'
  BY DEF Inv, Sequence, tables
<1> QED
  BY <1>2, <1>4, <1>5, <1>6, <1>7 DEF Rows

LEMMA CreateKeepsRows ==
  ASSUME Inv, NEW q, NEW c, NEW p, Create(q, c, p)
  PROVE  Sequence' /\ \A b \in Act : Rows(b)'
<1>1. lastSeq \in Nat /\ \A b \in Act : b \in Nat
  BY ActionOutboxAssumption DEF Inv, TypeOK, Act
<1>2. PICK a \in Act : a = lastSeq + 1
  BY DEF Create
<1>3. actionState[a] = "NONE" /\ outbox[a] = "NONE"
  <2>1. actionState[a] = "NONE"
    BY <1>1, <1>2 DEF Inv, Sequence
  <2> QED
    BY <2>1, OutboxStates DEF Inv, Rows, Story
<1>4. \A s \in Serial : step[a][s] = "none"
  BY <1>3 DEF Inv, Rows, Owned, Owns
<1>5. /\ actionState' = [actionState EXCEPT ![a] = "QUEUED"]
      /\ outbox' = [outbox EXCEPT ![a] = "QUEUED"]
      /\ target' = [target EXCEPT ![a] = [s \in Serial |-> IF s \in Active THEN "QUEUED" ELSE "NONE"]]
      /\ result' = [result EXCEPT ![a] = [s \in Serial |-> IF s \in Active THEN "PENDING" ELSE "NONE"]]
      /\ step' = step /\ sent' = sent /\ performed' = performed
      /\ lastSeq' = a
  BY <1>2 DEF Create, devices
<1>6. /\ actionState'[a] = "QUEUED" /\ outbox'[a] = "QUEUED"
      /\ \A s \in Serial : target'[a][s] = IF s \in Active THEN "QUEUED" ELSE "NONE"
      /\ \A s \in Serial : result'[a][s] = IF s \in Active THEN "PENDING" ELSE "NONE"
  BY <1>5 DEF Inv, TypeOK
<1>7. Story(actionState[a], outbox[a], target[a], result[a])'
  <2>1. OutboxOf("QUEUED") = "QUEUED"
    BY OutboxStates DEF InFlight
  <2>2. \A s \in Serial : target'[a][s] = TargetOf("QUEUED", result'[a][s])
    BY <1>6 DEF TargetOf
  <2>3. \A s \in Serial : result'[a][s] \in {"NONE", "PENDING"}
    BY <1>6
  <2>4. \E s \in Serial : result'[a][s] = "PENDING"
    BY <1>6 DEF Create, Active
  <2>5. Story("QUEUED", "QUEUED", target'[a], result'[a])
    BY <2>1, <2>2, <2>3, <2>4, StoryOf DEF InFlight
  <2> QED
    BY <1>6, <2>5
<1>8. Owned(a)'
  BY <1>4, <1>5 DEF Owned
<1>9. Sends(a)'
  BY <1>3, <1>4, <1>5, <1>6 DEF Inv, Rows, Sends, TypeOK
<1>10. ASSUME NEW b \in Act \ {a}
       PROVE  /\ Rows(b)'
              /\ actionState'[b] = actionState[b]
  BY <1>5, <1>10, RowsUnchanged DEF Inv, TypeOK
<1>11. Sequence'
  BY <1>1, <1>2, <1>5, <1>6, <1>10 DEF Create, Inv, Sequence, NothingInFlight
<1> QED
  BY <1>7, <1>8, <1>9, <1>10, <1>11 DEF Rows

LEMMA LeaseKeepsRows ==
  ASSUME Inv, Lease
  PROVE  Sequence' /\ \A b \in Act : Rows(b)'
<1>1. ASSUME NEW b \in Act, b # lastSeq
      PROVE  Rows(b)' /\ actionState'[b] = actionState[b]
  BY <1>1, RowsUnchanged DEF Lease, Inv, TypeOK, devices
<1>2. ASSUME NEW a \in Act, a = lastSeq
      PROVE  Rows(a)' /\ actionState'[a] = "LEASED"
  <2>1. outbox[a] = "QUEUED"
    BY <1>2 DEF Lease
  <2>2. actionState[a] = "QUEUED"
    BY <2>1, OpenState DEF Inv, InFlight
  <2>3. /\ actionState'[a] = "LEASED" /\ outbox'[a] = "LEASED"
        /\ UNCHANGED <<target, result, step, sent, performed>>
    <3>1. /\ actionState' = [actionState EXCEPT ![a] = Moved(@, {"QUEUED"}, "LEASED")]
          /\ outbox' = [outbox EXCEPT ![a] = "LEASED"]
          /\ UNCHANGED <<target, result, step, sent, performed>>
      BY <1>2 DEF Lease, devices
    <3>2. Moved(actionState[a], {"QUEUED"}, "LEASED") = "LEASED"
      BY <2>2 DEF Moved
    <3> QED
      BY <3>1, <3>2 DEF Inv, TypeOK
  <2>4. Story("LEASED", "LEASED", target[a], result[a])
    <3>1. OutboxOf("LEASED") = "LEASED"
      BY OutboxStates DEF InFlight
    <3>2. \A answer : TargetOf("LEASED", answer) = TargetOf("QUEUED", answer)
      BY DEF TargetOf
    <3>3. Story("QUEUED", "QUEUED", target[a], result[a])
      BY <2>1, <2>2 DEF Inv, Rows
    <3> QED
      BY <3>1, <3>2, <3>3, StoryOf DEF InFlight
  <2>5. Owned(a)'
    <3>1. \A s \in Serial : step[a][s] = "none"
      BY <2>1 DEF Inv, Rows, Owned, Owns
    <3> QED
      BY <2>3, <3>1 DEF Owned
  <2>6. Sends(a)'
    BY <2>2, <2>3 DEF Inv, Rows, Sends
  <2> QED
    BY <2>3, <2>4, <2>5, <2>6 DEF Rows
<1>3. lastSeq' = lastSeq /\ \A b \in Act : b > lastSeq => b # lastSeq
  BY ActionOutboxAssumption DEF Lease, Inv, TypeOK, Act
<1>4. Sequence'
  BY <1>1, <1>2, <1>3 DEF Inv, Sequence
<1> QED
  BY <1>1, <1>2, <1>4

LEMMA MarkKeepsRows ==
  ASSUME Inv, MarkDispatching
  PROVE  Sequence' /\ \A b \in Act : Rows(b)'
<1>1. ASSUME NEW b \in Act, b # lastSeq
      PROVE  Rows(b)' /\ actionState'[b] = actionState[b]
  BY <1>1, RowsUnchanged DEF MarkDispatching, Inv, TypeOK, devices
<1>2. ASSUME NEW a \in Act, a = lastSeq
      PROVE  Rows(a)' /\ actionState'[a] = "DISPATCHING"
  <2>1. outbox[a] = "LEASED"
    BY <1>2 DEF MarkDispatching
  <2>2. actionState[a] = "LEASED"
    BY <2>1, OpenState DEF Inv, InFlight
  <2>3. Story("LEASED", "LEASED", target[a], result[a])
    BY <2>1, <2>2 DEF Inv, Rows
  <2>4. \A s \in Serial : /\ result[a][s] \in {"NONE", "PENDING"}
                          /\ target[a][s] = TargetOf("LEASED", result[a][s])
    BY <2>3, StoryOf DEF InFlight
  <2>5. \A s \in Serial : target[a][s] = IF result[a][s] = "NONE" THEN "NONE" ELSE "QUEUED"
    BY <2>4 DEF TargetOf
  <2>6. /\ actionState'[a] = "DISPATCHING" /\ outbox'[a] = "DISPATCHING"
        /\ \A s \in Serial : target'[a][s] = IF result[a][s] = "NONE" THEN "NONE" ELSE "DISPATCHING"
        /\ \A s \in Serial : step'[a][s] = IF result[a][s] = "NONE" THEN "none"
                                            ELSE FirstStep(command[a])
        /\ UNCHANGED <<result, sent, performed>>
    <3>1. /\ actionState' = [actionState EXCEPT ![a] = Moved(@, {"LEASED"}, "DISPATCHING")]
          /\ outbox' = [outbox EXCEPT ![a] = "DISPATCHING"]
          /\ target' = [target EXCEPT ![a] = MovedRow(@, {"QUEUED"}, "DISPATCHING")]
          /\ step' = [step EXCEPT ![a] = [s \in Serial |-> IF target[a][s] = "NONE" THEN "none"
                                                        ELSE FirstStep(command[a])]]
          /\ UNCHANGED <<result, sent, performed>>
      BY <1>2 DEF MarkDispatching, devices
    <3>2. Moved(actionState[a], {"LEASED"}, "DISPATCHING") = "DISPATCHING"
      BY <2>2 DEF Moved
    <3>3. \A s \in Serial : MovedRow(target[a], {"QUEUED"}, "DISPATCHING")[s]
                               = IF result[a][s] = "NONE" THEN "NONE" ELSE "DISPATCHING"
      BY <2>5 DEF MovedRow, Moved
    <3> HIDE DEF Moved, MovedRow
    <3> QED
      BY <2>5, <3>1, <3>2, <3>3 DEF Inv, TypeOK
  <2>7. Story("DISPATCHING", "DISPATCHING", target'[a], result[a])
    <3>1. OutboxOf("DISPATCHING") = "DISPATCHING"
      BY OutboxStates DEF InFlight
    <3>2. \A s \in Serial : target'[a][s] = TargetOf("DISPATCHING", result[a][s])
      BY <2>4, <2>6 DEF TargetOf
    <3>3. \E s \in Serial : result[a][s] = "PENDING"
      BY <2>3 DEF Story, InFlight
    <3> QED
      BY <2>4, <3>1, <3>2, <3>3, StoryOf DEF InFlight
  <2>8. Owned(a)'
    BY <2>4, <2>6 DEF Owned, Owns
  <2>9. Sends(a)'
    <3>1. FirstStep(command[a]) \notin {"posted", "ack"}
      BY DEF FirstStep
    <3>2. Sends(a) /\ \A s \in Serial : sent[a][s] = 0
      BY <2>2 DEF Inv, Rows, Sends
    <3>3. \A s \in Serial : result[a][s] # "SUCCEEDED"
      BY <2>4
    <3>4. \A s \in Serial : step'[a][s] \notin {"posted", "ack"}
      BY <2>6, <3>1
    <3> QED
      BY <2>6, <3>2, <3>3, <3>4 DEF Sends
  <2> QED
    BY <2>6, <2>7, <2>8, <2>9 DEF Rows
<1>3. lastSeq' = lastSeq /\ \A b \in Act : b > lastSeq => b # lastSeq
  BY ActionOutboxAssumption DEF MarkDispatching, Inv, TypeOK, Act
<1>4. Sequence'
  BY <1>1, <1>2, <1>3 DEF Inv, Sequence
<1> QED
  BY <1>1, <1>2, <1>4
-----------------------------------------------------------------------------
(* An action closed without its devices' answers: withdrawn while nothing  *)
(* was posted for it, or given up as unknown when nobody dispatches it.    *)
LEMMA ClosedKeepsRows ==
  ASSUME Inv, NEW a \in Act, outbox[a] \in InFlight,
         NEW how \in {"CANCELLED", "UNKNOWN"},
         how = "CANCELLED" => outbox[a] \in {"QUEUED", "LEASED"},
         \A s \in Serial : step[a][s] = "none",
         actionState'[a] = how, outbox'[a] = "CANCELLED",
         target'[a] = MovedRow(target[a], {"QUEUED", "DISPATCHING"}, how),
         result'[a] = MovedRow(result[a], {"PENDING"}, how),
         UNCHANGED <<step[a], sent[a], performed[a]>>
  PROVE  Rows(a)'
<1>1. actionState[a] = outbox[a]
  BY OpenState DEF Inv
<1>2. \A s \in Serial : result'[a][s] = IF result[a][s] = "PENDING" THEN how ELSE result[a][s]
  BY DEF MovedRow, Moved
<1>3. \A s \in Serial : target'[a][s] = IF target[a][s] \in {"QUEUED", "DISPATCHING"}
                                        THEN how ELSE target[a][s]
  BY DEF MovedRow, Moved
<1>4. \A s \in Serial : /\ target[a][s] = TargetOf(actionState[a], result[a][s])
                        /\ result[a][s] \in {"NONE", "PENDING"} \cup Answer
                        /\ outbox[a] # "DISPATCHING" => result[a][s] \in {"NONE", "PENDING"}
  BY <1>1, StoryOf DEF Inv, Rows, InFlight, Answer
<1>5. Story(how, "CANCELLED", target'[a], result'[a])
  <2>1. OutboxOf(how) = "CANCELLED"
    BY OutboxStates DEF Final
  <2>2. \A s \in Serial : result'[a][s] # "PENDING"
    BY <1>2
  <2>3. \A s \in Serial : target'[a][s] = TargetOf(how, result'[a][s])
    BY <1>1, <1>2, <1>3, <1>4 DEF TargetOf, Answer, InFlight
  <2>4. \A s \in Serial : /\ how = "CANCELLED" => result'[a][s] \in {"NONE", "CANCELLED"}
                          /\ result'[a][s] \in {"NONE", how, "SUCCEEDED", "FAILED"}
    BY <1>2, <1>4 DEF Answer, InFlight
  <2> QED
    BY <2>1, <2>2, <2>3, <2>4, StoryOf DEF InFlight, Final
<1>6. Owned(a)'
  BY DEF Owned
<1>7. Sends(a)'
  <2>1. Sends(a) /\ (how = "CANCELLED" => \A s \in Serial : sent[a][s] = 0)
    BY <1>1 DEF Inv, Rows, Sends
  <2> QED
    BY <1>2, <2>1 DEF Sends
<1> QED
  BY <1>5, <1>6, <1>7 DEF Rows

LEMMA WithdrawalKeepsRows ==
  ASSUME Inv, NEW handler, CancelQueuedForRun(handler)
  PROVE  Sequence' /\ \A b \in Act : Rows(b)'
<1>1. ASSUME NEW b \in Act, outbox[b] \notin {"QUEUED", "LEASED"}
      PROVE  Rows(b)' /\ actionState'[b] = actionState[b]
  BY <1>1, RowsUnchanged DEF CancelQueuedForRun, Withdrawn, Inv, devices
<1>2. ASSUME NEW b \in Act, outbox[b] \in {"QUEUED", "LEASED"}
      PROVE  Rows(b)' /\ actionState'[b] = "CANCELLED"
  <2>1. actionState[b] = outbox[b]
    BY <1>2, OpenState DEF Inv, InFlight
  <2>2. \A s \in Serial : step[b][s] = "none"
    BY <1>2 DEF Inv, Rows, Owned, Owns
  <2>3. /\ actionState'[b] = "CANCELLED" /\ outbox'[b] = "CANCELLED"
        /\ target'[b] = MovedRow(target[b], {"QUEUED", "DISPATCHING"}, "CANCELLED")
        /\ result'[b] = MovedRow(result[b], {"PENDING"}, "CANCELLED")
        /\ UNCHANGED <<step, sent, performed>>
    BY <1>2, <2>1 DEF CancelQueuedForRun, Withdrawn, Moved, devices
  <2> QED
    BY <1>2, <2>2, <2>3, ClosedKeepsRows DEF InFlight
<1>3. Sequence'
  <2>1. lastSeq' = lastSeq
    BY DEF CancelQueuedForRun
  <2>2. \A b \in Act : outbox[b] \in {"QUEUED", "LEASED"} => actionState[b] # "NONE"
    BY OpenState DEF Inv, InFlight
  <2> QED
    BY <1>1, <1>2, <2>1, <2>2 DEF Inv, Sequence, InFlight
<1> QED
  BY <1>1, <1>2, <1>3

LEMMA ReconciliationKeepsRows ==
  ASSUME Inv, \A a \in Act, s \in Serial : step[a][s] = "none",
         ReconcileAfterRestart, UNCHANGED <<devices, step>>
  PROVE  Sequence' /\ \A b \in Act : Rows(b)'
<1>1. ASSUME NEW b \in Act, outbox[b] \notin InFlight
      PROVE  Rows(b)' /\ actionState'[b] = actionState[b]
  BY <1>1, RowsUnchanged DEF ReconcileAfterRestart, Unfinished, Inv, devices
<1>2. ASSUME NEW b \in Act, outbox[b] \in InFlight
      PROVE  Rows(b)' /\ actionState'[b] \in {"CANCELLED", "UNKNOWN"}
  <2>1. PICK how \in {"CANCELLED", "UNKNOWN"} :
          how = ReconciledTo(b) /\ (how = "CANCELLED" => outbox[b] = "QUEUED")
    BY DEF ReconciledTo
  <2>2. /\ actionState'[b] = how /\ outbox'[b] = "CANCELLED"
        /\ target'[b] = MovedRow(target[b], {"QUEUED", "DISPATCHING"}, how)
        /\ result'[b] = MovedRow(result[b], {"PENDING"}, how)
        /\ UNCHANGED <<step, sent, performed>>
    BY <1>2, <2>1 DEF ReconcileAfterRestart, Unfinished, devices
  <2> QED
    BY <1>2, <2>1, <2>2, ClosedKeepsRows
<1>3. Sequence'
  <2>1. lastSeq' = lastSeq
    BY DEF ReconcileAfterRestart
  <2>2. \A b \in Act : outbox[b] \in InFlight => actionState[b] # "NONE"
    BY OpenState DEF Inv, InFlight
  <2> QED
    BY <1>1, <1>2, <2>1, <2>2 DEF Inv, Sequence, InFlight
<1> QED
  BY <1>1, <1>2, <1>3
-----------------------------------------------------------------------------
LEMMA VerifyKeepsRows ==
  ASSUME Inv, NEW a \in Act, VerifyPasses(a) \/ VerifyFails(a)
  PROVE  Sequence' /\ \A b \in Act : Rows(b)'
<1>1. PICK point \in {"arm", "reject"} : step' = [step EXCEPT ![a] = MovedRow(@, {"verify"}, point)]
  BY DEF VerifyPasses, VerifyFails
<1>2. UNCHANGED tables /\ sent' = sent /\ performed' = performed
  BY DEF VerifyPasses, VerifyFails, devices
<1>3. \A s \in Serial : step'[a][s] = IF step[a][s] = "verify" THEN point ELSE step[a][s]
  BY <1>1 DEF Inv, TypeOK, MovedRow, Moved
<1>4. ASSUME NEW b \in Act \ {a}
      PROVE  Rows(b)'
  BY <1>1, <1>2, <1>4, RowsUnchanged DEF Inv, TypeOK, tables
<1>5. Story(actionState[a], outbox[a], target[a], result[a])'
  BY <1>2 DEF Inv, Rows, tables
<1>6. Owned(a)'
  BY <1>2, <1>3 DEF Inv, Rows, Owned, Owns, tables
<1>7. Sends(a)'
  BY <1>2, <1>3 DEF Inv, Rows, Sends, tables
<1>8. Sequence'
  BY <1>2 DEF Inv, Sequence, tables
<1> QED
  BY <1>4, <1>5, <1>6, <1>7, <1>8 DEF Rows

LEMMA DispatchKeepsRows ==
  ASSUME Inv, NEW a \in Act, NEW s \in Serial, Continue(a, s) \/ Reject(a, s)
  PROVE  Sequence' /\ \A b \in Act : Rows(b)'
<1>1. /\ Sends(a) /\ sent[a] \in [Serial -> Nat] /\ performed[a] \in [Serial -> Nat]
      /\ sent \in [Act -> [Serial -> Nat]]
  BY DEF Inv, Rows, TypeOK
<1>2. CASE ArmGranted(a, s)
  <2>1. step[a][s] = "arm" /\ Goto(a, s, "execute") /\ UNCHANGED <<tables, sent, performed>>
    BY <1>2 DEF ArmGranted, At, devices
  <2>2. performed[a][s] <= sent[a][s] /\ sent[a][s] <= 1 /\ sent[a][s] = 0
    BY <1>1, <2>1 DEF Sends
  <2> QED
    BY <1>1, <2>1, <2>2, StepMoves
<1>3. CASE Post(a, s)
  <2>1. /\ step[a][s] = "execute" /\ Goto(a, s, "posted") /\ UNCHANGED <<tables, performed>>
        /\ sent' = [sent EXCEPT ![a][s] = @ + 1]
    BY <1>3 DEF Post, At
  <2>2. performed[a][s] <= sent[a][s] /\ sent[a][s] = 0
    BY <1>1, <2>1 DEF Sends
  <2>3. /\ sent'[a] \in [Serial -> Nat] /\ sent'[a][s] = 1
        /\ \A t \in Serial \ {s} : sent'[a][t] = sent[a][t]
        /\ \A b \in Act \ {a} : sent'[b] = sent[b]
    BY <1>1, <2>1, <2>2
  <2>4. performed[a][s] <= sent'[a][s] /\ sent'[a][s] <= 1
    BY <1>1, <2>2, <2>3
  <2> QED
    BY <2>1, <2>3, <2>4, StepMoves
<1>4. ASSUME NEW point \in {"ack", "cancel"}, Goto(a, s, point), UNCHANGED <<tables, devices>>,
             step[a][s] # "none", point = "ack" => performed[a][s] = 1
      PROVE  Sequence' /\ \A b \in Act : Rows(b)'
  <2>1. performed[a][s] <= sent[a][s] /\ sent[a][s] <= 1
    BY <1>1 DEF Sends
  <2> QED
    BY <1>1, <1>4, <2>1, StepMoves DEF devices
<1>5. CASE Respond(a, s)
  <2>1. step[a][s] = "posted" /\ performed[a][s] = sent[a][s] /\ UNCHANGED devices
    BY <1>5 DEF Respond, At
  <2>2. performed[a][s] = 1
    BY <1>1, <2>1 DEF Sends
  <2>3. CASE Goto(a, s, "ack") /\ UNCHANGED tables
    BY <1>4, <2>1, <2>2, <2>3
  <2>4. CASE Goto(a, s, "none") /\ CompleteTarget(a, s, "SUCCEEDED")
    BY <2>1, <2>2, <2>4, AnswerRecorded DEF Answer
  <2> QED
    BY <1>5, <2>3, <2>4 DEF Respond
<1>6. CASE AckReceived(a, s)
  <2>1. /\ step[a][s] = "ack" /\ UNCHANGED devices
        /\ Goto(a, s, "none") /\ CompleteTarget(a, s, "SUCCEEDED")
    BY <1>6 DEF AckReceived, At
  <2>2. performed[a][s] = 1
    BY <1>1, <2>1 DEF Sends
  <2> QED
    BY <2>1, <2>2, AnswerRecorded DEF Answer
<1>7. CASE Fail(a, s)
  <2>1. step[a][s] # "none" /\ UNCHANGED devices /\ OnFailure(a, s) \in {"none", "cancel"}
    BY <1>7 DEF Fail, OnFailure
  <2>2. CASE OnFailure(a, s) = "none"
    <3>1. Goto(a, s, "none") /\ CompleteTarget(a, s, "FAILED")
      BY <1>7, <2>2 DEF Fail
    <3> QED
      BY <2>1, <3>1, AnswerRecorded DEF Answer
  <2>3. CASE OnFailure(a, s) = "cancel"
    <3>1. Goto(a, s, "cancel") /\ UNCHANGED tables
      BY <1>7, <2>3 DEF Fail
    <3> QED
      BY <1>4, <2>1, <3>1
  <2> QED
    BY <2>1, <2>2, <2>3
<1>8. CASE BarrierCancelled(a, s) \/ Reject(a, s)
  <2>1. /\ step[a][s] # "none" /\ UNCHANGED devices
        /\ Goto(a, s, "none") /\ CompleteTarget(a, s, "FAILED")
    BY <1>8 DEF BarrierCancelled, Reject, At
  <2> QED
    BY <2>1, AnswerRecorded DEF Answer
<1> QED
  BY <1>2, <1>3, <1>5, <1>6, <1>7, <1>8 DEF Continue

LEMMA PerformKeepsRows ==
  ASSUME Inv, NEW a \in Act, NEW s \in Serial, Perform(a, s)
  PROVE  Sequence' /\ \A b \in Act : Rows(b)'
<1>1. /\ performed[a][s] < sent[a][s] /\ performed' = [performed EXCEPT ![a][s] = @ + 1]
      /\ UNCHANGED <<tables, sent, step>>
  BY DEF Perform
<1>2. performed \in [Act -> [Serial -> Nat]] /\ sent \in [Act -> [Serial -> Nat]]
  BY DEF Inv, TypeOK
<1>3. \A t \in Serial : performed'[a][t] = IF t = s THEN performed[a][t] + 1 ELSE performed[a][t]
  BY <1>1, <1>2
<1>4. ASSUME NEW b \in Act \ {a}
      PROVE  Rows(b)'
  BY <1>1, <1>2, <1>4, RowsUnchanged DEF Inv, tables
<1>5. Story(actionState[a], outbox[a], target[a], result[a])' /\ Owned(a)'
  BY <1>1 DEF Inv, Rows, Owned, Owns, tables
<1>6. Sends(a)'
  <2>1. Sends(a) /\ performed[a][s] \in Nat /\ sent[a][s] \in Nat
    BY <1>2 DEF Inv, Rows
  <2>2. performed[a][s] = 0 /\ sent[a][s] = 1
    BY <1>1, <2>1 DEF Sends
  <2> QED
    BY <1>1, <1>2, <1>3, <2>1, <2>2 DEF Sends, tables
<1>7. Sequence'
  BY <1>1 DEF Inv, Sequence, tables
<1> QED
  BY <1>4, <1>5, <1>6, <1>7 DEF Rows

LEMMA InvStep ==
  ASSUME Inv, [Next]_vars
  PROVE  Inv'
<1>1. TypeOK'
  BY TypeStep DEF Inv
<1>2. Sequence' /\ \A b \in Act : Rows(b)'
  <2>1. CASE Operator
    <3>1. ASSUME NEW a, NEW k, Skip(a, k)
          PROVE  Sequence' /\ \A b \in Act : Rows(b)'
      BY <3>1, RowsUnchanged DEF Skip, Inv, Sequence, devices
    <3> QED
      BY <2>1, <3>1, CreateKeepsRows, WithdrawalKeepsRows DEF Operator, Submit, Retry
  <2>2. CASE Section
    <3>1. CASE CommitPause \/ CommitComplete
      BY <3>1, RowsAtRest DEF CommitPause, CommitComplete
    <3> QED
      BY <2>2, <3>1, LeaseKeepsRows, MarkKeepsRows, DispatchKeepsRows DEF Section
  <2>3. CASE RunMoves \/ UNCHANGED vars
    BY <2>3, RowsAtRest DEF RunMoves, vars
  <2>4. ASSUME NEW a \in Act, Verify(a)
        PROVE  Sequence' /\ \A b \in Act : Rows(b)'
    BY <2>4, VerifyKeepsRows DEF Verify
  <2>5. CASE Crash
    <3>1. UNCHANGED <<tables, devices>> /\ \A a \in Act, s \in Serial : step'[a][s] = "none"
      BY <2>5 DEF Crash, Blank
    <3>2. ASSUME NEW b \in Act
          PROVE  Rows(b)'
      <4>1. Story(actionState[b], outbox[b], target[b], result[b])' /\ Owned(b)'
        BY <3>1 DEF Inv, Rows, Owned, tables
      <4>2. Sends(b)'
        BY <3>1 DEF Inv, Rows, Sends, tables, devices
      <4> QED
        BY <4>1, <4>2 DEF Rows
    <3> QED
      BY <3>1, <3>2 DEF Inv, Sequence, tables
  <2>6. CASE Restart
    <3>1. UNCHANGED <<devices, step>> /\ (UNCHANGED tables \/ ReconcileAfterRestart)
      BY <2>6 DEF Restart
    <3>2. \A a \in Act, s \in Serial : step[a][s] = "none"
      BY <2>6 DEF Restart, Inv
    <3> QED
      BY <3>1, <3>2, RowsAtRest, ReconciliationKeepsRows
  <2> QED
    BY <2>1, <2>2, <2>3, <2>4, <2>5, <2>6, DispatchKeepsRows, PerformKeepsRows DEF Next
<1>3. (cpu = "down" => \A a \in Act, s \in Serial : step[a][s] = "none")'
  <2>1. CASE Crash
    BY <2>1 DEF Crash, Blank
  <2>2. CASE UNCHANGED <<cpu, step>>
    BY <2>2 DEF Inv
  <2>3. ASSUME NEW a \in Act, NEW s \in Serial, Perform(a, s)
        PROVE  UNCHANGED <<cpu, step>>
    BY <2>3 DEF Perform
  <2>4. CASE Operator \/ Section \/ Restart
    BY <2>4 DEF Operator, Section, Restart, Submit, Retry, Create, Skip, CancelQueuedForRun,
               Lease, MarkDispatching, Reject, CommitPause, CommitComplete
  <2>5. CASE \E a \in Act : Verify(a)
    BY <2>5 DEF Verify, VerifyPasses, VerifyFails
  <2>6. CASE \E a \in Act, s \in Serial : Continue(a, s)
    BY <2>6 DEF Continue, ArmGranted, Post, Respond, AckReceived, Fail, BarrierCancelled, At
  <2>7. CASE RunMoves \/ UNCHANGED vars
    BY <2>2, <2>7 DEF RunMoves, vars
  <2> QED
    BY <2>1, <2>2, <2>3, <2>4, <2>5, <2>6, <2>7 DEF Next
<1> QED
  BY <1>1, <1>2, <1>3 DEF Inv

LEMMA InitInv ==
  ASSUME Init
  PROVE  Inv
<1>1. TypeOK
  BY RunControlAssumption, ActionOutboxAssumption
     DEF Init, RunInit, Blank, TypeOK, RunTypeOK, RunState, Membership, Cpu, Step
<1>2. Sequence
  BY DEF Init, Sequence, InFlight
<1>3. ASSUME NEW a \in Act
      PROVE  Rows(a)
  <2>1. OutboxOf("NONE") = "NONE" /\ TargetOf("NONE", "NONE") = "NONE"
    BY OutboxStates DEF TargetOf
  <2>2. /\ actionState[a] = "NONE" /\ outbox[a] = "NONE"
        /\ \A s \in Serial : /\ target[a][s] = "NONE" /\ result[a][s] = "NONE"
                             /\ step[a][s] = "none" /\ sent[a][s] = 0 /\ performed[a][s] = 0
    BY DEF Init, Blank
  <2>3. Story("NONE", "NONE", target[a], result[a])
    BY <2>1, <2>2, StoryOf DEF InFlight
  <2> QED
    BY <2>2, <2>3 DEF Rows, Owned, Sends
<1> QED
  BY <1>1, <1>2, <1>3 DEF Init, Inv

LEMMA InvAlways == Spec => []Inv
<1>1. Inv /\ [Next]_vars => Inv'
  BY InvStep
<1> QED
  BY <1>1, InitInv, PTL DEF Spec
-----------------------------------------------------------------------------
(* What the invariant means.  At most one group action of a run is on its  *)
(* way at once (run-repository.ts create), for any number of actions.      *)
THEOREM OneInFlight == Spec => []OneGroupActionInFlight
<1>1. Inv => OneGroupActionInFlight
  BY DEF Inv, Sequence, OneGroupActionInFlight
<1> QED
  BY <1>1, InvAlways, PTL

(* No device is sent a gesture twice for one action, whatever answers are  *)
(* late, lost or recorded before a crash (action-dispatcher.ts).           *)
THEOREM AtMostOnce == Spec => []NoReplay
<1>1. Inv => NoReplay
  BY DEF Inv, Rows, Sends, NoReplay
<1> QED
  BY <1>1, InvAlways, PTL

(* What pause, complete and the reconciliation withdraw was never sent     *)
(* (cancelQueuedForRun, reconcileAfterRestart).                            *)
THEOREM WithdrawnBeforeSent == Spec => []CancelledNeverSent
<1>1. Inv => CancelledNeverSent
  BY DEF Inv, Rows, Sends, CancelledNeverSent
<1> QED
  BY <1>1, InvAlways, PTL

(* A SUCCEEDED action was performed by every target and leaves no result   *)
(* open (completeTarget's verdict over device_action_results).             *)
THEOREM SuccessIsReal == Spec => []SucceededWasPerformed
<1>1. Inv => SucceededWasPerformed
  <2> SUFFICES ASSUME Inv, NEW a \in Act, NEW s \in Serial,
                      actionState[a] = "SUCCEEDED", target[a][s] # "NONE"
               PROVE  performed[a][s] = 1 /\ result[a][s] = "SUCCEEDED"
    BY DEF SucceededWasPerformed
  <2>1. /\ result[a][s] \in {"NONE", "SUCCEEDED"}
        /\ target[a][s] = TargetOf("SUCCEEDED", result[a][s])
    BY StoryOf DEF Inv, Rows, Final
  <2>2. result[a][s] = "SUCCEEDED"
    BY <2>1 DEF TargetOf
  <2> QED
    BY <2>2 DEF Inv, Rows, Sends
<1> QED
  BY <1>1, InvAlways, PTL

(* The four tables always tell one story about an action.                  *)
THEOREM OneStory == Spec => []BooksAgree
<1>1. Inv => BooksAgree
  BY DEF Inv, Rows, BooksAgree
<1> QED
  BY <1>1, InvAlways, PTL

(* completeTarget never refuses the answer of a dispatch that awaits one.  *)
THEOREM NoAnswerLost == Spec => []AnswersAreAccepted
<1>1. Inv => AnswersAreAccepted
  BY DEF Inv, Rows, Owned, AnswersAreAccepted
<1> QED
  BY <1>1, InvAlways, PTL

(* The gestures of a run are single, across crashes, pauses and lost       *)
(* answers (action-outbox.ts, action-dispatcher.ts).                       *)
THEOREM SingleGestures == Spec => []GesturesAreSingle
BY OneInFlight, AtMostOnce, PTL DEF GesturesAreSingle

(* CANCELLED and SUCCEEDED are reported truthfully (cancelQueuedForRun,    *)
(* reconcileAfterRestart, completeTarget).                                 *)
THEOREM TrueAnswers == Spec => []AnswersAreTrue
BY WithdrawnBeforeSent, SuccessIsReal, PTL DEF AnswersAreTrue
-----------------------------------------------------------------------------
(* With the reconciliation at startup nobody's lease is left behind: what  *)
(* is leased is in the section that leases it, and every answer missing    *)
(* from an action being dispatched is one that a device's part awaits.     *)
Handled(a) ==
  /\ actionState[a] = "LEASED" => cpu \in {"mark", "down"}
  /\ actionState[a] = "DISPATCHING" /\ cpu # "down" =>
       \A s \in Serial : result[a][s] = "PENDING" => step[a][s] # "none"

HandledInv == Inv /\ \A a \in Act : Handled(a)

\* A step that leaves the action's rows alone and nobody without the processor.
LEMMA StillHandled ==
  ASSUME NEW b \in Act, Handled(b), cpu \in {"idle", "lease"} \/ actionState[b] # "LEASED",
         cpu # "down" \/ cpu' = "down",
         UNCHANGED <<actionState[b], result[b]>>,
         \A s \in Serial : step[b][s] # "none" => step'[b][s] # "none"
  PROVE  Handled(b)'
BY DEF Handled

LEMMA CreateHandles ==
  ASSUME HandledInv, NEW q, NEW c, NEW p, Create(q, c, p)
  PROVE  \A b \in Act : Handled(b)'
<1>1. PICK a \in Act : a = lastSeq + 1
  BY DEF Create
<1>2. /\ actionState' = [actionState EXCEPT ![a] = "QUEUED"]
      /\ \E row : result' = [result EXCEPT ![a] = row]
      /\ step' = step /\ cpu = "idle"
  BY <1>1 DEF Create
<1>3. actionState'[a] = "QUEUED"
  BY <1>2 DEF HandledInv, Inv, TypeOK
<1>4. ASSUME NEW b \in Act \ {a}
      PROVE  Handled(b)'
  <2>1. UNCHANGED <<actionState[b], result[b], step>>
    BY <1>2, <1>4 DEF HandledInv, Inv, TypeOK
  <2> QED
    BY <1>2, <2>1, StillHandled DEF HandledInv
<1> QED
  BY <1>3, <1>4 DEF Handled

LEMMA LeaseHandles ==
  ASSUME HandledInv, Lease
  PROVE  \A b \in Act : Handled(b)'
<1>1. ASSUME NEW b \in Act, b # lastSeq
      PROVE  Handled(b)'
  <2>1. UNCHANGED <<actionState[b], result[b], step>> /\ cpu = "lease"
    BY <1>1 DEF Lease, HandledInv, Inv, TypeOK
  <2> QED
    BY <2>1, StillHandled DEF HandledInv
<1>2. ASSUME NEW b \in Act, b = lastSeq
      PROVE  Handled(b)'
  <2>1. outbox[b] = "QUEUED" /\ cpu' = "mark"
    BY <1>2 DEF Lease
  <2>2. actionState[b] = "QUEUED"
    BY <2>1, OpenState DEF HandledInv, Inv, InFlight
  <2>3. actionState'[b] = "LEASED"
    BY <1>2, <2>2 DEF Lease, HandledInv, Inv, TypeOK, Moved
  <2> QED
    BY <2>1, <2>3 DEF Handled
<1> QED
  BY <1>1, <1>2

LEMMA MarkHandles ==
  ASSUME HandledInv, MarkDispatching
  PROVE  \A b \in Act : Handled(b)'
<1>1. ASSUME NEW b \in Act, b # lastSeq
      PROVE  Handled(b)'
  <2>1. UNCHANGED <<actionState[b], result[b], step[b]>> /\ cpu = "mark"
    BY <1>1 DEF MarkDispatching, HandledInv, Inv, TypeOK
  <2>2. actionState[b] # "LEASED"
    BY <1>1 DEF HandledInv, Inv, Sequence, InFlight
  <2> QED
    BY <2>1, <2>2, StillHandled DEF HandledInv
<1>2. ASSUME NEW b \in Act, b = lastSeq
      PROVE  Handled(b)'
  <2>1. outbox[b] = "LEASED" /\ result' = result
    BY <1>2 DEF MarkDispatching
  <2>2. actionState[b] = "LEASED"
    BY <2>1, OpenState DEF HandledInv, Inv, InFlight
  <2>3. actionState'[b] = "DISPATCHING"
    BY <1>2, <2>2 DEF MarkDispatching, HandledInv, Inv, TypeOK, Moved
  <2>4. \A s \in Serial : target[b][s] = TargetOf("LEASED", result[b][s])
    BY <2>2 DEF HandledInv, Inv, Rows, Story
  <2>5. \A s \in Serial : result[b][s] = "PENDING" => target[b][s] # "NONE"
    BY <2>4 DEF TargetOf
  <2>6. \A s \in Serial : step'[b][s] = IF target[b][s] = "NONE" THEN "none"
                                        ELSE FirstStep(command[b])
    BY <1>2 DEF MarkDispatching, HandledInv, Inv, TypeOK
  <2>7. FirstStep(command[b]) # "none"
    BY DEF FirstStep
  <2> QED
    BY <2>1, <2>3, <2>5, <2>6, <2>7 DEF Handled
<1> QED
  BY <1>1, <1>2

LEMMA DispatchHandles ==
  ASSUME HandledInv, NEW a \in Act, NEW s \in Serial, Continue(a, s) \/ Reject(a, s)
  PROVE  \A b \in Act : Handled(b)'
<1>1. step[a][s] # "none" /\ cpu \in {"idle", "reject"} /\ cpu' # "down"
  BY DEF Continue, Reject, ArmGranted, Post, Respond, AckReceived, Fail, BarrierCancelled, At
<1>2. \E point : Goto(a, s, point)
  BY DEF Continue, Reject, ArmGranted, Post, Respond, AckReceived, Fail, BarrierCancelled
<1>3. \/ UNCHANGED tables /\ step'[a][s] # "none"
      \/ \E answer \in Answer : CompleteTarget(a, s, answer)
  <2>1. step[a] \in [Serial -> Step] /\ step \in [Act -> [Serial -> Step]]
    BY DEF HandledInv, Inv, TypeOK
  <2>2. CASE ArmGranted(a, s) \/ Post(a, s)
    BY <2>1, <2>2 DEF ArmGranted, Post, Goto
  <2>3. CASE Respond(a, s)
    BY <2>1, <2>3 DEF Respond, Goto, Answer
  <2>4. CASE AckReceived(a, s) \/ BarrierCancelled(a, s) \/ Reject(a, s)
    BY <2>4 DEF AckReceived, BarrierCancelled, Reject, Answer
  <2>5. CASE Fail(a, s)
    BY <2>1, <2>5 DEF Fail, Goto, Answer
  <2> QED
    BY <2>2, <2>3, <2>4, <2>5 DEF Continue
<1>4. /\ \A b \in Act \ {a} : step'[b] = step[b]
      /\ \A t \in Serial \ {s} : step'[a][t] = step[a][t]
  BY <1>2 DEF Goto, HandledInv, Inv, TypeOK
<1>5. \A b \in Act : actionState[b] # "LEASED"
  BY <1>1 DEF HandledInv, Handled
<1>6. CASE UNCHANGED tables /\ step'[a][s] # "none"
  BY <1>1, <1>4, <1>5, <1>6, StillHandled DEF HandledInv, tables
<1>7. ASSUME NEW answer \in Answer, CompleteTarget(a, s, answer)
      PROVE  \A b \in Act : Handled(b)'
  <2>1. Owns(a, s) /\ actionState[a] = "DISPATCHING"
    BY <1>1, OwnedIsDispatching DEF HandledInv, Inv
  <2>2. /\ result' = [result EXCEPT ![a] = [result[a] EXCEPT ![s] = answer]]
        /\ \E state : actionState' \in {actionState, [actionState EXCEPT ![a] = state]}
    BY <1>7, <2>1 DEF CompleteTarget
  <2>3. \A b \in Act \ {a} : UNCHANGED <<actionState[b], result[b], step[b]>>
    BY <1>4, <2>2 DEF HandledInv, Inv, TypeOK
  <2>4. /\ result'[a][s] = answer
        /\ \A t \in Serial \ {s} : result'[a][t] = result[a][t]
    BY <2>2 DEF HandledInv, Inv, TypeOK
  <2>5. actionState'[a] # "LEASED"
    <3>1. VerdictOf([result[a] EXCEPT ![s] = answer]) \in Answer
      BY DEF VerdictOf, Answer
    <3>2. \/ actionState' = actionState
          \/ actionState' = [actionState EXCEPT ![a] = VerdictOf([result[a] EXCEPT ![s] = answer])]
      BY <1>7, <2>1 DEF CompleteTarget, Moved
    <3> QED
      BY <2>1, <3>1, <3>2 DEF HandledInv, Inv, TypeOK, Answer
  <2>6. Handled(a)'
    BY <1>1, <1>4, <2>1, <2>4, <2>5 DEF HandledInv, Handled, Answer
  <2> QED
    BY <1>1, <1>5, <2>3, <2>6, StillHandled DEF HandledInv
<1> QED
  BY <1>3, <1>6, <1>7

LEMMA WithdrawalHandles ==
  ASSUME HandledInv, NEW handler \in {"pause", "complete"}, CancelQueuedForRun(handler)
  PROVE  \A b \in Act : Handled(b)'
<1> SUFFICES ASSUME NEW b \in Act
             PROVE  Handled(b)'
  OBVIOUS
<1>1. cpu = "idle" /\ step' = step
  BY DEF CancelQueuedForRun
<1>2. CASE b \notin Withdrawn
  BY <1>1, <1>2, StillHandled DEF HandledInv, CancelQueuedForRun
<1>3. CASE b \in Withdrawn
  <2>1. actionState[b] = outbox[b] /\ outbox[b] \in {"QUEUED", "LEASED"}
    BY <1>3, OpenState DEF HandledInv, Inv, Withdrawn, InFlight
  <2>2. actionState'[b] = "CANCELLED"
    BY <1>3, <2>1 DEF CancelQueuedForRun, Moved
  <2> QED
    BY <2>2 DEF Handled
<1> QED
  BY <1>2, <1>3

LEMMA ReconciliationHandles ==
  ASSUME HandledInv, ReconcileAfterRestart
  PROVE  \A b \in Act : Handled(b)'
<1> SUFFICES ASSUME NEW b \in Act
             PROVE  Handled(b)'
  OBVIOUS
<1>1. CASE b \in Unfinished
  <2>1. actionState'[b] \in {"CANCELLED", "UNKNOWN"}
    BY <1>1 DEF ReconcileAfterRestart, ReconciledTo
  <2> QED
    BY <2>1 DEF Handled
<1>2. CASE b \notin Unfinished
  <2>1. actionState'[b] = actionState[b] /\ outbox[b] \notin InFlight
    BY <1>2 DEF ReconcileAfterRestart, Unfinished
  <2>2. actionState[b] \notin InFlight
    BY <2>1, OutboxStates DEF HandledInv, Inv, Rows, Story, TypeOK, InFlight
  <2> QED
    BY <2>1, <2>2 DEF Handled, InFlight
<1> QED
  BY <1>1, <1>2

LEMMA HandledStep ==
  ASSUME Reconciles, HandledInv, [Next]_vars
  PROVE  HandledInv'
<1>1. Inv'
  BY InvStep DEF HandledInv
<1>2. \A b \in Act : Handled(b)'
  <2>1. CASE Operator
    <3>1. ASSUME NEW a, NEW k, Skip(a, k)
          PROVE  \A b \in Act : Handled(b)'
      BY <3>1, StillHandled DEF Skip, HandledInv
    <3> QED
      BY <2>1, <3>1, CreateHandles, WithdrawalHandles DEF Operator, Submit, Retry
  <2>2. CASE Section
    <3>1. CASE CommitPause \/ CommitComplete
      <4>1. /\ cpu \in {"pause", "complete"}
            /\ UNCHANGED <<tables, step>>
        BY <3>1 DEF CommitPause, CommitComplete
      <4>2. \A b \in Act : actionState[b] # "LEASED"
        BY <4>1 DEF HandledInv, Handled
      <4> QED
        BY <4>1, <4>2, StillHandled DEF HandledInv, tables
    <3> QED
      BY <2>2, <3>1, LeaseHandles, MarkHandles, DispatchHandles DEF Section
  <2>3. CASE RunMoves \/ UNCHANGED vars
    <3>1. UNCHANGED <<tables, step, cpu>>
      BY <2>3 DEF RunMoves, vars
    <3> QED
      BY <3>1 DEF HandledInv, Handled, tables
  <2>4. ASSUME NEW a \in Act, Verify(a)
        PROVE  \A b \in Act : Handled(b)'
    <3>1. PICK point \in {"arm", "reject"} :
            step' = [step EXCEPT ![a] = MovedRow(@, {"verify"}, point)]
      BY <2>4 DEF Verify, VerifyPasses, VerifyFails
    <3>2. \A b \in Act, s \in Serial : step[b][s] # "none" => step'[b][s] # "none"
      BY <3>1 DEF HandledInv, Inv, TypeOK, MovedRow, Moved
    <3>3. UNCHANGED tables /\ cpu = "idle"
      BY <2>4 DEF Verify, VerifyPasses, VerifyFails
    <3> QED
      BY <3>2, <3>3, StillHandled DEF HandledInv, tables
  <2>5. ASSUME NEW a \in Act, NEW s \in Serial, Perform(a, s)
        PROVE  \A b \in Act : Handled(b)'
    BY <2>5 DEF Perform, HandledInv, Handled, tables
  <2>6. CASE Crash
    BY <2>6 DEF Crash, Handled
  <2>7. CASE Restart
    BY <2>7, ReconciliationHandles DEF Restart
  <2> QED
    BY <2>1, <2>2, <2>3, <2>4, <2>5, <2>6, <2>7, DispatchHandles DEF Next
<1> QED
  BY <1>1, <1>2 DEF HandledInv

(* A server that reconciles at startup (reconcileAfterRestart) leaves no   *)
(* action leased or dispatching that nobody works on, and what it withdrew *)
(* was never sent.                                                         *)
THEOREM NothingAbandoned ==
  ASSUME Reconciles
  PROVE  Spec => []ReconciledIsTrue
<1>1. Init => HandledInv
  BY InitInv DEF Init, HandledInv, Handled
<1>2. HandledInv /\ [Next]_vars => HandledInv'
  BY HandledStep
<1>3. HandledInv => ReconciledIsTrue
  <2> SUFFICES ASSUME HandledInv
               PROVE  ReconciledIsTrue
    OBVIOUS
  <2>1. CancelledNeverSent
    BY DEF HandledInv, Inv, Rows, Sends, CancelledNeverSent
  <2>2. ASSUME cpu = "idle", NEW a \in Act, actionState[a] \in {"LEASED", "DISPATCHING"}
        PROVE  \E s \in Serial : step[a][s] # "none"
    <3>1. actionState[a] = "DISPATCHING"
      BY <2>2 DEF HandledInv, Handled
    <3>2. \E s \in Serial : result[a][s] = "PENDING"
      BY <3>1 DEF HandledInv, Inv, Rows, Story, InFlight
    <3> QED
      BY <2>2, <3>1, <3>2 DEF HandledInv, Handled
  <2>3. NoAbandonedLease
    BY <2>2 DEF NoAbandonedLease
  <2> QED
    BY <2>1, <2>3 DEF ReconciledIsTrue
<1> QED
  BY <1>1, <1>2, <1>3, PTL DEF Spec
-----------------------------------------------------------------------------
(* ActionOutbox implements ActionLedger, and what follows for its steps.   *)

\* An action as the ledger sees it.
Ruling(a) == IF actionState[a] \in InFlight THEN "OPEN" ELSE actionState[a]

LedgerView == <<lastSeq, [a \in Act |-> Ruling(a)], result, performed>>

LedgerStep == Ledger!LedgerNext \/ UNCHANGED LedgerView

(* The steps the ledger does not see.                                      *)
LEMMA HiddenStep ==
  ASSUME lastSeq' = lastSeq, result' = result, performed' = performed,
         \A a \in Act : Ruling(a)' = Ruling(a)
  PROVE  LedgerStep
BY DEF LedgerStep, LedgerView

LEMMA CreateOpens ==
  ASSUME Inv, NEW q, NEW c, NEW p, Create(q, c, p)
  PROVE  LedgerStep
<1>1. lastSeq' = lastSeq + 1 /\ lastSeq + 1 \in Act /\ UNCHANGED performed
  BY DEF Create, devices
<1>2. PICK members \in SUBSET Serial : members = Active
  BY DEF Active
<1>3. members # {}
  BY <1>2 DEF Create
<1>4. \A b \in Act : [a \in Act |-> Ruling(a)][b] # "OPEN"
  BY DEF Create, NothingInFlight, Ruling, Inv, TypeOK, Final
<1>5. [a \in Act |-> Ruling(a)]' = [[a \in Act |-> Ruling(a)] EXCEPT ![lastSeq + 1] = "OPEN"]
  <2>1. actionState' = [actionState EXCEPT ![lastSeq + 1] = "QUEUED"]
    BY DEF Create
  <2>2. \A a \in Act : Ruling(a)' = IF a = lastSeq + 1 THEN "OPEN" ELSE Ruling(a)
    BY <2>1 DEF Ruling, Inv, TypeOK, InFlight
  <2> QED
    BY <2>2
<1>6. result' = [result EXCEPT ![lastSeq + 1] =
                   [s \in Serial |-> IF s \in members THEN "PENDING" ELSE "NONE"]]
  BY <1>2 DEF Create
<1>7. Ledger!Open(members)
  BY <1>1, <1>3, <1>4, <1>5, <1>6, Zenon DEF Ledger!Open, Ruling
<1> QED
  BY <1>7, Zenon DEF LedgerStep, Ledger!LedgerNext

LEMMA AnswerSettles ==
  ASSUME Inv, NEW a \in Act, NEW s \in Serial, NEW answer \in Answer,
         step[a][s] # "none",
         answer = "SUCCEEDED" => performed[a][s] = 1,
         CompleteTarget(a, s, answer), UNCHANGED devices
  PROVE  LedgerStep
<1> DEFINE results == [result[a] EXCEPT ![s] = answer]
           last == AllAnswered(results)
           row == [t \in Serial |-> IF t \in {s} THEN answer ELSE result[a][t]]
           closing == Ledger!VerdictOf(row)
<1>1. Owns(a, s) /\ actionState[a] = "DISPATCHING"
  BY OwnedIsDispatching DEF Inv
<1>2. results = row
  BY DEF Inv, TypeOK
<1>3. closing = VerdictOf(results) /\ closing \in Answer
  BY <1>2 DEF VerdictOf, Ledger!VerdictOf, Answer
<1>4. /\ result' = [result EXCEPT ![a] = row]
      /\ actionState' = IF last THEN [actionState EXCEPT ![a] = closing] ELSE actionState
      /\ lastSeq' = lastSeq /\ performed' = performed
  BY <1>1, <1>2, <1>3 DEF CompleteTarget, Moved, devices
<1>5. last <=> ~ \E t \in Serial : row[t] = "PENDING"
  BY <1>2 DEF AllAnswered
<1>6. [b \in Act |-> Ruling(b)][a] = "OPEN" /\ result[a][s] = "PENDING"
  BY <1>1 DEF Ruling, InFlight, Owns
<1>7. [b \in Act |-> Ruling(b)]' = IF \E t \in Serial : row[t] = "PENDING"
                                  THEN [b \in Act |-> Ruling(b)]
                                  ELSE [[b \in Act |-> Ruling(b)] EXCEPT ![a] = closing]
  <2>1. CASE ~ last
    BY <1>4, <1>5, <2>1 DEF Ruling
  <2>2. CASE last
    <3>1. \A b \in Act : Ruling(b)' = IF b = a THEN closing ELSE Ruling(b)
      BY <1>3, <1>4, <2>2 DEF Ruling, Inv, TypeOK, InFlight, Answer
    <3> HIDE DEF closing
    <3>2. [b \in Act |-> Ruling(b)]' = [[b \in Act |-> Ruling(b)] EXCEPT ![a] = closing]
      BY <3>1
    <3> QED
      BY <1>5, <2>2, <3>2
  <2> QED
    BY <2>1, <2>2
<1>8. Ledger!Settle(a, {s}, answer)
  <2>1. \A t \in {s} : result[a][t] = "PENDING"
    BY <1>6
  <2>2. answer = "SUCCEEDED" => \A t \in {s} : performed[a][t] = 1
    OBVIOUS
  <2>3. {s} # {}
    OBVIOUS
  <2> QED
    BY <1>4, <1>6, <1>7, <2>1, <2>2, <2>3, Zenon DEF Ledger!Settle, Ruling
<1> QED
  BY <1>8, Zenon DEF LedgerStep, Ledger!LedgerNext, Answer

LEMMA CloseAbandons ==
  ASSUME Inv, TypeOK', NEW a \in Act, outbox[a] \in InFlight, NEW how \in {"CANCELLED", "UNKNOWN"},
         how = "CANCELLED" => outbox[a] \in {"QUEUED", "LEASED"},
         actionState'[a] = how, result'[a] = MovedRow(result[a], {"PENDING"}, how),
         UNCHANGED <<lastSeq, performed>>,
         \A b \in Act \ {a} : UNCHANGED <<actionState[b], result[b]>>
  PROVE  LedgerStep
<1>1. actionState[a] = outbox[a]
  BY OpenState DEF Inv
<1>2. [b \in Act |-> Ruling(b)][a] = "OPEN"
  BY <1>1 DEF Ruling
<1>3. how = "CANCELLED" => \A s \in Serial : performed[a][s] = 0
  <2>1. Sends(a) /\ \A s \in Serial : performed[a][s] \in Nat /\ sent[a][s] \in Nat
    BY DEF Inv, Rows, TypeOK
  <2> QED
    BY <1>1, <2>1 DEF Sends
<1>4. [b \in Act |-> Ruling(b)]' = [[b \in Act |-> Ruling(b)] EXCEPT ![a] = how]
  <2>1. \A b \in Act : Ruling(b)' = IF b = a THEN how ELSE Ruling(b)
    BY DEF Ruling, InFlight
  <2> QED
    BY <2>1
<1>5. result' = [result EXCEPT ![a] =
                   [s \in Serial |-> IF result[a][s] = "PENDING" THEN how ELSE result[a][s]]]
  <2>1. result'[a] = [s \in Serial |-> IF result[a][s] = "PENDING" THEN how ELSE result[a][s]]
    BY DEF MovedRow, Moved
  <2>2. result \in [Act -> [Serial -> {"NONE", "PENDING"} \cup Final]]
        /\ result' \in [Act -> [Serial -> {"NONE", "PENDING"} \cup Final]]
    BY DEF Inv, TypeOK
  <2> QED
    BY <2>1, <2>2
<1>6. Ledger!Abandon(a, how)
  BY <1>2, <1>3, <1>4, <1>5, Zenon DEF Ledger!Abandon, Ruling
<1> QED
  BY <1>6, Zenon DEF LedgerStep, Ledger!LedgerNext

(* pause, complete and the reconciliation close at most one action.        *)
LEMMA OneToClose ==
  ASSUME Inv, NEW a \in Act, NEW b \in Act, outbox[a] \in InFlight, outbox[b] \in InFlight
  PROVE  a = b
<1>1. actionState[a] \in InFlight /\ actionState[b] \in InFlight
  BY OpenState DEF Inv
<1> QED
  BY <1>1 DEF Inv, Sequence

LEMMA WithdrawalAbandons ==
  ASSUME Inv, TypeOK', NEW handler, CancelQueuedForRun(handler)
  PROVE  LedgerStep
<1>1. \A b \in Act : /\ b \notin Withdrawn => UNCHANGED <<actionState[b], result[b]>>
                     /\ b \in Withdrawn <=> outbox[b] \in {"QUEUED", "LEASED"}
  BY DEF CancelQueuedForRun, Withdrawn
<1>2. UNCHANGED <<lastSeq, performed>>
  BY DEF CancelQueuedForRun, devices
<1>3. CASE Withdrawn = {}
  <2>1. result' = result
    BY <1>1, <1>3 DEF Inv, TypeOK
  <2>2. \A b \in Act : Ruling(b)' = Ruling(b)
    BY <1>1, <1>3 DEF Ruling
  <2> QED
    BY <1>2, <2>1, <2>2, HiddenStep
<1>4. ASSUME NEW a \in Act, a \in Withdrawn
      PROVE  LedgerStep
  <2>1. outbox[a] \in {"QUEUED", "LEASED"} /\ actionState[a] = outbox[a]
    BY <1>1, <1>4, OpenState DEF Inv, InFlight
  <2>2. \A b \in Act \ {a} : b \notin Withdrawn
    BY <1>1, <2>1, OneToClose DEF InFlight
  <2>3. actionState'[a] = "CANCELLED" /\ result'[a] = MovedRow(result[a], {"PENDING"}, "CANCELLED")
    BY <1>4, <2>1 DEF CancelQueuedForRun, Moved
  <2> QED
    BY <1>1, <1>2, <2>1, <2>2, <2>3, CloseAbandons DEF InFlight
<1> QED
  BY <1>3, <1>4 DEF Withdrawn

LEMMA ReconciliationAbandons ==
  ASSUME Inv, TypeOK', ReconcileAfterRestart, UNCHANGED devices
  PROVE  LedgerStep
<1>1. \A b \in Act : /\ b \notin Unfinished => UNCHANGED <<actionState[b], result[b]>>
                     /\ b \in Unfinished <=> outbox[b] \in InFlight
  BY DEF ReconcileAfterRestart, Unfinished
<1>2. UNCHANGED <<lastSeq, performed>>
  BY DEF ReconcileAfterRestart, devices
<1>3. CASE Unfinished = {}
  <2>1. result' = result
    BY <1>1, <1>3 DEF Inv, TypeOK
  <2>2. \A b \in Act : Ruling(b)' = Ruling(b)
    BY <1>1, <1>3 DEF Ruling
  <2> QED
    BY <1>2, <2>1, <2>2, HiddenStep
<1>4. ASSUME NEW a \in Act, a \in Unfinished
      PROVE  LedgerStep
  <2>1. \A b \in Act \ {a} : b \notin Unfinished
    BY <1>1, <1>4, OneToClose
  <2>2. PICK how \in {"CANCELLED", "UNKNOWN"} :
          how = ReconciledTo(a) /\ (how = "CANCELLED" => outbox[a] = "QUEUED")
    BY DEF ReconciledTo
  <2>3. actionState'[a] = how /\ result'[a] = MovedRow(result[a], {"PENDING"}, how)
    BY <1>4, <2>2 DEF ReconcileAfterRestart
  <2> QED
    BY <1>1, <1>2, <1>4, <2>1, <2>2, <2>3, CloseAbandons
<1> QED
  BY <1>3, <1>4 DEF Unfinished

LEMMA PerformApplies ==
  ASSUME Inv, NEW a \in Act, NEW s \in Serial, Perform(a, s)
  PROVE  LedgerStep
<1>1. /\ performed[a][s] < sent[a][s] /\ performed' = [performed EXCEPT ![a][s] = @ + 1]
      /\ UNCHANGED <<lastSeq, actionState, result>>
  BY DEF Perform, tables
<1>2. /\ Sends(a) /\ performed[a][s] \in Nat /\ sent[a][s] \in Nat
      /\ result[a][s] \in {"NONE", "PENDING"} \cup Final
  BY DEF Inv, Rows, TypeOK
<1>3. performed[a][s] = 0 /\ sent[a][s] = 1
  BY <1>1, <1>2 DEF Sends
<1>4. result[a][s] \in {"PENDING", "FAILED", "UNKNOWN"}
  BY <1>2, <1>3 DEF Sends, Final
<1>5. performed' = [performed EXCEPT ![a][s] = 1]
  BY <1>1, <1>3 DEF Inv, TypeOK
<1>6. Ledger!Apply(a, s)
  BY <1>1, <1>3, <1>4, <1>5, Zenon DEF Ledger!Apply
<1> QED
  BY <1>6, Zenon DEF LedgerStep, Ledger!LedgerNext

(* The lease, the marking, the awaits and the run's own steps.             *)
LEMMA LeaseIsHidden ==
  ASSUME Inv, Lease \/ MarkDispatching
  PROVE  LedgerStep
<1>1. UNCHANGED <<lastSeq, result, performed>>
  BY DEF Lease, MarkDispatching, devices
<1>2. PICK from \in InFlight, to \in InFlight :
        actionState' = [actionState EXCEPT ![lastSeq] = Moved(@, {from}, to)]
  BY DEF Lease, MarkDispatching, InFlight
<1>3. ASSUME NEW b \in Act
      PROVE  Ruling(b)' = Ruling(b)
  BY <1>2 DEF Inv, TypeOK, Ruling, Moved
<1> QED
  BY <1>1, <1>3, HiddenStep

LEMMA AtRestIsHidden ==
  ASSUME UNCHANGED tables, performed' = performed
  PROVE  LedgerStep
BY HiddenStep DEF tables, Ruling

LEMMA DispatchSettles ==
  ASSUME Inv, NEW a \in Act, NEW s \in Serial, Continue(a, s) \/ Reject(a, s)
  PROVE  LedgerStep
<1>1. UNCHANGED performed
  BY DEF Continue, ArmGranted, Post, Respond, AckReceived, Fail, BarrierCancelled, Reject, devices
<1>2. CASE UNCHANGED tables
  BY <1>1, <1>2, AtRestIsHidden
<1>3. CASE ArmGranted(a, s) \/ Post(a, s)
  BY <1>2, <1>3 DEF ArmGranted, Post
<1>4. CASE Respond(a, s) \/ AckReceived(a, s)
  <2>1. UNCHANGED devices /\ step[a][s] # "none"
    BY <1>4 DEF Respond, AckReceived, At
  <2>2. performed[a][s] = 1
    <3>1. Sends(a)
      BY DEF Inv, Rows
    <3> QED
      BY <1>4, <3>1 DEF Respond, AckReceived, At, Sends
  <2>3. UNCHANGED tables \/ CompleteTarget(a, s, "SUCCEEDED")
    BY <1>4 DEF Respond, AckReceived
  <2> QED
    BY <1>2, <2>1, <2>2, <2>3, AnswerSettles DEF Answer
<1>5. CASE Fail(a, s) \/ BarrierCancelled(a, s) \/ Reject(a, s)
  <2>1. UNCHANGED devices /\ step[a][s] # "none"
    BY <1>5 DEF Fail, BarrierCancelled, Reject, At
  <2>2. UNCHANGED tables \/ CompleteTarget(a, s, "FAILED")
    BY <1>5 DEF Fail, BarrierCancelled, Reject
  <2> QED
    BY <1>2, <2>1, <2>2, AnswerSettles DEF Answer
<1> QED
  BY <1>3, <1>4, <1>5 DEF Continue

LEMMA EveryStepIsALedgerStep ==
  ASSUME Inv, [Next]_vars
  PROVE  LedgerStep
<1>1. TypeOK'
  BY TypeStep DEF Inv
<1>2. CASE Operator
  <2>1. ASSUME NEW a, NEW k, Skip(a, k)
        PROVE  LedgerStep
    BY <2>1, HiddenStep DEF Skip, Ruling, devices
  <2> QED
    BY <1>1, <1>2, <2>1, CreateOpens, WithdrawalAbandons DEF Operator, Submit, Retry
<1>3. CASE Section
  <2>1. CASE CommitPause \/ CommitComplete
    BY <2>1, AtRestIsHidden DEF CommitPause, CommitComplete, devices
  <2> QED
    BY <1>3, <2>1, LeaseIsHidden, DispatchSettles DEF Section
<1>4. CASE RunMoves \/ Crash \/ UNCHANGED vars
  BY <1>4, AtRestIsHidden DEF RunMoves, Crash, vars, devices
<1>5. ASSUME NEW a \in Act, Verify(a)
      PROVE  LedgerStep
  BY <1>5, AtRestIsHidden DEF Verify, VerifyPasses, VerifyFails, devices
<1>6. CASE Restart
  <2>1. UNCHANGED devices /\ (UNCHANGED tables \/ ReconcileAfterRestart)
    BY <1>6 DEF Restart
  <2> QED
    BY <1>1, <2>1, AtRestIsHidden, ReconciliationAbandons DEF devices
<1> QED
  BY <1>2, <1>3, <1>4, <1>5, <1>6, DispatchSettles, PerformApplies DEF Next
-----------------------------------------------------------------------------
(* The whole pipeline - tables, dispatcher, barriers, withdrawals, crashes *)
(* and reconciliation - behaves as one ledger that opens actions in        *)
(* sequence and closes each once (run-repository.ts, action-outbox.ts,     *)
(* action-dispatcher.ts).                                                  *)
THEOREM Refinement == Spec => KeepsTheLedger
<1>1. Init => Ledger!LedgerInit
  BY DEF Init, Blank, InFlight, Ledger!LedgerInit
<1>2. Inv /\ [Next]_vars => [Ledger!LedgerNext]_Ledger!ledgerVars
  BY EveryStepIsALedgerStep DEF LedgerStep, LedgerView, Ruling, Ledger!ledgerVars
<1> QED
  BY <1>1, <1>2, InvAlways, PTL DEF Spec, KeepsTheLedger, Ledger!LedgerSpec

(* Answers and verdicts are written once.                                  *)
LEMMA FinalStep ==
  ASSUME Inv, [Next]_vars, NEW a \in Act
  PROVE  /\ actionState[a] \in Final => actionState'[a] = actionState[a]
         /\ \A s \in Serial : result[a][s] \in Final => result'[a][s] = result[a][s]
<1>1. TypeOK'
  BY TypeStep DEF Inv
<1>2. ASSUME Ruling(a)' = Ruling(a), result'[a] = result[a]
      PROVE  /\ actionState[a] \in Final => actionState'[a] = actionState[a]
             /\ \A s \in Serial : result[a][s] \in Final => result'[a][s] = result[a][s]
  BY <1>2 DEF Ruling, InFlight, Final
<1>3. CASE UNCHANGED LedgerView
  <2>1. Ruling(a) = [b \in Act |-> Ruling(b)][a] /\ Ruling(a)' = [b \in Act |-> Ruling(b)]'[a]
    OBVIOUS
  <2> QED
    BY <1>2, <1>3, <2>1 DEF LedgerView
<1>4. ASSUME NEW members, Ledger!Open(members)
      PROVE  /\ actionState[a] \in Final => actionState'[a] = actionState[a]
             /\ \A s \in Serial : result[a][s] \in Final => result'[a][s] = result[a][s]
  <2>1. /\ [b \in Act |-> Ruling(b)]' = [[b \in Act |-> Ruling(b)] EXCEPT ![lastSeq + 1] = "OPEN"]
        /\ result' = [result EXCEPT ![lastSeq + 1] =
                        [s \in Serial |-> IF s \in members THEN "PENDING" ELSE "NONE"]]
    BY <1>4, Zenon DEF Ledger!Open, Ruling
  <2>2. CASE a # lastSeq + 1
    <3>1. result'[a] = result[a]
      BY <2>1, <2>2 DEF Inv, TypeOK
    <3>2. [b \in Act |-> Ruling(b)]'[a] = [b \in Act |-> Ruling(b)][a]
      BY <2>1, <2>2
    <3> QED
      BY <1>2, <3>1, <3>2
  <2>3. CASE a = lastSeq + 1
    <3>1. actionState[a] = "NONE"
      BY <2>3, ActionOutboxAssumption DEF Inv, Sequence, TypeOK, Act
    <3>2. \A s \in Serial : result[a][s] = "NONE"
      BY <3>1, StoryOf DEF Inv, Rows
    <3> QED
      BY <3>1, <3>2 DEF Final
  <2> QED
    BY <2>2, <2>3
<1>5. ASSUME NEW b \in Act, NEW s \in Serial, Ledger!Apply(b, s)
      PROVE  /\ actionState[a] \in Final => actionState'[a] = actionState[a]
             /\ \A t \in Serial : result[a][t] \in Final => result'[a][t] = result[a][t]
  <2>1. [c \in Act |-> Ruling(c)]' = [c \in Act |-> Ruling(c)] /\ result' = result
    BY <1>5, Zenon DEF Ledger!Apply, Ruling
  <2>2. [c \in Act |-> Ruling(c)]'[a] = [c \in Act |-> Ruling(c)][a]
    BY <2>1
  <2> QED
    BY <1>2, <2>1, <2>2
<1>6. ASSUME NEW b \in Act, Ruling(b) = "OPEN",
             \A c \in Act \ {b} : Ruling(c)' = Ruling(c) /\ result'[c] = result[c],
             \A s \in Serial : result[b][s] # "PENDING" => result'[b][s] = result[b][s]
      PROVE  /\ actionState[a] \in Final => actionState'[a] = actionState[a]
             /\ \A s \in Serial : result[a][s] \in Final => result'[a][s] = result[a][s]
  <2>1. CASE a # b
    BY <1>2, <1>6, <2>1
  <2>2. CASE a = b
    <3>1. actionState[a] \notin Final
      BY <1>6, <2>2 DEF Ruling, Final, InFlight
    <3> QED
      BY <1>6, <2>2, <3>1 DEF Final
  <2> QED
    BY <2>1, <2>2
<1>7. ASSUME NEW b \in Act, NEW gone \in SUBSET Serial, NEW answer, Ledger!Settle(b, gone, answer)
      PROVE  /\ actionState[a] \in Final => actionState'[a] = actionState[a]
             /\ \A s \in Serial : result[a][s] \in Final => result'[a][s] = result[a][s]
  <2> DEFINE row == [s \in Serial |-> IF s \in gone THEN answer ELSE result[b][s]]
             closing == Ledger!VerdictOf(row)
  <2>1. /\ [c \in Act |-> Ruling(c)][b] = "OPEN"
        /\ \A s \in gone : result[b][s] = "PENDING"
        /\ result' = [result EXCEPT ![b] = row]
        /\ \/ [c \in Act |-> Ruling(c)]' = [c \in Act |-> Ruling(c)]
           \/ [c \in Act |-> Ruling(c)]' = [[c \in Act |-> Ruling(c)] EXCEPT ![b] = closing]
    BY <1>7, Zenon DEF Ledger!Settle, Ruling
  <2>2. \A s \in Serial : result[b][s] # "PENDING" => row[s] = result[b][s]
    BY <2>1
  <2> HIDE DEF row, closing
  <2>3. \A c \in Act \ {b} : [d \in Act |-> Ruling(d)]'[c] = [d \in Act |-> Ruling(d)][c]
    BY <2>1
  <2>4. \A c \in Act \ {b} : Ruling(c)' = Ruling(c) /\ result'[c] = result[c]
    BY <2>1, <2>3 DEF Inv, TypeOK
  <2>5. Ruling(b) = "OPEN" /\ result'[b] = row
    BY <2>1 DEF Inv, TypeOK
  <2> QED
    BY <1>6, <2>2, <2>4, <2>5
<1>8. ASSUME NEW b \in Act, NEW how, Ledger!Abandon(b, how)
      PROVE  /\ actionState[a] \in Final => actionState'[a] = actionState[a]
             /\ \A s \in Serial : result[a][s] \in Final => result'[a][s] = result[a][s]
  <2> DEFINE row == [s \in Serial |-> IF result[b][s] = "PENDING" THEN how ELSE result[b][s]]
  <2>1. /\ [c \in Act |-> Ruling(c)][b] = "OPEN"
        /\ result' = [result EXCEPT ![b] = row]
        /\ [c \in Act |-> Ruling(c)]' = [[c \in Act |-> Ruling(c)] EXCEPT ![b] = how]
    BY <1>8, Zenon DEF Ledger!Abandon, Ruling
  <2>2. \A s \in Serial : result[b][s] # "PENDING" => row[s] = result[b][s]
    OBVIOUS
  <2> HIDE DEF row
  <2>3. \A c \in Act \ {b} : [d \in Act |-> Ruling(d)]'[c] = [d \in Act |-> Ruling(d)][c]
    BY <2>1
  <2>4. \A c \in Act \ {b} : Ruling(c)' = Ruling(c) /\ result'[c] = result[c]
    BY <2>1, <2>3 DEF Inv, TypeOK
  <2>5. Ruling(b) = "OPEN" /\ result'[b] = row
    BY <2>1 DEF Inv, TypeOK
  <2> QED
    BY <1>6, <2>2, <2>4, <2>5
<1>9. CASE Ledger!LedgerNext
  BY <1>4, <1>5, <1>7, <1>8, <1>9 DEF Ledger!LedgerNext
<1> QED
  BY <1>3, <1>9, EveryStepIsALedgerStep DEF LedgerStep

(* No late answer, withdrawal or reconciliation rewrites a device's answer *)
(* or an action's verdict (the WHERE clauses of action-outbox.ts).         *)
THEOREM WriteOnce == Spec => AnswersAreFinal
<1>1. Inv /\ [Next]_vars =>
        [\A a \in Act :
           /\ actionState[a] \in Final => actionState'[a] = actionState[a]
           /\ \A s \in Serial : result[a][s] \in Final => result'[a][s] = result[a][s]]_vars
  BY FinalStep
<1> QED
  BY <1>1, InvAlways, PTL DEF Spec, AnswersAreFinal
-----------------------------------------------------------------------------
(* Only a dispatch in progress posts, and only the last action accepted is *)
(* ever in progress: gestures leave in action_seq order.                   *)
THEOREM InOrder == Spec => GesturesFollowSequence
<1>1. ASSUME Inv, Next, NEW a \in Act, sent'[a] # sent[a]
      PROVE  a = lastSeq
  <2>1. CASE \E b \in Act, s \in Serial : Post(b, s)
    <3>1. PICK b \in Act, s \in Serial : Post(b, s)
      BY <2>1
    <3>2. step[b][s] = "execute" /\ sent' = [sent EXCEPT ![b][s] = @ + 1]
      BY <3>1 DEF Post, At
    <3>3. b = a
      BY <1>1, <3>2 DEF Inv, TypeOK
    <3>4. actionState[a] = "DISPATCHING"
      BY <1>1, <3>2, <3>3, OwnedIsDispatching DEF Inv
    <3> QED
      BY <1>1, <3>4 DEF Inv, Sequence, InFlight
  <2>2. CASE Operator \/ Section \/ RunMoves \/ Crash \/ Restart
    BY <1>1, <2>2 DEF Operator, Section, RunMoves, Crash, Restart, Submit, Retry, Create, Skip,
                      CancelQueuedForRun, Lease, MarkDispatching, Reject, CommitPause,
                      CommitComplete, devices
  <2>3. CASE \E b \in Act : Verify(b)
    BY <1>1, <2>3 DEF Verify, VerifyPasses, VerifyFails, devices
  <2>4. CASE \E b \in Act, s \in Serial :
               \/ ArmGranted(b, s) \/ Respond(b, s) \/ AckReceived(b, s)
               \/ Fail(b, s) \/ BarrierCancelled(b, s) \/ Perform(b, s)
    BY <1>1, <2>4 DEF ArmGranted, Respond, AckReceived, Fail, BarrierCancelled, Perform, devices
  <2> QED
    BY <1>1, <2>1, <2>2, <2>3, <2>4 DEF Next, Continue
<1>2. Inv /\ [Next]_vars => [\A a \in Act : sent'[a] # sent[a] => a = lastSeq]_vars
  BY <1>1
<1> QED
  BY <1>2, InvAlways, PTL DEF Spec, GesturesFollowSequence

(* The columns of the actions row that only create writes.                 *)
LEMMA LineageIsWrittenOnce ==
  ASSUME [Next]_vars
  PROVE  \/ UNCHANGED <<lastSeq, command, parent>>
         \/ \E q \in Request, c \in Command : Create(q, c, 0)
         \/ \E a \in Act, q \in Request : Undecided(a) /\ Create(q, command[a], a)
<1>1. CASE Operator
  BY <1>1 DEF Operator, Submit, Retry, Skip, CancelQueuedForRun
<1>2. ASSUME NEW a, NEW s, NEW answer, CompleteTarget(a, s, answer)
      PROVE  UNCHANGED <<lastSeq, command, parent>>
  BY <1>2 DEF CompleteTarget, tables
<1>3. CASE Section
  BY <1>2, <1>3 DEF Section, Lease, MarkDispatching, Reject, CommitPause, CommitComplete, tables
<1>4. CASE RunMoves \/ Crash \/ UNCHANGED vars
  BY <1>4 DEF RunMoves, Crash, vars, tables
<1>5. CASE Restart
  BY <1>5 DEF Restart, ReconcileAfterRestart, tables
<1>6. CASE \E a \in Act : Verify(a)
  BY <1>6 DEF Verify, VerifyPasses, VerifyFails, tables
<1>7. CASE \E a \in Act, s \in Serial : Continue(a, s) \/ Perform(a, s)
  BY <1>2, <1>7 DEF Continue, ArmGranted, Post, Respond, AckReceived, Fail, BarrierCancelled,
                    Perform, tables
<1> QED
  BY <1>1, <1>3, <1>4, <1>5, <1>6, <1>7 DEF Next

(* A retry repeats an earlier action's command, and that action stays      *)
(* closed FAILED or UNKNOWN for ever after (run-repository.ts retry).      *)
THEOREM RetriesAreRetries == Spec => []RetryLineage
<1>1. Init => RetryLineage
  BY DEF Init, RetryLineage, Opened
<1>2. ASSUME Inv, RetryLineage, [Next]_vars
      PROVE  RetryLineage'
  <2>1. lastSeq \in Nat /\ Opened \subseteq Act /\ \A a \in Opened : a \in Nat /\ a <= lastSeq
    BY <1>2, ActionOutboxAssumption DEF Inv, TypeOK, Opened, Act
  <2>2. \A a \in Act : actionState[a] \in Final => actionState'[a] = actionState[a]
    BY <1>2, FinalStep
  <2>3. \A a \in Opened : parent[a] # 0 => parent[a] \in Opened
    BY <1>2, <2>1 DEF RetryLineage, Opened, Inv, TypeOK
  <2>4. CASE UNCHANGED <<lastSeq, command, parent>>
    BY <1>2, <2>1, <2>2, <2>3, <2>4 DEF RetryLineage, Opened, Final
  <2>5. ASSUME NEW q, NEW c, NEW p \in {0} \cup Opened, Create(q, c, p),
               p # 0 => actionState[p] \in {"FAILED", "UNKNOWN"} /\ c = command[p]
        PROVE  RetryLineage'
    <3>1. PICK a \in Act : a = lastSeq + 1
      BY <2>5 DEF Create
    <3>2. /\ lastSeq' = a
          /\ command' = [command EXCEPT ![a] = c]
          /\ parent' = [parent EXCEPT ![a] = p]
      BY <2>5, <3>1 DEF Create
    <3>3. /\ command'[a] = c /\ parent'[a] = p
          /\ \A b \in Opened : b # a /\ command'[b] = command[b] /\ parent'[b] = parent[b]
      BY <1>2, <2>1, <3>1, <3>2 DEF Inv, TypeOK
    <3>4. \A b \in Opened' : b = a \/ b \in Opened
      BY <2>1, <3>1, <3>2 DEF Opened
    <3>5. ASSUME NEW b \in Opened, parent'[b] # 0
          PROVE  /\ parent'[b] < b
                 /\ actionState'[parent'[b]] \in {"FAILED", "UNKNOWN"}
                 /\ command'[b] = command'[parent'[b]]
      BY <1>2, <2>1, <2>2, <2>3, <3>3, <3>5 DEF RetryLineage, Final
    <3>6. ASSUME p # 0
          PROVE  /\ p < a
                 /\ actionState'[p] \in {"FAILED", "UNKNOWN"}
                 /\ c = command'[p]
      BY <2>1, <2>2, <2>5, <3>1, <3>3, <3>6 DEF Final
    <3> QED
      BY <3>3, <3>4, <3>5, <3>6 DEF RetryLineage
  <2> QED
    BY <1>2, <2>4, <2>5, LineageIsWrittenOnce DEF Undecided
<1> QED
  BY <1>1, <1>2, InvAlways, PTL DEF Spec

(* The tables that record an action, its verdict and its lineage are       *)
(* coherent at every await (action-outbox.ts, run-repository.ts).          *)
THEOREM CoherentRecord == Spec => []RecordIsCoherent
BY TypeCorrect, OneStory, RetriesAreRetries, PTL DEF RecordIsCoherent
-----------------------------------------------------------------------------
(* Dispatching, failing, crashing and reconciling never move the run: it   *)
(* goes by the steps RunControl promises, pause and complete among them    *)
(* (action-outbox.ts, action-dispatcher.ts, session-runtime.ts).           *)
THEOREM ActionsKeepTheRunsWay == Spec => RunSpec
<1>1. Init => RunInit
  BY DEF Init
<1>2. [Next]_vars => [RunNext]_runVars
  <2> SUFFICES ASSUME [Next]_vars
               PROVE  RunNext \/ UNCHANGED runVars
    OBVIOUS
  <2>1. CASE Operator
    BY <2>1 DEF Operator, Submit, Retry, Create, Skip, CancelQueuedForRun
  <2>2. CASE CommitPause \/ CommitComplete \/ RunMoves
    BY <2>2 DEF CommitPause, CommitComplete, RunMoves, RunNext
  <2>3. CASE Lease \/ MarkDispatching \/ \E a \in Act, s \in Serial : Reject(a, s)
    BY <2>3 DEF Lease, MarkDispatching, Reject
  <2>4. CASE \E a \in Act : Verify(a)
    BY <2>4 DEF Verify, VerifyPasses, VerifyFails
  <2>5. CASE \E a \in Act, s \in Serial : Continue(a, s) \/ Perform(a, s)
    BY <2>5 DEF Continue, ArmGranted, Post, Respond, AckReceived, Fail, BarrierCancelled, Perform
  <2>6. CASE Crash \/ Restart \/ UNCHANGED vars
    BY <2>6 DEF Crash, Restart, vars
  <2> QED
    BY <2>1, <2>2, <2>3, <2>4, <2>5, <2>6 DEF Next, Section
<1> QED
  BY <1>1, <1>2, PTL DEF Spec, RunSpec
=============================================================================
