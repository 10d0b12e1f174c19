---------------------------- MODULE ActionLedger ----------------------------
(***************************************************************************)
(* The promise of the action pipeline, without the pipeline: a ledger of   *)
(* group actions, opened one at a time in sequence order, that keeps one   *)
(* write-once outcome per selected device and closes with the verdict the  *)
(* outcomes justify.  A device applies a gesture at most once; it may do   *)
(* so after the host gave up on it (FAILED, UNKNOWN), never when the host  *)
(* says the action was withdrawn (CANCELLED), and always before the host   *)
(* says it SUCCEEDED.                                                      *)
(***************************************************************************)
EXTENDS Naturals

CONSTANTS Act,     \* the possible sequence numbers, 1..n
          Serial   \* the devices

VARIABLES opened,   \* how many actions have been opened
          verdict,  \* Act -> "NONE", "OPEN" or how the action closed
          outcome,  \* Act -> Serial -> what the ledger holds for the device
          applied   \* Act -> Serial -> gestures the device really performed

ledgerVars == <<opened, verdict, outcome, applied>>

LedgerInit ==
  /\ opened = 0
  /\ verdict = [a \in Act |-> "NONE"]
  /\ outcome = [a \in Act |-> [s \in Serial |-> "NONE"]]
  /\ applied = [a \in Act |-> [s \in Serial |-> 0]]

\* A new action names a nonempty snapshot of devices; no other one is open.
Open(members) ==
  LET a == opened + 1
  IN  /\ a \in Act
      /\ members # {}
      /\ \A b \in Act : verdict[b] # "OPEN"
      /\ opened' = a
      /\ verdict' = [verdict EXCEPT ![a] = "OPEN"]
      /\ outcome' = [outcome EXCEPT ![a] =
                       [s \in Serial |-> IF s \in members THEN "PENDING" ELSE "NONE"]]
      /\ UNCHANGED applied

Apply(a, s) ==
  /\ outcome[a][s] \in {"PENDING", "FAILED", "UNKNOWN"}
  /\ applied[a][s] = 0
  /\ applied' = [applied EXCEPT ![a][s] = 1]
  /\ UNCHANGED <<opened, verdict, outcome>>

\* The verdict of an action whose devices all have an answer.
VerdictOf(row) ==
  IF \E s \in Serial : row[s] = "FAILED" THEN "FAILED" ELSE "SUCCEEDED"

\* Some devices of an open action answer; with the last answer it closes.
Settle(a, devices, answer) ==
  LET row == [s \in Serial |-> IF s \in devices THEN answer ELSE outcome[a][s]]
  IN  /\ verdict[a] = "OPEN"
      /\ devices # {}
      /\ \A s \in devices : outcome[a][s] = "PENDING"
      /\ answer = "SUCCEEDED" => \A s \in devices : applied[a][s] = 1
      /\ outcome' = [outcome EXCEPT ![a] = row]
      /\ verdict' = IF \E s \in Serial : row[s] = "PENDING"
                    THEN verdict
                    ELSE [verdict EXCEPT ![a] = VerdictOf(row)]
      /\ UNCHANGED <<opened, applied>>

\* The host closes an open action without an answer: withdrawn before any
\* device applied it, or given up as unknown.
Abandon(a, how) ==
  /\ verdict[a] = "OPEN"
  /\ how = "CANCELLED" => \A s \in Serial : applied[a][s] = 0
  /\ verdict' = [verdict EXCEPT ![a] = how]
  /\ outcome' = [outcome EXCEPT ![a] =
                   [s \in Serial |-> IF outcome[a][s] = "PENDING" THEN how ELSE outcome[a][s]]]
  /\ UNCHANGED <<opened, applied>>

LedgerNext ==
  \/ \E members \in SUBSET Serial : Open(members)
  \/ \E a \in Act, s \in Serial : Apply(a, s)
  \/ \E a \in Act, devices \in SUBSET Serial, answer \in {"SUCCEEDED", "FAILED"} :
        Settle(a, devices, answer)
  \/ \E a \in Act, how \in {"CANCELLED", "UNKNOWN"} : Abandon(a, how)

LedgerSpec == LedgerInit /\ [][LedgerNext]_ledgerVars
=============================================================================
