----------------------------- MODULE HostProofs -----------------------------
(***************************************************************************)
(* Proofs about the components of MCHost: the import of packages, the      *)
(* registration of installed ones, one run of a tool, the self-check, the  *)
(* register of devices, the uids, and the deployments.                     *)
(*                                                                         *)
(* Each component is proved about by itself; at the end every step of the  *)
(* composition is shown to be a step of each component or to leave it as   *)
(* it is, so that what holds of a part holds of the whole.                 *)
(***************************************************************************)
EXTENDS MCHost, SequenceTheorems, FiniteSetTheorems, TLAPS

-----------------------------------------------------------------------------
(* Deployments.  First what does not depend on the state: the order of the *)
(* steps, and the rows of one target.                                      *)
LEMMA MinimalSet ==
  ASSUME NEW F, F # {}, \A T \in F : IsFiniteSet(T)
  PROVE  \E T \in F : \A U \in F : U \subseteq T => U = T
<1> DEFINE All == UNION F
<1>1. IsWellFoundedOn(StrictSubsetOrdering(All), FiniteSubsetsOf(All))
  BY FS_StrictSubsetOrderingWellFounded
<1>2. F \subseteq FiniteSubsetsOf(All)
  BY DEF FiniteSubsetsOf
<1>3. PICK T \in F : \A U \in F : <<U, T>> \notin StrictSubsetOrdering(All)
  BY <1>1, <1>2, WFMin
<1>4. ASSUME NEW U \in F, U \subseteq T  PROVE  U = T
  BY <1>3, <1>4 DEF StrictSubsetOrdering
<1> QED BY <1>3, <1>4

\* Of some places in a sequence, one is the last.
LEMMA LastPlace ==
  ASSUME NEW n \in Nat, NEW S \in SUBSET (1..n), S # {}
  PROVE  \E x \in S : \A y \in S : y <= x
<1> DEFINE F == {x..n : x \in S}
<1>1. F # {} /\ \A T \in F : IsFiniteSet(T)
  <2>1. \A x \in S : IsFiniteSet(x..n)
    BY FS_Interval
  <2> QED BY <2>1
<1>2. PICK T \in F : \A U \in F : U \subseteq T => U = T
  <2> HIDE DEF F
  <2> QED BY <1>1, MinimalSet
<1>3. PICK x \in S : T = x..n
  BY <1>2
<1>4. ASSUME NEW y \in S PROVE y <= x
  <2>1. y..n \in F /\ (y..n \subseteq x..n => y..n = x..n)
    BY <1>2, <1>3
  <2>2. x \in 1..n /\ y \in 1..n
    OBVIOUS
  <2>3. CASE x < y
    <3>1. y..n \subseteq x..n /\ x \in x..n /\ x \notin y..n
      BY <2>2, <2>3
    <3> QED BY <2>1, <3>1
  <2> QED BY <2>2, <2>3
<1> QED BY <1>4

LEMMA FiveSteps ==
  /\ Step = {"PRECHECK", "PREPARE", "INSTALL", "VERIFY", "LAUNCH"}
  /\ Position("none") = 0 /\ Position("PRECHECK") = 1 /\ Position("PREPARE") = 2
  /\ Position("INSTALL") = 3 /\ Position("VERIFY") = 4 /\ Position("LAUNCH") = 5
<1>1. DOMAIN StepOrder = 1..5 /\ Len(StepOrder) = 5
  BY DEF StepOrder
<1>2. /\ StepOrder[1] = "PRECHECK" /\ StepOrder[2] = "PREPARE" /\ StepOrder[3] = "INSTALL"
      /\ StepOrder[4] = "VERIFY" /\ StepOrder[5] = "LAUNCH"
  BY DEF StepOrder
<1>3. Step = {"PRECHECK", "PREPARE", "INSTALL", "VERIFY", "LAUNCH"}
  <2>1. Step = {StepOrder[i] : i \in 1..5}
    BY <1>1 DEF Step, ToSet
  <2>2. 1..5 = {1, 2, 3, 4, 5}
    OBVIOUS
  <2> QED BY <1>2, <2>1, <2>2
<1>4. \A i, j \in 1..5 : StepOrder[i] = StepOrder[j] => i = j
  BY <1>2
<1>5. \A i \in 1..5 : Position(StepOrder[i]) = i
  <2> SUFFICES ASSUME NEW i \in 1..5 PROVE Position(StepOrder[i]) = i
    OBVIOUS
  <2>1. StepOrder[i] # "none"
    BY <1>2
  <2>2. Position(StepOrder[i]) = CHOOSE j \in 1..5 : StepOrder[j] = StepOrder[i]
    BY <2>1 DEF Position
  <2>3. \E j \in 1..5 : StepOrder[j] = StepOrder[i]
    OBVIOUS
  <2>4. Position(StepOrder[i]) \in 1..5 /\ StepOrder[Position(StepOrder[i])] = StepOrder[i]
    BY <2>2, <2>3
  <2> QED BY <2>4, <1>4
<1>6. Position("none") = 0
  BY DEF Position
<1> QED BY <1>2, <1>3, <1>5, <1>6

Behind(step) == {k \in Step : Position(k) < Position(step)}
Early == {"PRECHECK", "PREPARE"}

LEMMA StepsBehind ==
  /\ Behind("PRECHECK") = {} /\ Behind("PREPARE") = {"PRECHECK"}
  /\ Behind("INSTALL") = {"PRECHECK", "PREPARE"}
  /\ Behind("VERIFY") = {"PRECHECK", "PREPARE", "INSTALL"}
  /\ Behind("LAUNCH") = {"PRECHECK", "PREPARE", "INSTALL", "VERIFY"}
  /\ Step = Behind("LAUNCH") \cup {"LAUNCH"}
BY FiveSteps DEF Behind

AttemptState == {"RUNNING", "SUCCEEDED", "FAILED", "CANCELLED"}
Has(rows, step, attempt) == \E i \in DOMAIN rows : rows[i].step = step /\ rows[i].attempt = attempt
Open(rows) == {i \in DOMAIN rows : rows[i].state = "RUNNING"}

LEMMA RowsAre ==
  ASSUME NEW rows \in Seq(StepRow)
  PROVE  /\ Len(rows) \in Nat /\ DOMAIN rows = 1..Len(rows)
         /\ \A i \in DOMAIN rows : /\ rows[i] \in StepRow /\ rows[i].step \in Step
                                   /\ rows[i].attempt \in 1..2 /\ rows[i].state \in AttemptState
<1>1. Len(rows) \in Nat /\ DOMAIN rows = 1..Len(rows) /\ rows \in [1..Len(rows) -> StepRow]
  BY LenProperties
<1>2. \A i \in DOMAIN rows : rows[i] \in StepRow
  BY <1>1
<1>3. \A r \in StepRow : r.step \in Step /\ r.attempt \in 1..2 /\ r.state \in AttemptState
  BY DEF StepRow, AttemptState
<1> QED BY <1>1, <1>2, <1>3

LEMMA LastInIs ==
  ASSUME NEW rows \in Seq(StepRow), NEW state
  PROVE  \/ /\ LastIn(rows, state) = "none"
            /\ \A i \in DOMAIN rows : rows[i].state # state
         \/ /\ LastIn(rows, state) \in Step /\ LastIn(rows, state) # "none"
            /\ \E i \in DOMAIN rows :
                 /\ rows[i].state = state /\ rows[i].step = LastIn(rows, state)
                 /\ \A j \in DOMAIN rows : rows[j].state = state => j <= i
<1> DEFINE found == {i \in DOMAIN rows : rows[i].state = state}
           last == CHOOSE i \in found : \A j \in found : j <= i
<1>1. Len(rows) \in Nat /\ DOMAIN rows = 1..Len(rows)
  BY RowsAre
<1>2. CASE found = {}
  BY <1>2 DEF LastIn
<1>3. CASE found # {}
  <2>1. LastIn(rows, state) = rows[last].step
    BY <1>3 DEF LastIn
  <2>2. \E i \in found : \A j \in found : j <= i
    <3>1. found \in SUBSET (1..Len(rows))
      BY <1>1
    <3> HIDE DEF found
    <3> QED BY <1>1, <1>3, <3>1, LastPlace
  <2>3. last \in found /\ \A j \in found : j <= last
    <3> HIDE DEF found
    <3> QED BY <2>2
  <2>4. rows[last].step \in Step /\ rows[last].step # "none"
    BY <2>3, RowsAre, FiveSteps
  <2> QED BY <2>1, <2>3, <2>4
<1> QED BY <1>2, <1>3

LEMMA OneMore ==
  ASSUME NEW rows \in Seq(StepRow), NEW r \in StepRow
  PROVE  /\ Append(rows, r) \in Seq(StepRow)
         /\ DOMAIN Append(rows, r) = 1..(Len(rows) + 1)
         /\ \A i \in DOMAIN rows : i \in DOMAIN Append(rows, r) /\ Append(rows, r)[i] = rows[i]
         /\ Append(rows, r)[Len(rows) + 1] = r
         /\ \A i \in DOMAIN Append(rows, r) : i \in DOMAIN rows \/ i = Len(rows) + 1
<1>1. Len(rows) \in Nat /\ DOMAIN rows = 1..Len(rows)
  BY RowsAre
<1>2. /\ Append(rows, r) \in Seq(StepRow) /\ Len(Append(rows, r)) = Len(rows) + 1
      /\ \A i \in 1..Len(rows) : Append(rows, r)[i] = rows[i]
      /\ Append(rows, r)[Len(rows) + 1] = r
  BY AppendProperties
<1>3. DOMAIN Append(rows, r) = 1..(Len(rows) + 1)
  BY <1>2, RowsAre
<1> QED BY <1>1, <1>2, <1>3

LEMMA ClosedIs ==
  ASSUME NEW rows \in Seq(StepRow), NEW which, NEW state \in AttemptState
  PROVE  /\ Closed(rows, which, state) \in Seq(StepRow)
         /\ DOMAIN Closed(rows, which, state) = DOMAIN rows
         /\ Len(Closed(rows, which, state)) = Len(rows)
         /\ \A i \in DOMAIN rows :
              /\ Closed(rows, which, state)[i].step = rows[i].step
              /\ Closed(rows, which, state)[i].attempt = rows[i].attempt
              /\ IF i \in which /\ rows[i].state = "RUNNING"
                 THEN Closed(rows, which, state)[i].state = state
                 ELSE Closed(rows, which, state)[i] = rows[i]
<1> DEFINE new == Closed(rows, which, state)
<1>1. Len(rows) \in Nat /\ DOMAIN rows = 1..Len(rows) /\ \A i \in DOMAIN rows : rows[i] \in StepRow
  BY RowsAre
<1>2. \A r \in StepRow : /\ [r EXCEPT !.state = state] \in StepRow
                         /\ [r EXCEPT !.state = state].step = r.step
                         /\ [r EXCEPT !.state = state].attempt = r.attempt
                         /\ [r EXCEPT !.state = state].state = state
  BY DEF StepRow, AttemptState
<1>3. DOMAIN new = DOMAIN rows
  BY DEF Closed
<1>4. \A i \in DOMAIN rows : new[i] = IF i \in which /\ rows[i].state = "RUNNING"
                                      THEN [rows[i] EXCEPT !.state = state] ELSE rows[i]
  BY DEF Closed
<1>5. \A i \in DOMAIN rows : new[i] \in StepRow
  BY <1>1, <1>2, <1>4
<1>6. new \in [1..Len(rows) -> StepRow]
  <2>1. new = [i \in 1..Len(rows) |-> new[i]]
    BY <1>1 DEF Closed
  <2> HIDE DEF new
  <2> QED BY <1>1, <1>5, <2>1
<1>7. new \in Seq(StepRow)
  <2> HIDE DEF new
  <2> QED BY <1>1, <1>6, SeqDef
<1>8. Len(new) = Len(rows)
  <2> HIDE DEF new
  <2>1. Len(new) \in Nat /\ 1..Len(new) = 1..Len(rows)
    BY <1>1, <1>3, <1>7, RowsAre
  <2> QED BY <1>1, <2>1
<1>9. ASSUME NEW i \in DOMAIN rows
      PROVE  /\ new[i].step = rows[i].step /\ new[i].attempt = rows[i].attempt
             /\ IF i \in which /\ rows[i].state = "RUNNING"
                THEN new[i].state = state ELSE new[i] = rows[i]
  <2>1. new[i] = IF i \in which /\ rows[i].state = "RUNNING"
                 THEN [rows[i] EXCEPT !.state = state] ELSE rows[i]
    BY <1>4
  <2> HIDE DEF new
  <2> QED BY <2>1, <1>1, <1>2
<1> QED BY <1>3, <1>7, <1>8, <1>9

(* Attempts at steps.  One row for each; a second attempt follows a failed *)
(* first; and the first attempt at a step that has one open comes after    *)
(* the attempts at the other steps.                                        *)
RowsAreSound(rows) ==
  /\ \A i, j \in DOMAIN rows :
       rows[i].step = rows[j].step /\ rows[i].attempt = rows[j].attempt => i = j
  /\ \A i \in DOMAIN rows : rows[i].state = "FAILED" => rows[i].attempt = 1
  /\ \A i \in DOMAIN rows : rows[i].attempt = 2 =>
       \E j \in DOMAIN rows : rows[j].step = rows[i].step /\ rows[j].state = "FAILED"
  /\ \A i \in Open(rows) :
       \E j \in DOMAIN rows :
         /\ rows[j].step = rows[i].step /\ rows[j].attempt = 1
         /\ rows[j].state \in {"RUNNING", "FAILED"}
         /\ \A l \in DOMAIN rows : rows[l].step # rows[i].step => l < j

OpenAt(rows, step) == \A i \in Open(rows) : rows[i].step = step

\* Its attempt is added to those of the step.
Added(rows, step, attempt) ==
  IF Has(rows, step, attempt) THEN rows
  ELSE Append(rows, [step |-> step, attempt |-> attempt, state |-> "RUNNING"])

ClosedOthers(rows, step) == Closed(rows, {i \in DOMAIN rows : rows[i].step # step}, "SUCCEEDED")

LEMMA EnteredIs ==
  ASSUME NEW rows \in Seq(StepRow), NEW step \in Step, NEW attempt
  PROVE  StepsEntered(rows, step, attempt) = Added(ClosedOthers(rows, step), step, attempt)
<1> DEFINE closed == ClosedOthers(rows, step)
<1>1. step # "none"
  BY FiveSteps
<1>2. "SUCCEEDED" \in AttemptState
  BY DEF AttemptState
<1>3. Has(closed, step, attempt) <=> Has(rows, step, attempt)
  <2>1. DOMAIN closed = DOMAIN rows
        /\ \A i \in DOMAIN rows : closed[i].step = rows[i].step /\ closed[i].attempt = rows[i].attempt
    BY <1>2, ClosedIs DEF ClosedOthers
  <2> HIDE DEF closed
  <2> QED BY <2>1 DEF Has
<1> QED BY <1>1, <1>3 DEF StepsEntered, Added, ClosedOthers, Has

LEMMA OthersClosed ==
  ASSUME NEW rows \in Seq(StepRow), NEW step, OpenAt(rows, step)
  PROVE  ClosedOthers(rows, step) = rows
<1> DEFINE closed == ClosedOthers(rows, step)
<1>1. "SUCCEEDED" \in AttemptState
  BY DEF AttemptState
<1>2. closed \in Seq(StepRow) /\ Len(closed) = Len(rows)
  BY <1>1, ClosedIs DEF ClosedOthers
<1>3. \A i \in DOMAIN rows : closed[i] = rows[i]
  <2>1. ASSUME NEW i \in DOMAIN rows
        PROVE  IF i \in {j \in DOMAIN rows : rows[j].step # step} /\ rows[i].state = "RUNNING"
               THEN TRUE ELSE closed[i] = rows[i]
    BY <1>1, ClosedIs DEF ClosedOthers
  <2> HIDE DEF closed
  <2> QED BY <2>1 DEF OpenAt, Open
<1>4. DOMAIN rows = 1..Len(rows)
  BY RowsAre
<1> HIDE DEF closed
<1>5. \A i \in 1..Len(closed) : closed[i] = rows[i]
  BY <1>2, <1>3, <1>4
<1>6. closed = rows
  BY <1>2, <1>5, SeqEqual, Zenon
<1> QED BY <1>6 DEF closed

LEMMA EnteredHere ==
  ASSUME NEW rows \in Seq(StepRow), NEW step \in Step, NEW attempt, OpenAt(rows, step)
  PROVE  StepsEntered(rows, step, attempt) = Added(rows, step, attempt)
BY EnteredIs, OthersClosed

IsAdded(new, rows, step, attempt) ==
  /\ new \in Seq(StepRow) /\ Has(new, step, attempt)
  /\ DOMAIN rows \subseteq DOMAIN new
  /\ \A i \in DOMAIN rows : new[i] = rows[i]
  /\ \A i \in DOMAIN new :
       \/ i \in DOMAIN rows
       \/ /\ ~Has(rows, step, attempt)
          /\ new[i].step = step /\ new[i].attempt = attempt /\ new[i].state = "RUNNING"
          /\ \A j \in DOMAIN new : j # i => j \in DOMAIN rows /\ j < i

LEMMA AddedIs ==
  ASSUME NEW rows \in Seq(StepRow), NEW step \in Step, NEW attempt \in 1..2
  PROVE  IsAdded(Added(rows, step, attempt), rows, step, attempt)
<1> DEFINE row_ == [step |-> step, attempt |-> attempt, state |-> "RUNNING"]
<1>1. CASE Has(rows, step, attempt)
  BY <1>1 DEF Added, IsAdded
<1>2. CASE ~Has(rows, step, attempt)
  <2> DEFINE new == Append(rows, row_)
  <2>1. row_ \in StepRow
    BY DEF StepRow
  <2>2. /\ new \in Seq(StepRow) /\ DOMAIN new = 1..(Len(rows) + 1)
        /\ \A i \in DOMAIN rows : i \in DOMAIN new /\ new[i] = rows[i]
        /\ new[Len(rows) + 1] = row_
        /\ \A i \in DOMAIN new : i \in DOMAIN rows \/ i = Len(rows) + 1
    <3> HIDE DEF row_
    <3> QED BY <2>1, OneMore
  <2>3. Len(rows) \in Nat /\ DOMAIN rows = 1..Len(rows)
    BY RowsAre
  <2>4. Added(rows, step, attempt) = new
    BY <1>2 DEF Added
  <2>5. row_.step = step /\ row_.attempt = attempt /\ row_.state = "RUNNING"
    OBVIOUS
  <2> HIDE DEF new, row_
  <2>6. Has(new, step, attempt)
    BY <2>2, <2>3, <2>5 DEF Has
  <2>7. \A j \in DOMAIN new : j # Len(rows) + 1 => j \in DOMAIN rows /\ j < Len(rows) + 1
    BY <2>2, <2>3
  <2> QED BY <1>2, <2>2, <2>4, <2>5, <2>6, <2>7 DEF IsAdded
<1> QED BY <1>1, <1>2

LEMMA AddedIsSound ==
  ASSUME NEW rows \in Seq(StepRow), NEW step \in Step, NEW attempt \in 1..2, NEW new,
         IsAdded(new, rows, step, attempt), RowsAreSound(rows), OpenAt(rows, step),
         \/ attempt = 1
         \/ Has(rows, step, attempt)
         \/ \E j \in DOMAIN rows :
              /\ rows[j].step = step /\ rows[j].attempt = 1 /\ rows[j].state = "FAILED"
              /\ \A l \in DOMAIN rows : rows[l].step # step => l < j
  PROVE  RowsAreSound(new) /\ OpenAt(new, step)
<1>1. OpenAt(new, step)
  BY DEF IsAdded, OpenAt, Open
<1>2. \A i, j \in DOMAIN new : new[i].step = new[j].step /\ new[i].attempt = new[j].attempt => i = j
  <2> SUFFICES ASSUME NEW i \in DOMAIN new, NEW j \in DOMAIN new, i # j,
                      new[i].step = new[j].step, new[i].attempt = new[j].attempt
               PROVE  FALSE
    OBVIOUS
  <2>1. CASE i \in DOMAIN rows /\ j \in DOMAIN rows
    BY <2>1 DEF IsAdded, RowsAreSound
  <2>2. CASE i \notin DOMAIN rows
    BY <2>2 DEF IsAdded, Has
  <2>3. CASE j \notin DOMAIN rows
    BY <2>3 DEF IsAdded, Has
  <2> QED BY <2>1, <2>2, <2>3
<1>3. \A i \in DOMAIN new : new[i].state = "FAILED" => new[i].attempt = 1
  BY DEF IsAdded, RowsAreSound
<1>4. \A i \in DOMAIN new : new[i].attempt = 2 =>
        \E j \in DOMAIN new : new[j].step = new[i].step /\ new[j].state = "FAILED"
  <2> SUFFICES ASSUME NEW i \in DOMAIN new, new[i].attempt = 2
               PROVE  \E j \in DOMAIN rows : rows[j].step = new[i].step /\ rows[j].state = "FAILED"
    BY DEF IsAdded
  <2>1. CASE i \in DOMAIN rows
    BY <2>1 DEF IsAdded, RowsAreSound
  <2>2. CASE i \notin DOMAIN rows
    BY <2>2 DEF IsAdded
  <2> QED BY <2>1, <2>2
<1>5. \A i \in Open(new) :
        \E j \in DOMAIN new :
          /\ new[j].step = new[i].step /\ new[j].attempt = 1
          /\ new[j].state \in {"RUNNING", "FAILED"}
          /\ \A l \in DOMAIN new : new[l].step # new[i].step => l < j
  <2> SUFFICES ASSUME NEW i \in Open(new)
               PROVE  \E j \in DOMAIN new :
                        /\ new[j].step = step /\ new[j].attempt = 1
                        /\ new[j].state \in {"RUNNING", "FAILED"}
                        /\ \A l \in DOMAIN new : new[l].step # step => l < j
    BY <1>1 DEF OpenAt
  <2>1. i \in DOMAIN new /\ new[i].state = "RUNNING"
    BY DEF Open
  <2>2. CASE i \in DOMAIN rows
    <3>1. i \in Open(rows) /\ rows[i].step = step
      BY <2>1, <2>2 DEF IsAdded, Open, OpenAt
    <3>2. PICK j \in DOMAIN rows :
            /\ rows[j].step = step /\ rows[j].attempt = 1
            /\ rows[j].state \in {"RUNNING", "FAILED"}
            /\ \A l \in DOMAIN rows : rows[l].step # step => l < j
      BY <3>1 DEF RowsAreSound
    <3> QED BY <3>2 DEF IsAdded
  <2>3. CASE i \notin DOMAIN rows /\ attempt = 1
    <3>1. /\ new[i].step = step /\ new[i].attempt = 1
          /\ \A l \in DOMAIN new : l # i => l < i
      BY <2>1, <2>3 DEF IsAdded
    <3>2. \A l \in DOMAIN new : new[l].step # step => l < i
      BY <3>1
    <3> QED BY <2>1, <3>1, <3>2
  <2>4. CASE i \notin DOMAIN rows /\ attempt # 1
    <3>1. ~Has(rows, step, attempt)
      BY <2>1, <2>4 DEF IsAdded
    <3>2. PICK j \in DOMAIN rows :
            /\ rows[j].step = step /\ rows[j].attempt = 1 /\ rows[j].state = "FAILED"
            /\ \A l \in DOMAIN rows : rows[l].step # step => l < j
      BY <3>1, <2>4
    <3>3. j \in DOMAIN new /\ new[j] = rows[j]
      BY <3>2 DEF IsAdded
    <3>4. ASSUME NEW l \in DOMAIN new, new[l].step # step PROVE l < j
      <4>1. l \in DOMAIN rows /\ new[l] = rows[l]
        BY <3>4 DEF IsAdded
      <4> QED BY <3>2, <3>4, <4>1
    <3> QED BY <3>2, <3>3, <3>4
  <2> QED BY <2>2, <2>3, <2>4
<1> QED BY <1>1, <1>2, <1>3, <1>4, <1>5 DEF RowsAreSound

\* What closing does to the rows, whichever of them it is asked for.
IsClosed(new, rows, which, state) ==
  /\ new \in Seq(StepRow) /\ DOMAIN new = DOMAIN rows
  /\ \A i \in DOMAIN rows :
       /\ new[i].step = rows[i].step /\ new[i].attempt = rows[i].attempt
       /\ i \in which /\ rows[i].state = "RUNNING" => new[i].state = state
       /\ ~ (i \in which /\ rows[i].state = "RUNNING") => new[i] = rows[i]

LEMMA ClosingIs ==
  ASSUME NEW rows \in Seq(StepRow), NEW which, NEW state \in AttemptState
  PROVE  IsClosed(Closed(rows, which, state), rows, which, state)
<1> DEFINE new == Closed(rows, which, state)
<1>1. /\ new \in Seq(StepRow) /\ DOMAIN new = DOMAIN rows
      /\ \A i \in DOMAIN rows :
           /\ new[i].step = rows[i].step /\ new[i].attempt = rows[i].attempt
           /\ IF i \in which /\ rows[i].state = "RUNNING"
              THEN new[i].state = state ELSE new[i] = rows[i]
  BY ClosedIs
<1> HIDE DEF new
<1>2. ASSUME NEW i \in DOMAIN rows
      PROVE  /\ i \in which /\ rows[i].state = "RUNNING" => new[i].state = state
             /\ ~ (i \in which /\ rows[i].state = "RUNNING") => new[i] = rows[i]
  BY <1>1
<1>3. IsClosed(new, rows, which, state)
  BY <1>1, <1>2 DEF IsClosed
<1> QED BY <1>3 DEF new

\* All open rows are closed.
LEMMA AllClosed ==
  ASSUME NEW rows \in Seq(StepRow), NEW which, NEW state \in {"SUCCEEDED", "CANCELLED"},
         NEW new, IsClosed(new, rows, which, state), RowsAreSound(rows),
         \A i \in Open(rows) : i \in which
  PROVE  RowsAreSound(new) /\ Open(new) = {}
<1>1. Open(new) = {}
  BY DEF IsClosed, Open
<1>2. \A i, j \in DOMAIN new : new[i].step = new[j].step /\ new[i].attempt = new[j].attempt => i = j
  BY DEF IsClosed, RowsAreSound
<1>3. \A i \in DOMAIN new : new[i].state = "FAILED" => new[i].attempt = 1 /\ rows[i].state = "FAILED"
  BY DEF IsClosed, RowsAreSound
<1>4. ASSUME NEW i \in DOMAIN new, new[i].attempt = 2
      PROVE  \E j \in DOMAIN new : new[j].step = new[i].step /\ new[j].state = "FAILED"
  <2>1. PICK j \in DOMAIN rows : rows[j].step = rows[i].step /\ rows[j].state = "FAILED"
    BY <1>4 DEF IsClosed, RowsAreSound
  <2>2. new[j] = rows[j]
    BY <2>1 DEF IsClosed
  <2> QED BY <2>1, <2>2 DEF IsClosed
<1> QED BY <1>1, <1>2, <1>3, <1>4 DEF RowsAreSound

\* The first attempt at a step, if it is running, is closed as failed.
LEMMA OneFailed ==
  ASSUME NEW rows \in Seq(StepRow), NEW which, NEW new,
         IsClosed(new, rows, which, "FAILED"), RowsAreSound(rows),
         \A i \in DOMAIN rows : i \in which => rows[i].attempt = 1
  PROVE  RowsAreSound(new)
<1>1. \A i \in DOMAIN rows : rows[i].state = "FAILED" => new[i].state = "FAILED"
  BY DEF IsClosed
<1>2. \A i, j \in DOMAIN new : new[i].step = new[j].step /\ new[i].attempt = new[j].attempt => i = j
  BY DEF IsClosed, RowsAreSound
<1>3. \A i \in DOMAIN new : new[i].state = "FAILED" => new[i].attempt = 1
  <2> SUFFICES ASSUME NEW i \in DOMAIN new, new[i].state = "FAILED" PROVE new[i].attempt = 1
    OBVIOUS
  <2>1. CASE i \in which /\ rows[i].state = "RUNNING"
    BY <2>1 DEF IsClosed
  <2>2. CASE ~ (i \in which /\ rows[i].state = "RUNNING")
    BY <2>2 DEF IsClosed, RowsAreSound
  <2> QED BY <2>1, <2>2
<1>4. ASSUME NEW i \in DOMAIN new, new[i].attempt = 2
      PROVE  \E j \in DOMAIN new : new[j].step = new[i].step /\ new[j].state = "FAILED"
  <2>1. PICK j \in DOMAIN rows : rows[j].step = rows[i].step /\ rows[j].state = "FAILED"
    BY <1>4 DEF IsClosed, RowsAreSound
  <2> QED BY <1>1, <2>1 DEF IsClosed
<1>5. ASSUME NEW i \in Open(new)
      PROVE  \E j \in DOMAIN new :
               /\ new[j].step = new[i].step /\ new[j].attempt = 1
               /\ new[j].state \in {"RUNNING", "FAILED"}
               /\ \A l \in DOMAIN new : new[l].step # new[i].step => l < j
  <2>1. i \in DOMAIN rows /\ new[i].state = "RUNNING" /\ new[i].step = rows[i].step
    BY <1>5 DEF Open, IsClosed
  <2>2. i \in Open(rows)
    BY <2>1 DEF Open, IsClosed
  <2>3. PICK j \in DOMAIN rows :
          /\ rows[j].step = rows[i].step /\ rows[j].attempt = 1
          /\ rows[j].state \in {"RUNNING", "FAILED"}
          /\ \A l \in DOMAIN rows : rows[l].step # rows[i].step => l < j
    BY <2>2 DEF RowsAreSound
  <2>4. new[j].state \in {"RUNNING", "FAILED"}
    BY <2>3 DEF IsClosed
  <2> QED BY <2>1, <2>3, <2>4 DEF IsClosed
<1> QED BY <1>2, <1>3, <1>4, <1>5 DEF RowsAreSound

-----------------------------------------------------------------------------
(* One target: its rows, its state, and what its device did for it.  While *)
(* it is at a step only attempts at that step are open, and everything     *)
(* before the step is done; up to PREPARE it may have been sent back.      *)
AtStep(rows, step) ==
  /\ OpenAt(rows, step)
  /\ step \in Early => \A i \in DOMAIN rows :
       rows[i].step \in Early /\ (rows[i].state = "SUCCEEDED" => rows[i].step = "PRECHECK")
  /\ step \notin Early => \A i \in DOMAIN rows :
       /\ Position(rows[i].step) <= Position(step)
       /\ rows[i].step = step => rows[i].state \in {"RUNNING", "FAILED"}

\* All failed attempts were retried, but those at one step.
Retried(rows, but) ==
  \A i \in DOMAIN rows :
    rows[i].state = "FAILED" /\ rows[i].step # but => Has(rows, rows[i].step, 2)

RestsEarly(rows) == AtStep(rows, "PREPARE") /\ Open(rows) = {} /\ Retried(rows, "none")

ActiveIsSound(rows, step, did) ==
  /\ AtStep(rows, step) /\ Behind(step) \subseteq did /\ Retried(rows, "none")
  /\ Has(rows, step, 1)
  /\ step \notin Early => Open(rows) # {}

FailedAt(rows, step, did) ==
  /\ AtStep(rows, step) /\ Behind(step) \subseteq did /\ Retried(rows, step)
  /\ \A i, j \in DOMAIN rows :
       rows[i].step = step /\ rows[i].state = "FAILED" /\ rows[j].step # step /\ i < j =>
         Has(rows, step, 2)

FailedIsSound(rows, did) ==
  /\ LastIn(rows, "FAILED") = "none" => AtStep(rows, "PREPARE") /\ Open(rows) = {}
  /\ LastIn(rows, "FAILED") # "none" => FailedAt(rows, LastIn(rows, "FAILED"), did)

RowsTell(rows, did) ==
  /\ \A i \in DOMAIN rows : rows[i].step # "PRECHECK" => "PRECHECK" \in did
  /\ \A i \in DOMAIN rows : rows[i].state = "SUCCEEDED" => rows[i].step \in did

TargetIsSound(rows, state, did) ==
  /\ RowsAreSound(rows) /\ RowsTell(rows, did)
  /\ state = "COMPLETED" => did = Step
  /\ state = "QUEUED" => rows = <<>>
  /\ state \in Step => ActiveIsSound(rows, state, did)
  /\ state = "FAILED" => FailedIsSound(rows, did)
  /\ state = "CANCELLED" => RestsEarly(rows)

LEMMA RecordedEnters ==
  ASSUME NEW rows, NEW state \in Step, NEW step, NEW attempt
  PROVE  Recorded(rows, state, step, attempt) = StepsEntered(rows, step, attempt)
BY FiveSteps DEF Recorded

\* From QUEUED, or again because no attempt was open, a target goes to PRECHECK.
LEMMA EntersPrecheck ==
  ASSUME NEW rows \in Seq(StepRow), NEW did, NEW did2, did \subseteq did2,
         RowsAreSound(rows), RowsTell(rows, did), RestsEarly(rows)
  PROVE  TargetIsSound(Recorded(rows, "PRECHECK", "PRECHECK", 1), "PRECHECK", did2)
<1> DEFINE new == Added(rows, "PRECHECK", 1)
<1>1. "PRECHECK" \in Step /\ OpenAt(rows, "PRECHECK")
  BY FiveSteps DEF RestsEarly, OpenAt
<1>2. Recorded(rows, "PRECHECK", "PRECHECK", 1) = new
  <2>1. Recorded(rows, "PRECHECK", "PRECHECK", 1) = StepsEntered(rows, "PRECHECK", 1)
    BY <1>1, RecordedEnters
  <2>2. StepsEntered(rows, "PRECHECK", 1) = new
    BY <1>1, EnteredHere
  <2> QED BY <2>1, <2>2
<1>3. IsAdded(new, rows, "PRECHECK", 1)
  BY <1>1, AddedIs
<1> HIDE DEF new
<1>4. RowsAreSound(new) /\ OpenAt(new, "PRECHECK")
  BY <1>1, <1>3, AddedIsSound
<1>5. RowsTell(new, did2)
  BY <1>3 DEF IsAdded, RowsTell
<1>6. AtStep(new, "PRECHECK")
  BY <1>3, <1>4 DEF IsAdded, RestsEarly, AtStep, Early
<1>7. Retried(new, "none")
  <2> SUFFICES ASSUME NEW i \in DOMAIN new, new[i].state = "FAILED"
               PROVE  Has(new, new[i].step, 2)
    BY DEF Retried
  <2>1. i \in DOMAIN rows /\ new[i] = rows[i]
    BY <1>3 DEF IsAdded
  <2>2. Has(rows, rows[i].step, 2)
    <3>1. rows[i].step # "none"
      BY <2>1, RowsAre, FiveSteps
    <3> QED BY <2>1, <3>1 DEF RestsEarly, Retried
  <2> QED BY <2>1, <2>2, <1>3 DEF Has, IsAdded
<1>8. Has(new, "PRECHECK", 1) /\ Behind("PRECHECK") = {} /\ "PRECHECK" \in Early
  BY <1>3, StepsBehind DEF IsAdded, Early
<1>9. ActiveIsSound(new, "PRECHECK", did2)
  BY <1>6, <1>7, <1>8 DEF ActiveIsSound
<1> QED BY <1>2, <1>4, <1>5, <1>9 DEF TargetIsSound

LEMMA RetriedIsKept ==
  ASSUME NEW rows \in Seq(StepRow), NEW new, NEW but, NEW but2,
         Retried(rows, but),
         DOMAIN rows \subseteq DOMAIN new,
         \A i \in DOMAIN rows : new[i].step = rows[i].step /\ new[i].attempt = rows[i].attempt,
         \A i \in DOMAIN new : new[i].state = "FAILED" /\ new[i].step # but2 =>
           i \in DOMAIN rows /\ rows[i].state = "FAILED" /\ rows[i].step # but
  PROVE  Retried(new, but2)
BY DEF Retried, Has

\* The step after one that is done.
LEMMA EntersNext ==
  ASSUME NEW rows \in Seq(StepRow), NEW did, NEW t, NEW step \in Step, NEW next \in Step,
         Position(next) = Position(step) + 1,
         t = step \/ (t = "CANCELLED" /\ step = "PREPARE" /\ Behind("PREPARE") \subseteq did),
         TargetIsSound(rows, t, did)
  PROVE  TargetIsSound(Recorded(rows, next, next, 1), next, did \cup {step})
<1> DEFINE closed == ClosedOthers(rows, next)
           new == Added(closed, next, 1)
<1>1. Recorded(rows, next, next, 1) = new
  <2>1. Recorded(rows, next, next, 1) = StepsEntered(rows, next, 1)
    BY RecordedEnters
  <2>2. StepsEntered(rows, next, 1) = new
    BY EnteredIs
  <2> QED BY <2>1, <2>2
<1>2. IsClosed(closed, rows, {i \in DOMAIN rows : rows[i].step # next}, "SUCCEEDED")
  BY ClosingIs DEF ClosedOthers, AttemptState
<1>3. closed \in Seq(StepRow)
  BY <1>2 DEF IsClosed
<1>4. IsAdded(new, closed, next, 1)
  BY <1>3, AddedIs
<1> HIDE DEF closed, new
<1>5. /\ AtStep(rows, step) /\ Retried(rows, "none") /\ Behind(step) \subseteq did
  BY FiveSteps DEF TargetIsSound, ActiveIsSound, RestsEarly, AtStep, Early, OpenAt
<1>6. step # next /\ \A i \in Open(rows) : rows[i].step = step
  BY <1>5, FiveSteps DEF AtStep, OpenAt
<1>7. RowsAreSound(closed) /\ Open(closed) = {}
  <2>1. \A i \in Open(rows) : i \in {j \in DOMAIN rows : rows[j].step # next}
    BY <1>6 DEF Open
  <2>2. RowsAreSound(rows)
    BY DEF TargetIsSound
  <2> QED BY <1>2, <2>1, <2>2, AllClosed
<1>8. RowsAreSound(new) /\ OpenAt(new, next)
  <2>1. OpenAt(closed, next)
    BY <1>7 DEF OpenAt
  <2> QED BY <1>3, <1>4, <1>7, <2>1, AddedIsSound
<1>9. Behind(next) = Behind(step) \cup {step}
  BY FiveSteps, StepsBehind
<1>10. ASSUME NEW i \in DOMAIN rows
       PROVE  /\ i \in DOMAIN new /\ new[i].step = rows[i].step /\ new[i].attempt = rows[i].attempt
              /\ rows[i].state = "RUNNING" => new[i].state = "SUCCEEDED" /\ rows[i].step = step
              /\ rows[i].state # "RUNNING" => new[i].state = rows[i].state
  <2>1. i \in DOMAIN new /\ new[i] = closed[i]
    BY <1>2, <1>4 DEF IsClosed, IsAdded
  <2>2. rows[i].state = "RUNNING" => rows[i].step = step
    BY <1>6 DEF Open
  <2>3. /\ closed[i].step = rows[i].step /\ closed[i].attempt = rows[i].attempt
        /\ rows[i].step # next /\ rows[i].state = "RUNNING" => closed[i].state = "SUCCEEDED"
        /\ rows[i].state # "RUNNING" => closed[i] = rows[i]
    BY <1>2 DEF IsClosed
  <2> QED BY <2>1, <2>2, <2>3, <1>6
<1>11. ASSUME NEW i \in DOMAIN new, i \notin DOMAIN rows
       PROVE  new[i].step = next /\ new[i].state = "RUNNING"
  BY <1>2, <1>4, <1>11 DEF IsClosed, IsAdded
<1>12. RowsTell(new, did \cup {step})
  <2>1. next # "PRECHECK" /\ "PRECHECK" \in did \cup {step}
    <3>1. "PRECHECK" \in Behind(next) /\ next # "PRECHECK"
      BY FiveSteps, StepsBehind
    <3> QED BY <3>1, <1>5, <1>9
  <2>2. \A i \in DOMAIN new : new[i].state = "SUCCEEDED" => new[i].step \in did \cup {step}
    BY <1>10, <1>11 DEF TargetIsSound, RowsTell
  <2> QED BY <2>1, <2>2 DEF RowsTell
<1>13. AtStep(new, next)
  <2>1. CASE step = "PRECHECK"
    <3>1. next = "PREPARE" /\ step \in Early
      BY <2>1, FiveSteps DEF Early
    <3>2. \A i \in DOMAIN new : new[i].step \in Early /\ (new[i].state = "SUCCEEDED" => new[i].step = "PRECHECK")
      BY <2>1, <3>1, <1>5, <1>10, <1>11 DEF AtStep, Early
    <3> QED BY <3>1, <3>2, <1>8 DEF AtStep, Early
  <2>2. CASE step # "PRECHECK"
    <3>1. next \notin Early
      BY <2>2, FiveSteps DEF Early
    <3>2. \A i \in DOMAIN rows : Position(rows[i].step) <= Position(step)
      BY <1>5, <2>2, FiveSteps DEF AtStep, Early
    <3>3. \A i \in DOMAIN new : new[i].step \in Step
      <4>1. new \in Seq(StepRow)
        BY <1>4 DEF IsAdded
      <4> QED BY <4>1, RowsAre
    <3>4. ASSUME NEW i \in DOMAIN new
          PROVE  /\ Position(new[i].step) <= Position(next)
                 /\ new[i].step = next => new[i].state \in {"RUNNING", "FAILED"}
      <4>1. CASE i \in DOMAIN rows
        <5>1. Position(new[i].step) <= Position(step)
          BY <4>1, <3>2, <1>10
        <5>2. new[i].step # next /\ Position(new[i].step) <= Position(next)
          BY <5>1, <3>3, FiveSteps
        <5> QED BY <5>2
      <4>2. CASE i \notin DOMAIN rows
        BY <4>2, <1>11, FiveSteps
      <4> QED BY <4>1, <4>2
    <3> QED BY <3>1, <3>4, <1>8 DEF AtStep
  <2> QED BY <2>1, <2>2
<1>14. Retried(new, "none")
  <2>1. \A i \in DOMAIN new : new[i].state = "FAILED" /\ new[i].step # "none" =>
          i \in DOMAIN rows /\ rows[i].state = "FAILED" /\ rows[i].step # "none"
    BY <1>10, <1>11
  <2>2. /\ DOMAIN rows \subseteq DOMAIN new
        /\ \A i \in DOMAIN rows : new[i].step = rows[i].step /\ new[i].attempt = rows[i].attempt
    BY <1>10
  <2> QED BY <1>5, <2>1, <2>2, RetriedIsKept
<1>15. Has(new, next, 1)
  BY <1>4 DEF IsAdded
<1>16. next \notin Early => Open(new) # {}
  <2> SUFFICES ASSUME next \notin Early PROVE Open(new) # {}
    OBVIOUS
  <2>1. PICK i \in DOMAIN new : new[i].step = next /\ new[i].attempt = 1
    BY <1>15 DEF Has
  <2>2. \A k \in DOMAIN rows : rows[k].step # next
    <3>1. \A k \in DOMAIN rows : rows[k].step \in Step
      BY RowsAre
    <3>2. CASE step \in Early
      BY <3>2, <1>5 DEF AtStep
    <3>3. CASE step \notin Early
      <4>1. \A k \in DOMAIN rows : Position(rows[k].step) <= Position(step)
        BY <3>3, <1>5 DEF AtStep
      <4> QED BY <4>1, <3>1, FiveSteps
    <3> QED BY <3>2, <3>3
  <2>3. i \notin DOMAIN rows
    BY <2>1, <2>2, <1>10
  <2> QED BY <2>3, <1>11 DEF Open
<1>17. ActiveIsSound(new, next, did \cup {step})
  BY <1>5, <1>9, <1>13, <1>14, <1>15, <1>16 DEF ActiveIsSound
<1> QED BY <1>1, <1>8, <1>12, <1>17, FiveSteps DEF TargetIsSound

\* After the last step the target is completed.
LEMMA Completes ==
  ASSUME NEW rows \in Seq(StepRow), NEW did \in SUBSET Step, TargetIsSound(rows, "LAUNCH", did)
  PROVE  TargetIsSound(Recorded(rows, "COMPLETED", "none", 1), "COMPLETED", did \cup {"LAUNCH"})
<1> DEFINE new == Closed(rows, DOMAIN rows, "SUCCEEDED")
<1>1. Recorded(rows, "COMPLETED", "none", 1) = new
  BY DEF Recorded, StepsEntered
<1>2. IsClosed(new, rows, DOMAIN rows, "SUCCEEDED")
  BY ClosingIs DEF AttemptState
<1> HIDE DEF new
<1>3. RowsAreSound(new) /\ Open(new) = {}
  <2>1. RowsAreSound(rows) /\ \A i \in Open(rows) : i \in DOMAIN rows
    BY DEF TargetIsSound, Open
  <2> QED BY <1>2, <2>1, AllClosed
<1>4. did \cup {"LAUNCH"} = Step
  <2>1. Behind("LAUNCH") \subseteq did
    BY FiveSteps DEF TargetIsSound, ActiveIsSound
  <2> QED BY <2>1, StepsBehind
<1>5. RowsTell(new, Step)
  <2>1. new \in Seq(StepRow)
    BY <1>2 DEF IsClosed
  <2> QED BY <2>1, RowsAre, FiveSteps DEF RowsTell
<1> QED BY <1>1, <1>3, <1>4, <1>5, FiveSteps DEF TargetIsSound

\* A step fails: the first attempt at it, if that is the one which is open.
LEMMA StepFails ==
  ASSUME NEW rows \in Seq(StepRow), NEW did \in SUBSET Step, NEW t, NEW step \in Step,
         t = step \/ (t = "CANCELLED" /\ step = "PREPARE" /\ Behind("PREPARE") \subseteq did),
         TargetIsSound(rows, t, did)
  PROVE  TargetIsSound(Recorded(rows, "FAILED", step, 1), "FAILED", did)
<1> DEFINE entered == Added(rows, step, 1)
           which == {i \in DOMAIN entered : entered[i].step = step /\ entered[i].attempt = 1}
           new == Closed(entered, which, "FAILED")
<1>1. /\ AtStep(rows, step) /\ Retried(rows, "none") /\ Behind(step) \subseteq did
      /\ RowsAreSound(rows) /\ RowsTell(rows, did)
      /\ step \notin Early => Open(rows) # {}
  BY FiveSteps DEF TargetIsSound, ActiveIsSound, RestsEarly, AtStep, Early, OpenAt
<1>2. OpenAt(rows, step)
  BY <1>1 DEF AtStep
<1>3. Recorded(rows, "FAILED", step, 1) = new
  <2>1. StepsEntered(rows, step, 1) = entered
    BY <1>2, EnteredHere
  <2>2. Recorded(rows, "FAILED", step, 1) =
          Closed(StepsEntered(rows, step, 1),
                 {i \in DOMAIN StepsEntered(rows, step, 1) :
                    /\ StepsEntered(rows, step, 1)[i].step = step
                    /\ StepsEntered(rows, step, 1)[i].attempt = 1}, "FAILED")
    BY DEF Recorded
  <2> HIDE DEF entered
  <2> QED BY <2>1, <2>2
<1>4. IsAdded(entered, rows, step, 1)
  BY AddedIs
<1>5. IsClosed(new, entered, which, "FAILED")
  <2>1. entered \in Seq(StepRow) /\ "FAILED" \in AttemptState
    BY <1>4 DEF IsAdded, AttemptState
  <2> HIDE DEF entered, which
  <2> QED BY <2>1, ClosingIs
<1>6. \A i \in DOMAIN entered : i \in which <=> entered[i].step = step /\ entered[i].attempt = 1
  OBVIOUS
<1> HIDE DEF entered, which, new
<1>7. RowsAreSound(entered) /\ OpenAt(entered, step)
  BY <1>1, <1>2, <1>4, AddedIsSound
<1>8. RowsAreSound(new)
  BY <1>5, <1>6, <1>7, <1>4, OneFailed DEF IsAdded
<1>9. new \in Seq(StepRow) /\ DOMAIN new = DOMAIN entered
  BY <1>5 DEF IsClosed
<1>10. ASSUME NEW i \in DOMAIN new
       PROVE  /\ new[i].step = entered[i].step /\ new[i].attempt = entered[i].attempt
              /\ new[i].state \in {entered[i].state, "FAILED"}
              /\ new[i].state # entered[i].state =>
                   entered[i].state = "RUNNING" /\ new[i].step = step /\ new[i].attempt = 1
              /\ entered[i].step = step /\ entered[i].attempt = 1 => new[i].state # "RUNNING"
              /\ i \in DOMAIN rows => rows[i] = entered[i]
              /\ i \notin DOMAIN rows => new[i].step = step /\ new[i].attempt = 1
  <2>1. i \in DOMAIN entered
    BY <1>9
  <2>2. CASE i \in which /\ entered[i].state = "RUNNING"
    <3>1. new[i].state = "FAILED" /\ new[i].step = entered[i].step
          /\ new[i].attempt = entered[i].attempt
      BY <2>1, <2>2, <1>5 DEF IsClosed
    <3>2. i \in DOMAIN rows => rows[i] = entered[i]
      BY <1>4 DEF IsAdded
    <3> QED BY <3>1, <3>2, <2>1, <2>2, <1>6, <1>4 DEF IsAdded
  <2>3. CASE ~ (i \in which /\ entered[i].state = "RUNNING")
    <3>1. new[i] = entered[i]
      BY <2>1, <2>3, <1>5 DEF IsClosed
    <3>2. i \in DOMAIN rows => rows[i] = entered[i]
      BY <1>4 DEF IsAdded
    <3>3. i \notin DOMAIN rows => entered[i].step = step /\ entered[i].attempt = 1
      BY <2>1, <1>4 DEF IsAdded
    <3> QED BY <3>1, <3>2, <3>3, <2>1, <2>3, <1>6
  <2> QED BY <2>2, <2>3
<1>11. DOMAIN rows \subseteq DOMAIN new
  BY <1>4, <1>9 DEF IsAdded
<1>12. RowsTell(new, did)
  <2>1. ASSUME NEW i \in DOMAIN new, new[i].step # "PRECHECK" PROVE "PRECHECK" \in did
    <3>1. CASE i \in DOMAIN rows
      BY <2>1, <3>1, <1>1, <1>10 DEF RowsTell
    <3>2. CASE i \notin DOMAIN rows
      <4>1. step # "PRECHECK"
        BY <2>1, <3>2, <1>10
      <4> QED BY <4>1, <1>1, FiveSteps, StepsBehind
    <3> QED BY <3>1, <3>2
  <2>2. ASSUME NEW i \in DOMAIN new, new[i].state = "SUCCEEDED" PROVE new[i].step \in did
    <3>1. entered[i].state = "SUCCEEDED"
      BY <2>2, <1>10
    <3>2. i \in DOMAIN rows
      BY <3>1, <1>9, <1>4 DEF IsAdded
    <3> QED BY <3>1, <3>2, <1>1, <1>10 DEF RowsTell
  <2> QED BY <2>1, <2>2 DEF RowsTell
<1>13. ASSUME NEW i \in DOMAIN new
       PROVE  /\ step \in Early => new[i].step \in Early
                                   /\ (new[i].state = "SUCCEEDED" => new[i].step = "PRECHECK")
              /\ step \notin Early => /\ Position(new[i].step) <= Position(step)
                                      /\ new[i].step = step => new[i].state \in {"RUNNING", "FAILED"}
  <2>1. CASE i \in DOMAIN rows
    BY <2>1, <1>1, <1>10 DEF AtStep
  <2>2. CASE i \notin DOMAIN rows
    <3>1. entered[i].state = "RUNNING" /\ entered[i].step = step /\ Position(step) <= Position(step)
      BY <2>2, <1>9, <1>4, FiveSteps DEF IsAdded
    <3> QED BY <3>1, <1>10
  <2> QED BY <2>1, <2>2
<1>14. \A i \in Open(new) : new[i].step = step /\ i \in DOMAIN new /\ new[i].attempt # 1 /\ i \in Open(rows)
  <2> SUFFICES ASSUME NEW i \in Open(new)
               PROVE  new[i].step = step /\ i \in DOMAIN new /\ new[i].attempt # 1 /\ i \in Open(rows)
    OBVIOUS
  <2>1. i \in DOMAIN new /\ new[i].state = "RUNNING"
    BY DEF Open
  <2>2. entered[i].state = "RUNNING" /\ i \in DOMAIN entered /\ entered[i].step = step
    BY <2>1, <1>9, <1>10, <1>7 DEF OpenAt, Open
  <2>3. new[i].step = step /\ new[i].attempt # 1
    BY <2>1, <2>2, <1>10
  <2>4. i \in DOMAIN rows
    BY <2>1, <2>3, <1>10
  <2>5. i \in Open(rows)
    BY <2>2, <2>4, <2>1, <1>10 DEF Open
  <2> QED BY <2>1, <2>3, <2>5
<1>15. AtStep(new, step)
  <2>1. OpenAt(new, step)
    BY <1>14 DEF OpenAt
  <2> QED BY <2>1, <1>13 DEF AtStep
<1>16. Retried(new, step)
  <2>1. \A i \in DOMAIN new : new[i].state = "FAILED" /\ new[i].step # step =>
          i \in DOMAIN rows /\ rows[i].state = "FAILED" /\ rows[i].step # "none"
    <3> SUFFICES ASSUME NEW i \in DOMAIN new, new[i].state = "FAILED", new[i].step # step
                 PROVE  i \in DOMAIN rows /\ rows[i].state = "FAILED" /\ rows[i].step # "none"
      OBVIOUS
    <3>1. i \in DOMAIN rows /\ entered[i].state = "FAILED" /\ rows[i] = entered[i]
      BY <1>10
    <3> QED BY <3>1, RowsAre, FiveSteps
  <2>2. \A i \in DOMAIN rows : new[i].step = rows[i].step /\ new[i].attempt = rows[i].attempt
    BY <1>10, <1>11
  <2> QED BY <1>1, <1>11, <2>1, <2>2, RetriedIsKept
\* Either the last row that failed is of this step, or nothing changed and nothing is open.
<1>17. CASE \E j \in DOMAIN new :
              /\ new[j].step = step /\ new[j].state = "FAILED"
              /\ \A l \in DOMAIN new : new[l].step # step => l < j
  <2>1. PICK j \in DOMAIN new :
              /\ new[j].step = step /\ new[j].state = "FAILED"
              /\ \A l \in DOMAIN new : new[l].step # step => l < j
    BY <1>17
  <2>2. LastIn(new, "FAILED") = step
    <3>1. ~ \A i \in DOMAIN new : new[i].state # "FAILED"
      BY <2>1
    <3>2. PICK i \in DOMAIN new :
            /\ new[i].state = "FAILED" /\ new[i].step = LastIn(new, "FAILED")
            /\ \A l \in DOMAIN new : new[l].state = "FAILED" => l <= i
      BY <3>1, <1>9, LastInIs
    <3>3. j <= i /\ i \in Nat /\ j \in Nat
      BY <2>1, <3>2, <1>9, RowsAre
    <3>4. new[i].step = step
      <4> SUFFICES ASSUME new[i].step # step PROVE FALSE
        OBVIOUS
      <4>1. i < j
        BY <2>1
      <4> QED BY <4>1, <3>3
    <3> QED BY <3>2, <3>4
  <2>3. \A i, l \in DOMAIN new :
          new[i].step = step /\ new[i].state = "FAILED" /\ new[l].step # step /\ i < l => Has(new, step, 2)
    <3> SUFFICES ASSUME NEW i \in DOMAIN new, NEW l \in DOMAIN new, new[i].step = step,
                        new[i].state = "FAILED", new[l].step # step, i < l
                 PROVE  FALSE
      OBVIOUS
    <3>1. new[i].attempt = 1 /\ new[j].attempt = 1
      BY <1>8, <2>1 DEF RowsAreSound
    <3>2. i = j
      BY <1>8, <2>1, <3>1 DEF RowsAreSound
    <3>3. l < i /\ i \in Nat /\ l \in Nat
      BY <2>1, <3>2, <1>9, RowsAre
    <3> QED BY <3>3
  <2>4. FailedAt(new, step, did)
    BY <1>1, <1>15, <1>16, <2>3 DEF FailedAt
  <2>5. FailedIsSound(new, did)
    BY <2>2, <2>4, FiveSteps DEF FailedIsSound
  <2> QED BY <1>3, <1>8, <1>12, <2>5, FiveSteps DEF TargetIsSound
<1>18. CASE Open(new) = {} /\ new = rows /\ step \in Early
  <2>1. AtStep(new, "PREPARE")
    BY <1>13, <1>18 DEF AtStep, OpenAt, Early
  <2>2. ASSUME LastIn(new, "FAILED") # "none" PROVE FailedAt(new, LastIn(new, "FAILED"), did)
    <3> DEFINE last == LastIn(new, "FAILED")
    <3>1. PICK i \in DOMAIN new : new[i].state = "FAILED" /\ new[i].step = last
      BY <2>2, <1>9, LastInIs
    <3>2. last \in Early
      BY <3>1, <1>13, <1>18
    <3> HIDE DEF last
    <3>3. AtStep(new, last)
      BY <3>2, <1>13, <1>18 DEF AtStep, OpenAt
    <3>4. Behind(last) \subseteq did
      BY <3>1, <3>2, <1>12, StepsBehind DEF RowsTell, Early
    <3>5. Retried(new, last) /\ Has(new, last, 2)
      <4>1. last # "none"
        BY <3>2 DEF Early
      <4>2. \A k \in DOMAIN new : new[k].step # "none"
        BY <1>9, RowsAre, FiveSteps
      <4> QED BY <3>1, <4>1, <4>2, <1>1, <1>18 DEF Retried
    <3> QED BY <3>3, <3>4, <3>5 DEF FailedAt, last
  <2>3. FailedIsSound(new, did)
    BY <2>1, <2>2, <1>18 DEF FailedIsSound
  <2> QED BY <1>3, <1>8, <1>12, <2>3, FiveSteps DEF TargetIsSound
<1>19. CASE Open(entered) # {}
  <2>1. PICK i \in Open(entered) : TRUE
    BY <1>19
  <2>2. PICK j \in DOMAIN entered :
          /\ entered[j].step = step /\ entered[j].attempt = 1
          /\ entered[j].state \in {"RUNNING", "FAILED"}
          /\ \A l \in DOMAIN entered : entered[l].step # step => l < j
    BY <2>1, <1>7 DEF RowsAreSound, OpenAt
  <2>3. j \in DOMAIN new /\ new[j].step = step /\ new[j].state = "FAILED"
    BY <2>2, <1>9, <1>10
  <2>4. \A l \in DOMAIN new : new[l].step # step => l < j
    BY <2>2, <1>9, <1>10
  <2> QED BY <2>3, <2>4, <1>17
<1>20. CASE Open(entered) = {}
  <2>1. entered = rows
    <3>1. \A i \in DOMAIN entered : i \in DOMAIN rows
      BY <1>20, <1>4 DEF IsAdded, Open
    <3>2. Has(rows, step, 1)
      BY <3>1, <1>4 DEF IsAdded, Has
    <3> QED BY <3>2 DEF entered, Added
  <2>2. \A i \in DOMAIN entered : new[i] = entered[i]
    BY <1>20, <1>5 DEF IsClosed, Open
  <2>3. new = entered
    <3>1. /\ new \in Seq(StepRow) /\ entered \in Seq(StepRow)
          /\ DOMAIN new = 1..Len(new) /\ DOMAIN entered = 1..Len(entered)
          /\ Len(new) \in Nat /\ Len(entered) \in Nat
      BY <1>9, <1>4, RowsAre DEF IsAdded
    <3>2. Len(new) = Len(entered)
      <4>1. 1..Len(new) = 1..Len(entered)
        BY <3>1, <1>9
      <4>2. Len(new) \in Nat /\ Len(entered) \in Nat
        BY <3>1
      <4> QED BY <4>1, <4>2
    <3>3. \A i \in 1..Len(new) : new[i] = entered[i]
      BY <2>2, <3>1, <1>9
    <3> QED BY <3>1, <3>2, <3>3, SeqEqual, Zenon
  <2>4. Open(rows) = {} /\ Open(new) = {} /\ step \in Early
    BY <1>20, <2>1, <2>3, <1>1
  <2> QED BY <2>1, <2>3, <2>4, <1>18
<1> QED BY <1>19, <1>20

\* A failed target goes back to the step whose attempt failed last.
LEMMA IsRetried ==
  ASSUME NEW rows \in Seq(StepRow), NEW did, NEW step,
         step = LastIn(rows, "FAILED"), step # "none", TargetIsSound(rows, "FAILED", did)
  PROVE  step \in Step /\ TargetIsSound(Recorded(rows, step, step, 2), step, did)
<1> DEFINE new == Added(rows, step, 2)
<1>1. step \in Step /\ \E i \in DOMAIN rows : rows[i].state = "FAILED" /\ rows[i].step = step
  BY LastInIs
<1>2. FailedAt(rows, step, did) /\ RowsAreSound(rows) /\ RowsTell(rows, did)
  BY DEF TargetIsSound, FailedIsSound
<1>3. OpenAt(rows, step)
  BY <1>2 DEF FailedAt, AtStep
<1>4. Recorded(rows, step, step, 2) = new
  <2>1. Recorded(rows, step, step, 2) = StepsEntered(rows, step, 2)
    BY <1>1, RecordedEnters
  <2>2. StepsEntered(rows, step, 2) = new
    BY <1>1, <1>3, EnteredHere
  <2> QED BY <2>1, <2>2
<1>5. IsAdded(new, rows, step, 2)
  BY <1>1, AddedIs
<1> HIDE DEF new
<1>6. PICK i \in DOMAIN rows : rows[i].state = "FAILED" /\ rows[i].step = step
  BY <1>1
<1>7. rows[i].attempt = 1
  BY <1>2, <1>6 DEF RowsAreSound
<1>8. Has(rows, step, 2) \/ \A l \in DOMAIN rows : rows[l].step # step => l < i
  <2> SUFFICES ASSUME ~Has(rows, step, 2), NEW l \in DOMAIN rows, rows[l].step # step
               PROVE  l < i
    OBVIOUS
  <2>1. ~ (i < l)
    BY <1>2, <1>6 DEF FailedAt
  <2>2. l # i /\ l \in Nat /\ i \in Nat
    BY <1>6, RowsAre
  <2> QED BY <2>1, <2>2
<1>9. RowsAreSound(new) /\ OpenAt(new, step)
  <2>1. \/ Has(rows, step, 2)
        \/ \E j \in DOMAIN rows :
              /\ rows[j].step = step /\ rows[j].attempt = 1 /\ rows[j].state = "FAILED"
              /\ \A l \in DOMAIN rows : rows[l].step # step => l < j
    BY <1>6, <1>7, <1>8
  <2> QED BY <1>1, <1>2, <1>3, <1>5, <2>1, AddedIsSound
<1>10. RowsTell(new, did)
  <2>1. ASSUME NEW k \in DOMAIN new, new[k].step # "PRECHECK" PROVE "PRECHECK" \in did
    <3>1. CASE k \in DOMAIN rows
      BY <2>1, <3>1, <1>2, <1>5 DEF RowsTell, IsAdded
    <3>2. CASE k \notin DOMAIN rows
      <4>1. step # "PRECHECK"
        BY <2>1, <3>2, <1>5 DEF IsAdded
      <4> QED BY <4>1, <1>2, <1>6 DEF RowsTell
    <3> QED BY <3>1, <3>2
  <2>2. ASSUME NEW k \in DOMAIN new, new[k].state = "SUCCEEDED" PROVE new[k].step \in did
    BY <2>2, <1>2, <1>5 DEF RowsTell, IsAdded
  <2> QED BY <2>1, <2>2 DEF RowsTell
<1>11. AtStep(new, step)
  <2>1. ASSUME NEW k \in DOMAIN new
        PROVE  /\ step \in Early => new[k].step \in Early
                                    /\ (new[k].state = "SUCCEEDED" => new[k].step = "PRECHECK")
               /\ step \notin Early => /\ Position(new[k].step) <= Position(step)
                                       /\ new[k].step = step => new[k].state \in {"RUNNING", "FAILED"}
    <3>1. CASE k \in DOMAIN rows
      BY <3>1, <1>2, <1>5 DEF FailedAt, AtStep, IsAdded
    <3>2. CASE k \notin DOMAIN rows
      <4>1. new[k].state = "RUNNING" /\ new[k].step = step /\ Position(step) <= Position(step)
        BY <3>2, <1>1, <1>5, FiveSteps DEF IsAdded
      <4> QED BY <4>1
    <3> QED BY <3>1, <3>2
  <2> QED BY <2>1, <1>9 DEF AtStep
<1>12. Has(new, step, 2) /\ Has(new, step, 1)
  BY <1>5, <1>6, <1>7 DEF IsAdded, Has
<1>13. Retried(new, "none")
  <2> SUFFICES ASSUME NEW k \in DOMAIN new, new[k].state = "FAILED" PROVE Has(new, new[k].step, 2)
    BY DEF Retried
  <2>1. k \in DOMAIN rows /\ new[k] = rows[k]
    BY <1>5 DEF IsAdded
  <2>2. CASE new[k].step = step
    BY <2>2, <1>12
  <2>3. CASE new[k].step # step
    <3>1. Has(rows, rows[k].step, 2)
      BY <2>1, <2>3, <1>2 DEF FailedAt, Retried
    <3> QED BY <3>1, <2>1, <1>5 DEF Has, IsAdded
  <2> QED BY <2>2, <2>3
<1>14. step \notin Early => Open(new) # {}
  <2> SUFFICES ASSUME step \notin Early PROVE Open(new) # {}
    OBVIOUS
  <2>1. PICK k \in DOMAIN new : new[k].step = step /\ new[k].attempt = 2
    BY <1>12 DEF Has
  <2>2. new[k].state \in {"RUNNING", "FAILED"}
    BY <2>1, <1>11 DEF AtStep
  <2>3. new[k].state # "FAILED"
    BY <2>1, <1>9 DEF RowsAreSound
  <2> QED BY <2>1, <2>2, <2>3 DEF Open
<1>15. ActiveIsSound(new, step, did)
  BY <1>2, <1>11, <1>12, <1>13, <1>14 DEF ActiveIsSound, FailedAt
<1> QED BY <1>1, <1>4, <1>9, <1>10, <1>15, FiveSteps DEF TargetIsSound

\* A cancellation comes before INSTALL.
LEMMA IsCancelled ==
  ASSUME NEW rows \in Seq(StepRow), NEW did, NEW t \in Cancellable, TargetIsSound(rows, t, did)
  PROVE  TargetIsSound(Recorded(rows, "CANCELLED", LastIn(rows, "RUNNING"), 1), "CANCELLED", did)
<1> DEFINE step == LastIn(rows, "RUNNING")
           new == Closed(rows, DOMAIN rows, "CANCELLED")
<1>1. /\ RowsAreSound(rows) /\ RowsTell(rows, did)
      /\ t = "QUEUED" => rows = <<>>
      /\ t # "QUEUED" => t \in Early /\ ActiveIsSound(rows, t, did)
  BY FiveSteps DEF TargetIsSound, Cancellable, Early
<1>2. StepsEntered(rows, step, 1) = rows
  <2>1. CASE step = "none"
    BY <2>1 DEF StepsEntered
  <2>2. CASE step # "none"
    <3>1. PICK i \in DOMAIN rows : rows[i].state = "RUNNING" /\ rows[i].step = step
      BY <2>2, LastInIs
    <3>2. t # "QUEUED"
      BY <3>1, <1>1
    <3>3. step = t /\ OpenAt(rows, t) /\ Has(rows, t, 1)
      BY <3>1, <3>2, <1>1 DEF ActiveIsSound, AtStep, OpenAt, Open
    <3>4. t \in Step
      BY <3>2, <1>1, FiveSteps DEF Early
    <3>5. StepsEntered(rows, t, 1) = Added(rows, t, 1)
      BY <3>3, <3>4, EnteredHere
    <3> QED BY <3>3, <3>5 DEF Added
  <2> QED BY <2>1, <2>2
<1>3. Recorded(rows, "CANCELLED", step, 1) = new
  <2>1. Recorded(rows, "CANCELLED", step, 1) =
          Closed(StepsEntered(rows, step, 1), DOMAIN StepsEntered(rows, step, 1), "CANCELLED")
    BY DEF Recorded
  <2> HIDE DEF step
  <2> QED BY <2>1, <1>2
<1>4. IsClosed(new, rows, DOMAIN rows, "CANCELLED")
  BY ClosingIs DEF AttemptState
<1> HIDE DEF new
<1>5. RowsAreSound(new) /\ Open(new) = {}
  <2>1. \A i \in Open(rows) : i \in DOMAIN rows
    BY DEF Open
  <2> QED BY <1>1, <1>4, <2>1, AllClosed
<1>6. /\ DOMAIN new = DOMAIN rows
      /\ \A i \in DOMAIN new : /\ new[i].step = rows[i].step /\ new[i].attempt = rows[i].attempt
                               /\ new[i].state \in {rows[i].state, "CANCELLED"}
  BY <1>4 DEF IsClosed
<1>7. RowsTell(new, did)
  BY <1>1, <1>6 DEF RowsTell
<1>8. AtStep(new, "PREPARE")
  <2>1. \A i \in DOMAIN rows : rows[i].step \in Early /\ (rows[i].state = "SUCCEEDED" => rows[i].step = "PRECHECK")
    BY <1>1 DEF ActiveIsSound, AtStep
  <2> QED BY <2>1, <1>5, <1>6 DEF AtStep, OpenAt, Early
<1>9. Retried(new, "none")
  <2>1. Retried(rows, "none")
    BY <1>1 DEF ActiveIsSound, Retried
  <2> QED BY <2>1, <1>6 DEF Retried, Has
<1>10. RestsEarly(new)
  BY <1>5, <1>8, <1>9 DEF RestsEarly
<1> QED BY <1>3, <1>5, <1>7, <1>10, FiveSteps DEF TargetIsSound

\* A wipe before INSTALL takes nothing back that is recorded.
LEMMA IsWiped ==
  ASSUME NEW rows \in Seq(StepRow), NEW did, TargetIsSound(rows, "PREPARE", did)
  PROVE  TargetIsSound(rows, "PREPARE", did \ {"PREPARE", "INSTALL", "VERIFY", "LAUNCH"})
<1> DEFINE left == did \ {"PREPARE", "INSTALL", "VERIFY", "LAUNCH"}
<1>1. RowsAreSound(rows) /\ RowsTell(rows, did) /\ ActiveIsSound(rows, "PREPARE", did)
  BY FiveSteps DEF TargetIsSound
<1>2. "PRECHECK" \in left
  BY <1>1, StepsBehind DEF ActiveIsSound
<1>3. RowsTell(rows, left)
  BY <1>1, <1>2 DEF RowsTell, ActiveIsSound, AtStep, Early
<1>4. ActiveIsSound(rows, "PREPARE", left)
  BY <1>1, <1>2, StepsBehind DEF ActiveIsSound
<1> HIDE DEF left
<1>5. TargetIsSound(rows, "PREPARE", left)
  BY <1>1, <1>3, <1>4, FiveSteps DEF TargetIsSound
<1> QED BY <1>5 DEF left

\* What a machine of the target starts with.
LEMMA IsLoaded ==
  ASSUME NEW rows \in Seq(StepRow), NEW did, NEW t \in Step \cup {"QUEUED"}, TargetIsSound(rows, t, did)
  PROVE  /\ LastIn(rows, "RUNNING") \in {"none", t} \ {"QUEUED"}
         /\ t \in Step \ Early => LastIn(rows, "RUNNING") = t
         /\ LastIn(rows, "RUNNING") = "none" => Open(rows) = {}
<1>1. LastIn(rows, "RUNNING") = "none" => Open(rows) = {}
  BY LastInIs DEF Open
<1>2. CASE LastIn(rows, "RUNNING") = "none"
  BY <1>1, <1>2, FiveSteps DEF TargetIsSound, ActiveIsSound
<1>3. CASE LastIn(rows, "RUNNING") # "none"
  <2>1. PICK i \in DOMAIN rows : rows[i].state = "RUNNING" /\ rows[i].step = LastIn(rows, "RUNNING")
    BY <1>3, LastInIs
  <2>2. t # "QUEUED"
    BY <2>1 DEF TargetIsSound
  <2>3. rows[i].step = t
    BY <2>1, <2>2 DEF TargetIsSound, ActiveIsSound, AtStep, OpenAt, Open
  <2> QED BY <2>1, <2>2, <2>3, <1>3
<1> QED BY <1>2, <1>3

-----------------------------------------------------------------------------
(* The tables.  Every write leaves finished attempts as they are.          *)
Keeps(rows, new) ==
  \A i \in DOMAIN rows : rows[i].state # "RUNNING" => i \in DOMAIN new /\ new[i] = rows[i]

LEMMA AddedKeeps ==
  ASSUME NEW rows \in Seq(StepRow), NEW step \in Step, NEW attempt \in 1..2
  PROVE  Added(rows, step, attempt) \in Seq(StepRow) /\ Keeps(rows, Added(rows, step, attempt))
<1>1. IsAdded(Added(rows, step, attempt), rows, step, attempt)
  BY AddedIs
<1> QED BY <1>1 DEF IsAdded, Keeps

LEMMA ClosedKeeps ==
  ASSUME NEW rows \in Seq(StepRow), NEW which, NEW state \in AttemptState
  PROVE  Closed(rows, which, state) \in Seq(StepRow) /\ Keeps(rows, Closed(rows, which, state))
<1>1. IsClosed(Closed(rows, which, state), rows, which, state)
  BY ClosingIs
<1> QED BY <1>1 DEF IsClosed, Keeps

LEMMA RecordedKeeps ==
  ASSUME NEW rows \in Seq(StepRow), NEW state, NEW step \in Step \cup {"none"}, NEW attempt \in 1..2
  PROVE  /\ Recorded(rows, state, step, attempt) \in Seq(StepRow)
         /\ Keeps(rows, Recorded(rows, state, step, attempt))
<1> DEFINE entered == StepsEntered(rows, step, attempt)
           new == Recorded(rows, state, step, attempt)
<1>1. entered \in Seq(StepRow) /\ Keeps(rows, entered)
  <2>1. CASE step = "none"
    BY <2>1 DEF StepsEntered, Keeps
  <2>2. CASE step # "none"
    <3> DEFINE closed == ClosedOthers(rows, step)
    <3>1. entered = Added(closed, step, attempt) /\ step \in Step
      BY <2>2, EnteredIs
    <3>2. closed \in Seq(StepRow) /\ Keeps(rows, closed)
      BY ClosedKeeps DEF ClosedOthers, AttemptState
    <3> HIDE DEF closed, entered
    <3>3. entered \in Seq(StepRow) /\ Keeps(closed, entered)
      BY <3>1, <3>2, AddedKeeps
    <3> QED BY <3>2, <3>3 DEF Keeps
  <2> QED BY <2>1, <2>2
<1>2. \/ new = entered
      \/ \E which : \E how \in AttemptState : new = Closed(entered, which, how)
  <2>1. /\ state \notin {"FAILED", "COMPLETED", "CANCELLED"} => new = entered
        /\ state = "FAILED" => new = Closed(entered,
             {i \in DOMAIN entered : entered[i].step = step /\ entered[i].attempt = attempt}, "FAILED")
        /\ state = "COMPLETED" => new = Closed(entered, DOMAIN entered, "SUCCEEDED")
        /\ state = "CANCELLED" => new = Closed(entered, DOMAIN entered, "CANCELLED")
    BY DEF Recorded
  <2> DEFINE failing == {i \in DOMAIN entered : entered[i].step = step /\ entered[i].attempt = attempt}
  <2>2. state = "FAILED" => new = Closed(entered, failing, "FAILED")
    BY <2>1
  <2>3. "FAILED" \in AttemptState /\ "SUCCEEDED" \in AttemptState /\ "CANCELLED" \in AttemptState
    BY DEF AttemptState
  <2> HIDE DEF failing, entered, new
  <2> QED BY <2>1, <2>2, <2>3
<1>3. CASE new = entered
  BY <1>1, <1>3
<1>4. ASSUME NEW which, NEW how \in AttemptState, new = Closed(entered, which, how)
      PROVE  new \in Seq(StepRow) /\ Keeps(rows, new)
  <2> HIDE DEF entered, new
  <2>1. new \in Seq(StepRow) /\ Keeps(entered, new)
    BY <1>1, <1>4, ClosedKeeps
  <2> QED BY <1>1, <2>1 DEF Keeps
<1> QED BY <1>2, <1>3, <1>4

Targets(d) == ToSet(TargetsOf[d])
Tabled(table, Values) ==
  DOMAIN table = Deployment /\ \A d \in Deployment : table[d] \in [Targets(d) -> Values]
\* One entry of a table is set, the others stay.
IsSet(table, new, d, s, value) ==
  /\ new[d][s] = value
  /\ \A e \in Deployment : \A u \in Targets(e) : e # d \/ u # s => new[e][u] = table[e][u]

LEMMA SettingOne ==
  ASSUME NEW Values, NEW table, Tabled(table, Values),
         NEW d \in Deployment, NEW s \in Targets(d), NEW value \in Values,
         NEW new, new = [table EXCEPT ![d][s] = value]
  PROVE  Tabled(new, Values) /\ IsSet(table, new, d, s, value)
<1>1. DOMAIN new = Deployment /\ new[d] = [table[d] EXCEPT ![s] = value]
      /\ \A e \in Deployment : e # d => new[e] = table[e]
  BY DEF Tabled
<1>2. table[d] \in [Targets(d) -> Values]
  BY DEF Tabled
<1>3. new[d] \in [Targets(d) -> Values] /\ new[d][s] = value
      /\ \A u \in Targets(d) : u # s => new[d][u] = table[d][u]
  BY <1>1, <1>2
<1>4. \A e \in Deployment : new[e] \in [Targets(e) -> Values]
  BY <1>1, <1>3 DEF Tabled
<1> QED BY <1>1, <1>3, <1>4 DEF Tabled, IsSet

DeploymentRow == {r \in [state : TargetState \cup {"none"}, step : Step \cup {"none"}] :
                    r.state = "none" => r.step = "none"}
InstallationRow == [install : Nat, data : Nat, status : {"NULL", "PENDING", "SUCCEEDED", "FAILED"}]
ConfirmationRow == [serial : Device, kind : Mutation, install : Nat, data : Nat,
                    state : {"issued", "expired", "consumed"}, for : Nat]

RunnersTyped == DOMAIN runner = Slot /\ \A k \in Slot : Tabled(runner[k], Machine)
\* A run sets one of its machines, the other runs stay.
MachineSet(k, d, s, m) ==
  /\ IsSet(runner[k], runner'[k], d, s, m)
  /\ \A j \in Slot : j # k => runner'[j] = runner[j]

LEMMA SettingMachine ==
  ASSUME RunnersTyped, NEW k \in Slot, NEW d \in Deployment, NEW s \in Targets(d),
         NEW m \in Machine, runner' = [runner EXCEPT ![k][d][s] = m]
  PROVE  RunnersTyped' /\ MachineSet(k, d, s, m)
<1>1. /\ DOMAIN runner' = Slot /\ runner'[k] = [runner[k] EXCEPT ![d][s] = m]
      /\ \A j \in Slot : j # k => runner'[j] = runner[j]
  BY DEF RunnersTyped
<1> DEFINE table == runner[k]
           new == runner'[k]
<1>2. Tabled(table, Machine)
  BY DEF RunnersTyped
<1>3. new = [table EXCEPT ![d][s] = m]
  BY <1>1
<1> HIDE DEF table, new
<1>4. Tabled(new, Machine) /\ IsSet(table, new, d, s, m)
  BY <1>2, <1>3, SettingOne
<1>5. \A j \in Slot : Tabled(runner'[j], Machine)
  BY <1>1, <1>4 DEF RunnersTyped, new
<1> QED BY <1>1, <1>4, <1>5 DEF RunnersTyped, MachineSet, table, new

DeploymentTyped ==
  /\ server \in {"up", "down", "refused"}
  /\ \A w \in work : w.d \in Deployment /\ w.s \in Targets(w.d)
  /\ \A w \in work : w.op = "RECOVER" => w.row \in DeploymentRow
  /\ row \in [Deployment -> DeploymentRow]
  /\ Tabled(target, TargetState) /\ Tabled(steps, Seq(StepRow))
  /\ RunnersTyped /\ Tabled(done, SUBSET Step)
  /\ installation \in [Device -> InstallationRow]
  /\ confirmation \in Seq(ConfirmationRow) /\ Len(confirmation) <= MaxNonces

LEMMA MachinesOfTargets ==
  ASSUME DeploymentTyped, NEW k \in Slot, NEW d \in Deployment, NEW s \in Targets(d)
  PROVE  runner[k][d][s] \in Machine
BY DEF DeploymentTyped, RunnersTyped, Tabled

StepsKept == \A d \in Deployment : \A s \in Targets(d) : Keeps(steps[d][s], steps'[d][s])

LEMMA DevicesOfTargets ==
  ASSUME NEW d \in Deployment
  PROVE  /\ \A s \in Targets(d) : s \in Device
         /\ TargetsOf[d][1] \in Targets(d)
<1>1. TargetsOf[d] \in Seq(Device) /\ Len(TargetsOf[d]) \in 1..4
  BY DeploymentsAssumption
<1>2. DOMAIN TargetsOf[d] = 1..Len(TargetsOf[d])
  BY <1>1, LenProperties
<1>3. 1 \in DOMAIN TargetsOf[d]
  BY <1>1, <1>2
<1> QED BY <1>3 DEF Targets, ToSet, Device

LEMMA StepsAreKept ==
  ASSUME steps' = steps
  PROVE  StepsKept
BY DEF StepsKept, Keeps

LEMMA PersistIs ==
  ASSUME DeploymentTyped, NEW d \in Deployment, NEW s \in Targets(d), NEW state \in TargetState,
         NEW step \in Step \cup {"none"}, NEW attempt \in 1..2, Persist(d, s, state, step, attempt)
  PROVE  /\ row' \in [Deployment -> DeploymentRow]
         /\ row'[d].state = state /\ row'[d].step = step
         /\ \A e \in Deployment : e # d => row'[e] = row[e]
         /\ Tabled(target', TargetState) /\ IsSet(target, target', d, s, state)
         /\ Tabled(steps', Seq(StepRow))
         /\ IsSet(steps, steps', d, s, Recorded(steps[d][s], state, step, attempt))
         /\ StepsKept
<1>1. /\ row' = [row EXCEPT ![d] = [state |-> state, step |-> step]]
      /\ target' = [target EXCEPT ![d][s] = state]
      /\ steps' = [steps EXCEPT ![d][s] = Recorded(steps[d][s], state, step, attempt)]
  BY DEF Persist
<1>2. [state |-> state, step |-> step] \in DeploymentRow
  <2>1. state # "none"
    BY FiveSteps DEF TargetState, Settled, Ended
  <2> QED BY <2>1 DEF DeploymentRow
<1>3. /\ row' \in [Deployment -> DeploymentRow]
      /\ row'[d] = [state |-> state, step |-> step]
      /\ \A e \in Deployment : e # d => row'[e] = row[e]
  <2>1. row \in [Deployment -> DeploymentRow]
    BY DEF DeploymentTyped
  <2> HIDE DEF DeploymentRow
  <2> QED BY <1>1, <1>2, <2>1
<1>4. Tabled(target', TargetState) /\ IsSet(target, target', d, s, state)
  BY <1>1, SettingOne DEF DeploymentTyped
<1>5. steps[d][s] \in Seq(StepRow)
  BY DEF DeploymentTyped, Tabled
<1>6. Recorded(steps[d][s], state, step, attempt) \in Seq(StepRow)
      /\ Keeps(steps[d][s], Recorded(steps[d][s], state, step, attempt))
  BY <1>5, RecordedKeeps
<1>7. Tabled(steps', Seq(StepRow))
      /\ IsSet(steps, steps', d, s, Recorded(steps[d][s], state, step, attempt))
  BY <1>1, <1>6, SettingOne DEF DeploymentTyped
<1>8. StepsKept
  BY <1>6, <1>7 DEF StepsKept, IsSet, Keeps
<1> QED BY <1>3, <1>4, <1>7, <1>8

LEMMA AdvancedIs ==
  ASSUME NEW m \in Machine
  PROVE  /\ Advanced(m).state \in TargetState /\ Advanced(m).step \in Step \cup {"none"}
         /\ m.state = "QUEUED" \/ m.step = "none" =>
              Advanced(m).state = "PRECHECK" /\ Advanced(m).step = "PRECHECK"
         /\ m.state # "QUEUED" /\ m.step = "LAUNCH" =>
              Advanced(m).state = "COMPLETED" /\ Advanced(m).step = "none"
         /\ m.state # "QUEUED" /\ m.step \in Step \ {"LAUNCH"} =>
              /\ Advanced(m).state \in Step /\ Advanced(m).step = Advanced(m).state
              /\ Position(Advanced(m).state) = Position(m.step) + 1
<1>1. m.state \in TargetState /\ m.step \in Step \cup {"none"}
  BY DEF Machine
<1>2. Len(StepOrder) = 5 /\ StepOrder[1] = "PRECHECK" /\ StepOrder[2] = "PREPARE"
      /\ StepOrder[3] = "INSTALL" /\ StepOrder[4] = "VERIFY" /\ StepOrder[5] = "LAUNCH"
  BY DEF StepOrder
<1>3. "COMPLETED" \in TargetState /\ Step \subseteq TargetState
  BY DEF TargetState, Settled, Ended
<1>4. CASE m.state = "QUEUED"
  BY <1>2, <1>3, <1>4, FiveSteps DEF Advanced
<1>5. CASE m.state # "QUEUED" /\ m.step = "LAUNCH"
  BY <1>2, <1>3, <1>5, FiveSteps DEF Advanced
<1>6. CASE m.state # "QUEUED" /\ m.step # "LAUNCH"
  <2> DEFINE next == Position(m.step) + 1
  <2>1. next \in 1..5 /\ (m.step = "none" => next = 1)
    BY <1>1, <1>6, FiveSteps
  <2>2. Advanced(m) = [state |-> StepOrder[next], step |-> StepOrder[next]]
    BY <1>2, <1>6, <2>1 DEF Advanced
  <2>3. StepOrder[next] \in Step /\ Position(StepOrder[next]) = next
    <3> HIDE DEF next
    <3> QED BY <1>2, <2>1, FiveSteps
  <2>4. Advanced(m).state = StepOrder[next] /\ Advanced(m).step = StepOrder[next]
    BY <2>2
  <2> QED BY <1>2, <1>3, <1>6, <2>1, <2>3, <2>4
<1> QED BY <1>4, <1>5, <1>6

MachineOf(next) ==
  IF next.state = "COMPLETED" THEN NoRun
  ELSE [state |-> next.state, step |-> next.step, waiting |-> AwaitsDevice(next.state), wipe |-> 0]

LEMMA MachinesAre ==
  /\ NoRun \in Machine
  /\ \A state \in TargetState : \A step \in Step \cup {"none"} : \A waiting \in BOOLEAN :
       [state |-> state, step |-> step, waiting |-> waiting, wipe |-> 0] \in Machine
<1>1. "COMPLETED" \in TargetState
  BY DEF TargetState, Settled, Ended
<1> QED BY <1>1 DEF NoRun, Machine

LEMMA AdvanceIs ==
  ASSUME DeploymentTyped, NEW k \in Slot, NEW d \in Deployment, NEW s \in Targets(d), Advance(k, d, s)
  PROVE  /\ Persist(d, s, Advanced(runner[k][d][s]).state, Advanced(runner[k][d][s]).step, 1)
         /\ row' \in [Deployment -> DeploymentRow]
         /\ Tabled(target', TargetState) /\ Tabled(steps', Seq(StepRow)) /\ StepsKept
         /\ RunnersTyped'
         /\ MachineSet(k, d, s, MachineOf(Advanced(runner[k][d][s])))
<1> DEFINE next == Advanced(runner[k][d][s])
<1>1. runner[k][d][s] \in Machine
  BY MachinesOfTargets
<1>2. next.state \in TargetState /\ next.step \in Step \cup {"none"}
  BY <1>1, AdvancedIs
<1>3. /\ Persist(d, s, next.state, next.step, 1)
      /\ runner' = [runner EXCEPT ![k][d][s] = MachineOf(next)]
  BY DEF Advance, MachineOf
<1>4. MachineOf(next) \in Machine
  <2>1. AwaitsDevice(next.state) \in BOOLEAN
    BY DEF AwaitsDevice
  <2> HIDE DEF next
  <2> QED BY <1>2, <2>1, MachinesAre DEF MachineOf
<1>5. RunnersTyped
  BY DEF DeploymentTyped
<1> HIDE DEF next
<1>6. RunnersTyped' /\ MachineSet(k, d, s, MachineOf(next))
  BY <1>3, <1>4, <1>5, SettingMachine
<1>7. /\ row' \in [Deployment -> DeploymentRow]
      /\ Tabled(target', TargetState) /\ Tabled(steps', Seq(StepRow)) /\ StepsKept
  BY <1>2, <1>3, PersistIs
<1> QED BY <1>3, <1>6, <1>7 DEF next

LEMMA FailIs ==
  ASSUME DeploymentTyped, NEW k \in Slot, NEW d \in Deployment, NEW s \in Targets(d), Fail(k, d, s)
  PROVE  /\ \/ runner[k][d][s].step = "none" /\ UNCHANGED <<row, target, steps>>
            \/ runner[k][d][s].step \in Step /\ Persist(d, s, "FAILED", runner[k][d][s].step, 1)
         /\ row' \in [Deployment -> DeploymentRow]
         /\ Tabled(target', TargetState) /\ Tabled(steps', Seq(StepRow)) /\ StepsKept
         /\ RunnersTyped' /\ MachineSet(k, d, s, NoRun)
<1>1. runner[k][d][s].step \in Step \cup {"none"}
  <2>1. runner[k][d][s] \in Machine
    BY MachinesOfTargets
  <2> QED BY <2>1 DEF Machine
<1>2. runner' = [runner EXCEPT ![k][d][s] = NoRun]
  BY DEF Fail
<1>3. RunnersTyped' /\ MachineSet(k, d, s, NoRun)
  BY <1>2, MachinesAre, SettingMachine DEF DeploymentTyped
<1>4. CASE runner[k][d][s].step = "none" /\ UNCHANGED <<row, target, steps>>
  BY <1>3, <1>4, StepsAreKept DEF DeploymentTyped
<1>5. CASE runner[k][d][s].step # "none" /\ Persist(d, s, "FAILED", runner[k][d][s].step, 1)
  <2>1. "FAILED" \in TargetState /\ runner[k][d][s].step \in Step
    BY <1>1, <1>5 DEF TargetState, Settled
  <2>2. /\ row' \in [Deployment -> DeploymentRow]
        /\ Tabled(target', TargetState) /\ Tabled(steps', Seq(StepRow)) /\ StepsKept
    BY <2>1, <1>5, PersistIs
  <2> QED BY <1>3, <1>5, <2>1, <2>2
<1> QED BY <1>4, <1>5 DEF Fail

LEMMA DoneIsSet ==
  ASSUME DeploymentTyped, NEW d \in Deployment, NEW s \in Targets(d), NEW did \in SUBSET Step,
         done' = [done EXCEPT ![d][s] = did]
  PROVE  Tabled(done', SUBSET Step) /\ IsSet(done, done', d, s, did)
BY SettingOne DEF DeploymentTyped

LEMMA LoadIs ==
  ASSUME DeploymentTyped, NEW d \in Deployment, Load(d)
  PROVE  /\ RunnersTyped'
         /\ disturbed' = IF Running(d) THEN disturbed \cup {d} ELSE disturbed
         /\ \E k \in Slot :
              /\ ~Under(k, d) /\ \A j \in 1..(k - 1) : Under(j, d)
              /\ \A j \in Slot : j # k => runner'[j] = runner[j]
              /\ \A e \in Deployment : e # d => runner'[k][e] = runner[k][e]
              /\ \A s \in Targets(d) : runner'[k][d][s] =
                   IF target[d][s] \in Settled THEN NoRun ELSE Loaded(d, s)
<1>1. PICK k \in Slot :
        /\ ~Under(k, d) /\ \A j \in 1..(k - 1) : Under(j, d)
        /\ runner' = [runner EXCEPT ![k][d] = [s \in DOMAIN runner[k][d] |->
               IF target[d][s] \in Settled THEN NoRun ELSE Loaded(d, s)]]
  BY DEF Load
<1>2. /\ DOMAIN runner = Slot /\ DOMAIN runner[k] = Deployment /\ DOMAIN runner[k][d] = Targets(d)
      /\ \A j \in Slot : Tabled(runner[j], Machine)
      /\ \A e \in Deployment : runner[k][e] \in [Targets(e) -> Machine]
  BY DEF DeploymentTyped, RunnersTyped, Tabled
<1>3. ASSUME NEW s \in Targets(d) PROVE Loaded(d, s) \in Machine
  <2>1. target[d][s] \in TargetState /\ steps[d][s] \in Seq(StepRow)
    BY DEF DeploymentTyped, Tabled
  <2>2. LastIn(steps[d][s], "RUNNING") \in Step \cup {"none"}
    BY <2>1, LastInIs
  <2> QED BY <2>1, <2>2, MachinesAre DEF Loaded
<1> DEFINE loaded == [s \in Targets(d) |-> IF target[d][s] \in Settled THEN NoRun ELSE Loaded(d, s)]
<1>4. loaded \in [Targets(d) -> Machine]
  BY <1>3, MachinesAre
<1>5. runner' = [runner EXCEPT ![k][d] = loaded]
  BY <1>1, <1>2
<1>6. \A s \in Targets(d) : loaded[s] = IF target[d][s] \in Settled THEN NoRun ELSE Loaded(d, s)
  OBVIOUS
<1> HIDE DEF loaded
<1>7. /\ DOMAIN runner' = Slot /\ \A j \in Slot : j # k => runner'[j] = runner[j]
      /\ DOMAIN runner'[k] = Deployment /\ runner'[k][d] = loaded
      /\ \A e \in Deployment : e # d => runner'[k][e] = runner[k][e]
  BY <1>2, <1>5
<1>8. Tabled(runner'[k], Machine)
  BY <1>2, <1>4, <1>7 DEF Tabled
<1>9. RunnersTyped'
  BY <1>2, <1>7, <1>8 DEF RunnersTyped
<1>10. disturbed' = IF Running(d) THEN disturbed \cup {d} ELSE disturbed
  BY DEF Load
<1> QED BY <1>1, <1>6, <1>7, <1>9, <1>10

\* Of the steps that leave the confirmations and the installations alone.
LEMMA TypedAgain ==
  ASSUME DeploymentTyped, server' \in {"up", "down", "refused"}, work' \subseteq work,
         row' \in [Deployment -> DeploymentRow],
         Tabled(target', TargetState), Tabled(steps', Seq(StepRow)),
         RunnersTyped', Tabled(done', SUBSET Step),
         installation' \in [Device -> InstallationRow], confirmation' = confirmation
  PROVE  DeploymentTyped'
BY DEF DeploymentTyped, Tabled

ConfirmationTurned(n, state, for) ==
  [confirmation EXCEPT ![n] = [confirmation[n] EXCEPT !.state = state, !.for = for]]

LEMMA ConfirmationsAreTyped ==
  ASSUME DeploymentTyped, NEW n \in DOMAIN confirmation, NEW state \in {"expired", "consumed"},
         NEW for \in Nat
  PROVE  /\ ConfirmationTurned(n, state, for) \in Seq(ConfirmationRow)
         /\ Len(ConfirmationTurned(n, state, for)) = Len(confirmation)
<1>1. confirmation \in Seq(ConfirmationRow)
  BY DEF DeploymentTyped
<1>2. n \in 1..Len(confirmation) /\ confirmation[n] \in ConfirmationRow
  BY <1>1, LenProperties
<1> DEFINE changed == [confirmation[n] EXCEPT !.state = state, !.for = for]
<1>3. changed \in ConfirmationRow
  BY <1>2 DEF ConfirmationRow
<1>4. ConfirmationTurned(n, state, for) = [confirmation EXCEPT ![n] = changed]
  BY DEF ConfirmationTurned
<1> HIDE DEF changed, ConfirmationRow
<1> QED BY <1>1, <1>2, <1>3, <1>4, ExceptSeq

LEMMA ConfirmingIsTyped ==
  ASSUME DeploymentTyped,
         \/ \E d \in Deployment : IssueConfirmation(d)
         \/ \E n \in 1..MaxNonces : ConfirmationExpires(n)
  PROVE  DeploymentTyped' /\ StepsKept
<1> USE DEF DeploymentTyped
<1>1. UNCHANGED <<server, work, row, target, steps, installation, runner, done>> => StepsKept
  BY StepsAreKept
<1>2. ASSUME NEW d \in Deployment, IssueConfirmation(d) PROVE DeploymentTyped' /\ StepsKept
  <2> DEFINE leader == TargetsOf[d][1]
             new == [serial |-> leader, kind |-> MutationOf[d], install |-> installation[leader].install,
                     data |-> installation[leader].data, state |-> "issued", for |-> 0]
  <2>1. leader \in Device
    BY DevicesOfTargets
  <2>2. installation[leader] \in InstallationRow
    BY <2>1
  <2>3. MutationOf[d] \in Mutation
    BY <1>2, DeploymentsAssumption DEF IssueConfirmation
  <2>4. new \in ConfirmationRow
    BY <2>1, <2>2, <2>3 DEF ConfirmationRow, InstallationRow
  <2>5. /\ confirmation' = Append(confirmation, new) /\ Len(confirmation) < MaxNonces
        /\ UNCHANGED <<server, work, row, target, steps, installation, runner, done>>
    BY <1>2 DEF IssueConfirmation
  <2> HIDE DEF new, leader
  <2>6. confirmation' \in Seq(ConfirmationRow) /\ Len(confirmation') = Len(confirmation) + 1
        /\ Len(confirmation) \in Nat
    BY <2>4, <2>5, AppendProperties, LenProperties
  <2>7. Len(confirmation') <= MaxNonces
    BY <2>5, <2>6, DeploymentsAssumption
  <2> QED BY <1>1, <2>5, <2>6, <2>7 DEF RunnersTyped
<1>3. ASSUME NEW n \in 1..MaxNonces, ConfirmationExpires(n) PROVE DeploymentTyped' /\ StepsKept
  <2>1. /\ n \in DOMAIN confirmation
        /\ confirmation' = [confirmation EXCEPT ![n].state = "expired"]
        /\ UNCHANGED <<server, work, row, target, steps, installation, runner, done>>
    BY <1>3 DEF ConfirmationExpires
  <2>2. confirmation[n] \in ConfirmationRow
    BY <2>1, LenProperties
  <2>3. confirmation' = ConfirmationTurned(n, "expired", confirmation[n].for)
        /\ confirmation[n].for \in Nat
    BY <2>1, <2>2 DEF ConfirmationRow, ConfirmationTurned
  <2>4. confirmation' \in Seq(ConfirmationRow) /\ Len(confirmation') = Len(confirmation)
    <3>1. "expired" \in {"expired", "consumed"}
      OBVIOUS
    <3>2. /\ ConfirmationTurned(n, "expired", confirmation[n].for) \in Seq(ConfirmationRow)
          /\ Len(ConfirmationTurned(n, "expired", confirmation[n].for)) = Len(confirmation)
      BY <2>1, <2>3, <3>1, ConfirmationsAreTyped, Zenon
    <3> QED BY <2>3, <3>2, Zenon
  <2> QED BY <1>1, <2>1, <2>4 DEF RunnersTyped
<1> QED BY <1>2, <1>3

LEMMA InsertingIsTyped ==
  ASSUME DeploymentTyped, NEW d \in Deployment,
         Create(d) \/ \E n \in 1..MaxNonces : CreateDestructive(d, n)
  PROVE  DeploymentTyped' /\ StepsKept
<1>1. Insert(d)
  BY DEF Create, CreateDestructive
<1>2. /\ row' = [row EXCEPT ![d].state = "QUEUED"] /\ ~Created(d)
      /\ UNCHANGED <<server, work, target, steps, installation, runner, done>>
  BY <1>1 DEF Insert
<1>3. row[d] \in DeploymentRow
  BY DEF DeploymentTyped
<1>4. row' = [row EXCEPT ![d] = [row[d] EXCEPT !.state = "QUEUED"]]
  BY <1>2
<1>5. [row[d] EXCEPT !.state = "QUEUED"] \in DeploymentRow
  BY <1>3, FiveSteps DEF DeploymentRow, TargetState
<1>6. row' \in [Deployment -> DeploymentRow]
  <2>1. row \in [Deployment -> DeploymentRow]
    BY DEF DeploymentTyped
  <2> HIDE DEF DeploymentRow
  <2> QED BY <1>4, <1>5, <2>1
<1>7. confirmation' \in Seq(ConfirmationRow) /\ Len(confirmation') <= MaxNonces
  <2>1. CASE confirmation' = confirmation
    BY <2>1 DEF DeploymentTyped
  <2>2. CASE \E n \in 1..MaxNonces : CreateDestructive(d, n)
    <3>1. PICK n \in 1..MaxNonces : CreateDestructive(d, n)
      BY <2>2
    <3>2. n \in DOMAIN confirmation /\ d \in Nat
          /\ confirmation' = [confirmation EXCEPT ![n].state = "consumed", ![n].for = d]
      BY <3>1 DEF CreateDestructive, Deployment
    <3>3. confirmation' = ConfirmationTurned(n, "consumed", d)
      <4>1. DOMAIN confirmation = 1..Len(confirmation) /\ confirmation \in [DOMAIN confirmation -> ConfirmationRow]
        BY LenProperties DEF DeploymentTyped
      <4> QED BY <3>2, <4>1 DEF ConfirmationTurned
    <3>4. confirmation' \in Seq(ConfirmationRow) /\ Len(confirmation') = Len(confirmation)
      <4>1. "consumed" \in {"expired", "consumed"}
        OBVIOUS
      <4>2. /\ ConfirmationTurned(n, "consumed", d) \in Seq(ConfirmationRow)
            /\ Len(ConfirmationTurned(n, "consumed", d)) = Len(confirmation)
        BY <3>2, <4>1, ConfirmationsAreTyped, Zenon
      <4> QED BY <3>3, <4>2, Zenon
    <3> QED BY <3>4 DEF DeploymentTyped
  <2> QED BY <2>1, <2>2 DEF Create
<1> QED BY <1>2, <1>6, <1>7, StepsAreKept DEF DeploymentTyped, RunnersTyped

LEMMA RequestingIsTyped ==
  ASSUME DeploymentTyped, NEW d \in Deployment, Start(d) \/ Retry(d) \/ Cancel(d)
  PROVE  DeploymentTyped' /\ StepsKept
<1>1. CASE Start(d)
  <2>1. Load(d) /\ UNCHANGED <<server, work, database, done>>
    BY <1>1 DEF Start
  <2>2. RunnersTyped'
    BY <2>1, LoadIs
  <2> QED BY <2>1, <2>2, StepsAreKept DEF DeploymentTyped, database
<1>2. CASE Retry(d)
  <2>1. PICK failed \in SUBSET Targets(d) :
          work' = Items(d, "RETRY", failed) \cup Items(d, "RUN", {TargetsOf[d][1]})
    BY <1>2 DEF Retry, Targets
  <2>2. \A w \in work' : w.d \in Deployment /\ w.s \in Targets(w.d) /\ w.op # "RECOVER"
    BY <2>1, DevicesOfTargets DEF Items
  <2>3. UNCHANGED <<server, database, runner, done>>
    BY <1>2 DEF Retry
  <2> QED BY <2>2, <2>3, StepsAreKept DEF DeploymentTyped, RunnersTyped, database
<1>3. CASE Cancel(d)
  <2>1. PICK open \in SUBSET Targets(d) : work' = Items(d, "CANCEL", open)
    BY <1>3 DEF Cancel, Targets
  <2>2. \A w \in work' : w.d \in Deployment /\ w.s \in Targets(w.d) /\ w.op # "RECOVER"
    BY <2>1 DEF Items
  <2>3. UNCHANGED <<server, database, runner, done>>
    BY <1>3 DEF Cancel
  <2> QED BY <2>2, <2>3, StepsAreKept DEF DeploymentTyped, RunnersTyped, database
<1> QED BY <1>1, <1>2, <1>3

LEMMA DispatchingIsTyped ==
  ASSUME DeploymentTyped, DispatchRetry \/ RunAfterRetry \/ DispatchCancel \/ RecoverTarget
  PROVE  DeploymentTyped' /\ StepsKept
<1>1. CASE DispatchRetry
  <2>1. PICK w \in work :
          LET d == w.d  s == w.s  step == LastIn(steps[d][s], "FAILED")
          IN  /\ \/ step = "none" /\ work' = {} /\ UNCHANGED <<row, target, steps>>
                 \/ step # "none" /\ work' = work \ {w} /\ Persist(d, s, step, step, 2)
              /\ UNCHANGED <<server, installation, confirmation, runner, done>>
    BY <1>1 DEF DispatchRetry
  <2>2. w.d \in Deployment /\ w.s \in Targets(w.d)
    BY DEF DeploymentTyped
  <2>3. steps[w.d][w.s] \in Seq(StepRow)
    BY <2>2 DEF DeploymentTyped, Tabled
  <2>4. LastIn(steps[w.d][w.s], "FAILED") \in Step \cup {"none"}
    BY <2>3, LastInIs
  <2>5. work' \subseteq work /\ UNCHANGED <<server, installation, confirmation, runner, done>>
    BY <2>1
  <2>6. CASE UNCHANGED <<row, target, steps>>
    BY <2>5, <2>6, StepsAreKept, TypedAgain DEF DeploymentTyped, RunnersTyped
  <2>7. CASE /\ LastIn(steps[w.d][w.s], "FAILED") # "none"
             /\ Persist(w.d, w.s, LastIn(steps[w.d][w.s], "FAILED"), LastIn(steps[w.d][w.s], "FAILED"), 2)
    <3>1. LastIn(steps[w.d][w.s], "FAILED") \in TargetState
      BY <2>4, <2>7 DEF TargetState
    <3>2. /\ row' \in [Deployment -> DeploymentRow]
          /\ Tabled(target', TargetState) /\ Tabled(steps', Seq(StepRow)) /\ StepsKept
      BY <2>2, <2>4, <2>7, <3>1, PersistIs
    <3> QED BY <2>5, <3>2, TypedAgain DEF DeploymentTyped, RunnersTyped
  <2> QED BY <2>1, <2>6, <2>7
<1>2. CASE RunAfterRetry
  <2>1. PICK w \in work : work' = work \ {w} /\ Load(w.d) /\ UNCHANGED <<server, database, done>>
    BY <1>2 DEF RunAfterRetry
  <2>2. w.d \in Deployment
    BY DEF DeploymentTyped
  <2>3. RunnersTyped'
    BY <2>1, <2>2, LoadIs
  <2> QED BY <2>1, <2>3, StepsAreKept, TypedAgain DEF DeploymentTyped, database
<1>3. CASE DispatchCancel
  <2>1. PICK w \in work :
          LET d == w.d  s == w.s
          IN  /\ work' \subseteq work
              /\ \/ Persist(d, s, "CANCELLED", Loaded(d, s).step, 1)
                 \/ UNCHANGED <<row, target, steps>>
              /\ UNCHANGED <<server, installation, confirmation, runner, done>>
    BY <1>3 DEF DispatchCancel
  <2>2. w.d \in Deployment /\ w.s \in Targets(w.d)
    BY DEF DeploymentTyped
  <2>3. steps[w.d][w.s] \in Seq(StepRow)
    BY <2>2 DEF DeploymentTyped, Tabled
  <2>4. Loaded(w.d, w.s).step \in Step \cup {"none"} /\ "CANCELLED" \in TargetState
    BY <2>3, LastInIs DEF Loaded, TargetState, Settled, Ended
  <2>5. CASE UNCHANGED <<row, target, steps>>
    BY <2>1, <2>5, StepsAreKept, TypedAgain DEF DeploymentTyped, RunnersTyped
  <2>6. CASE Persist(w.d, w.s, "CANCELLED", Loaded(w.d, w.s).step, 1)
    <3>2. /\ row' \in [Deployment -> DeploymentRow]
          /\ Tabled(target', TargetState) /\ Tabled(steps', Seq(StepRow)) /\ StepsKept
      BY <2>2, <2>4, <2>6, PersistIs
    <3> QED BY <2>1, <3>2, TypedAgain DEF DeploymentTyped, RunnersTyped
  <2> QED BY <2>1, <2>5, <2>6
<1>4. CASE RecoverTarget
  <2>1. PICK w \in work :
          LET d == w.d  s == w.s  active == Loaded(d, s).step
          IN  /\ work' \subseteq work
              /\ \/ active # "none" /\ Persist(d, s, "FAILED", active, 1)
                 \/ UNCHANGED <<row, target, steps>>
              /\ UNCHANGED <<server, installation, confirmation, runner, done>>
    BY <1>4 DEF RecoverTarget
  <2>2. w.d \in Deployment /\ w.s \in Targets(w.d)
    BY DEF DeploymentTyped
  <2>3. steps[w.d][w.s] \in Seq(StepRow)
    BY <2>2 DEF DeploymentTyped, Tabled
  <2>4. Loaded(w.d, w.s).step \in Step \cup {"none"} /\ "FAILED" \in TargetState
    BY <2>3, LastInIs DEF Loaded, TargetState, Settled
  <2>5. CASE UNCHANGED <<row, target, steps>>
    BY <2>1, <2>5, StepsAreKept, TypedAgain DEF DeploymentTyped, RunnersTyped
  <2>6. CASE Persist(w.d, w.s, "FAILED", Loaded(w.d, w.s).step, 1)
    <3>2. /\ row' \in [Deployment -> DeploymentRow]
          /\ Tabled(target', TargetState) /\ Tabled(steps', Seq(StepRow)) /\ StepsKept
      BY <2>2, <2>4, <2>6, PersistIs
    <3> QED BY <2>1, <3>2, TypedAgain DEF DeploymentTyped, RunnersTyped
  <2> QED BY <2>1, <2>5, <2>6
<1> QED BY <1>1, <1>2, <1>3, <1>4

\* What RecoverFromRow does for an item, with what it was found with.
Taken(rows, from) ==
  IF \E i \in DOMAIN rows : rows[i].step = from.step /\ rows[i].attempt = 1
  THEN rows
  ELSE Append(rows, [step |-> from.step, attempt |-> 1, state |-> "RUNNING"])

RecoversFromRow(w) ==
  LET d == w.d  s == w.s  from == w.row
      inserted == Taken(steps[d][s], from)
      active == LastIn(inserted, "RUNNING")
  IN  /\ server = "up" /\ w.op = "RECOVER"
      /\ Loaded(d, s).step = "none" /\ from.step # "none"
      /\ \/ /\ active = from.step /\ from.state \notin Ended
            /\ work' = work \ {w}
            /\ row' = [row EXCEPT ![d] = [state |-> "FAILED", step |-> active]]
            /\ target' = [target EXCEPT ![d][s] = "FAILED"]
            /\ steps' = [steps EXCEPT ![d][s] = Recorded(inserted, "FAILED", active, 1)]
            /\ UNCHANGED server
         \/ /\ ~ (active = from.step /\ from.state \notin Ended)
            /\ server' = "refused" /\ work' = {}
            /\ target' = [target EXCEPT ![d][s] = from.state]
            /\ steps' = [steps EXCEPT ![d][s] = inserted]
            /\ UNCHANGED row
      /\ UNCHANGED <<installation, confirmation, runner, done, disturbed, counters>>

LEMMA RecoverFromRowIs ==
  ASSUME RecoverFromRow
  PROVE  \E w \in work : RecoversFromRow(w)
BY Zenon DEF RecoverFromRow, RecoversFromRow, Taken, Requested

LEMMA TakenIsAdded ==
  ASSUME NEW rows, NEW from
  PROVE  Taken(rows, from) = Added(rows, from.step, 1)
BY DEF Taken, Added, Has

LEMMA RecoveringIsTyped ==
  ASSUME DeploymentTyped, RecoverFromRow
  PROVE  DeploymentTyped' /\ StepsKept
<1>1. PICK w \in work : RecoversFromRow(w)
  BY RecoverFromRowIs
<1> DEFINE d == w.d
           s == w.s
           from == w.row
           inserted == Added(steps[d][s], from.step, 1)
           active == LastIn(inserted, "RUNNING")
           failed == Recorded(inserted, "FAILED", active, 1)
<1>2. d \in Deployment /\ s \in Targets(d) /\ from \in DeploymentRow /\ from.step # "none"
  BY <1>1 DEF DeploymentTyped, RecoversFromRow
<1>3. steps[d][s] \in Seq(StepRow)
  BY <1>2 DEF DeploymentTyped, Tabled
<1>4. from.step \in Step /\ from.state \in TargetState
  BY <1>2 DEF DeploymentRow
<1>5. inserted \in Seq(StepRow) /\ Keeps(steps[d][s], inserted)
  <2> DEFINE rows == steps[d][s]
             step == from.step
  <2>1. rows \in Seq(StepRow) /\ step \in Step /\ 1 \in 1..2
    BY <1>3, <1>4
  <2> HIDE DEF rows, step
  <2>2. Added(rows, step, 1) \in Seq(StepRow) /\ Keeps(rows, Added(rows, step, 1))
    BY <2>1, AddedKeeps
  <2> QED BY <2>2 DEF rows, step
<1>6. Taken(steps[d][s], from) = inserted
  BY TakenIsAdded
<1>7. active \in Step \cup {"none"}
  <2> HIDE DEF inserted
  <2> QED BY <1>5, LastInIs
<1>8. failed \in Seq(StepRow) /\ Keeps(steps[d][s], failed)
  <2> HIDE DEF inserted, active
  <2>1. failed \in Seq(StepRow) /\ Keeps(inserted, failed)
    BY <1>5, <1>7, RecordedKeeps
  <2> HIDE DEF failed
  <2> QED BY <1>5, <2>1 DEF Keeps
<1>9. UNCHANGED <<installation, confirmation, runner, done>> /\ server = "up"
  BY <1>1 DEF RecoversFromRow
<1>10. CASE /\ active = from.step /\ work' = work \ {w} /\ UNCHANGED server
            /\ row' = [row EXCEPT ![d] = [state |-> "FAILED", step |-> active]]
            /\ target' = [target EXCEPT ![d][s] = "FAILED"]
            /\ steps' = [steps EXCEPT ![d][s] = failed]
  <2> HIDE DEF d, s, from, inserted, failed, active
  <2>1. "FAILED" \in TargetState
    BY DEF TargetState, Settled
  <2>2. [state |-> "FAILED", step |-> active] \in DeploymentRow
    BY <2>1, <1>7 DEF DeploymentRow
  <2>3. row' \in [Deployment -> DeploymentRow]
    <3>1. row \in [Deployment -> DeploymentRow]
      BY DEF DeploymentTyped
    <3> HIDE DEF DeploymentRow
    <3> QED BY <1>10, <2>2, <3>1
  <2>4. Tabled(target', TargetState)
    BY <1>2, <1>10, <2>1, SettingOne DEF DeploymentTyped
  <2>5. Tabled(steps', Seq(StepRow)) /\ IsSet(steps, steps', d, s, failed)
    BY <1>2, <1>8, <1>10, SettingOne DEF DeploymentTyped
  <2>6. StepsKept
    BY <1>8, <2>5 DEF StepsKept, IsSet, Keeps
  <2> QED BY <1>9, <1>10, <2>3, <2>4, <2>5, <2>6, TypedAgain DEF DeploymentTyped, RunnersTyped
<1>11. CASE /\ server' = "refused" /\ work' = {} /\ UNCHANGED row
            /\ target' = [target EXCEPT ![d][s] = from.state]
            /\ steps' = [steps EXCEPT ![d][s] = inserted]
  <2> DEFINE state == from.state
  <2>1. state \in TargetState /\ target' = [target EXCEPT ![d][s] = state]
    BY <1>4, <1>11
  <2> HIDE DEF d, s, from, inserted, failed, active, state
  <2>4. Tabled(target', TargetState)
    BY <1>2, <2>1, SettingOne DEF DeploymentTyped
  <2>5. Tabled(steps', Seq(StepRow)) /\ IsSet(steps, steps', d, s, inserted)
    BY <1>2, <1>5, <1>11, SettingOne DEF DeploymentTyped
  <2>6. StepsKept
    BY <1>5, <2>5 DEF StepsKept, IsSet, Keeps
  <2> QED BY <1>9, <1>11, <2>4, <2>5, <2>6, TypedAgain DEF DeploymentTyped, RunnersTyped
<1> QED
  <2>1. \/ /\ active = from.step /\ work' = work \ {w} /\ UNCHANGED server
           /\ row' = [row EXCEPT ![d] = [state |-> "FAILED", step |-> active]]
           /\ target' = [target EXCEPT ![d][s] = "FAILED"]
           /\ steps' = [steps EXCEPT ![d][s] = failed]
        \/ /\ server' = "refused" /\ work' = {} /\ UNCHANGED row
           /\ target' = [target EXCEPT ![d][s] = from.state]
           /\ steps' = [steps EXCEPT ![d][s] = inserted]
    <3> HIDE DEF inserted
    <3> QED BY <1>1, <1>6 DEF RecoversFromRow
  <2> QED BY <2>1, <1>10, <1>11

\* The wipes of a target are recorded with its installation.
LEMMA RecordWipeIs ==
  ASSUME DeploymentTyped, NEW d \in Deployment, NEW s \in Targets(d), RecordWipe(d, s)
  PROVE  installation' \in [Device -> InstallationRow]
<1>1. s \in Device
  BY DevicesOfTargets
<1>2. installation[s] \in InstallationRow /\ installation \in [Device -> InstallationRow]
  BY <1>1 DEF DeploymentTyped
<1> DEFINE wiped == [install |-> IF MutationOf[d] = "UNINSTALL_REINSTALL" THEN installation[s].install + 1
                                 ELSE installation[s].install,
                     data |-> installation[s].data + 1, status |-> "PENDING"]
<1>3. installation' = [installation EXCEPT ![s] = wiped]
  BY <1>1, <1>2 DEF RecordWipe, InstallationRow
<1>4. wiped \in InstallationRow
  BY <1>2 DEF InstallationRow
<1> HIDE DEF wiped, InstallationRow
<1> QED BY <1>1, <1>2, <1>3, <1>4

LEMMA StatusIsTyped ==
  ASSUME DeploymentTyped, NEW s \in Device, NEW status \in {"NULL", "PENDING", "SUCCEEDED", "FAILED"},
         installation' = [installation EXCEPT ![s].status = status]
  PROVE  installation' \in [Device -> InstallationRow]
<1>1. installation[s] \in InstallationRow /\ installation \in [Device -> InstallationRow]
  BY DEF DeploymentTyped
<1> DEFINE changed == [installation[s] EXCEPT !.status = status]
<1>2. installation' = [installation EXCEPT ![s] = changed]
  BY <1>1
<1>3. changed \in InstallationRow
  BY <1>1 DEF InstallationRow
<1> HIDE DEF changed, InstallationRow
<1> QED BY <1>1, <1>2, <1>3

\* The machine of a target begins to wait.
Waits(k, d, s, id) == [runner[k][d][s] EXCEPT !.waiting = TRUE, !.wipe = id]

LEMMA WaitingIs ==
  ASSUME DeploymentTyped, NEW k \in Slot, NEW d \in Deployment, NEW s \in Targets(d),
         Wipe(k, d, s) \/ Resume(k, d, s)
  PROVE  \E id \in Nat : RunnersTyped' /\ MachineSet(k, d, s, Waits(k, d, s, id))
<1>1. runner[k][d][s] \in Machine
  BY MachinesOfTargets
<1>2. PICK id \in Nat : runner' = [runner EXCEPT ![k][d][s] = Waits(k, d, s, id)]
  <2>1. CASE Wipe(k, d, s)
    <3>1. installation'[s].data \in Nat
      <4>1. RecordWipe(d, s) /\ s \in Device
        BY <2>1, DevicesOfTargets DEF Wipe
      <4>2. installation' \in [Device -> InstallationRow]
        BY <4>1, RecordWipeIs
      <4> QED BY <4>1, <4>2 DEF InstallationRow
    <3>2. runner' = [runner EXCEPT ![k][d][s].waiting = TRUE, ![k][d][s].wipe = installation'[s].data]
      BY <2>1 DEF Wipe
    <3>3. runner' = [runner EXCEPT ![k][d][s] = Waits(k, d, s, installation'[s].data)]
      BY <3>2 DEF Waits, DeploymentTyped, RunnersTyped, Tabled
    <3> QED BY <3>1, <3>3
  <2>2. CASE Resume(k, d, s)
    <3>1. runner[k][d][s].wipe \in Nat
      BY <1>1 DEF Machine
    <3>2. runner' = [runner EXCEPT ![k][d][s].waiting = TRUE]
      BY <2>2 DEF Resume
    <3>3. Waits(k, d, s, runner[k][d][s].wipe) = [runner[k][d][s] EXCEPT !.waiting = TRUE]
      BY <1>1 DEF Waits, Machine
    <3>4. runner' = [runner EXCEPT ![k][d][s] = [runner[k][d][s] EXCEPT !.waiting = TRUE]]
      BY <3>2 DEF DeploymentTyped, RunnersTyped, Tabled
    <3> QED BY <3>1, <3>3, <3>4
  <2> QED BY <2>1, <2>2
<1>3. Waits(k, d, s, id) \in Machine
  BY <1>1 DEF Waits, Machine
<1> QED BY <1>2, <1>3, SettingMachine DEF DeploymentTyped

LEMMA RunningIsTyped ==
  ASSUME DeploymentTyped, NEW k \in Slot, NEW d \in Deployment, NEW s \in Targets(d),
         \/ Precheck(k, d, s) \/ PrepareNothing(k, d, s) \/ Wipe(k, d, s) \/ Resume(k, d, s)
         \/ Wiped(k, d, s) \/ Performed(k, d, s)
  PROVE  DeploymentTyped' /\ StepsKept
<1>0. done[d][s] \in SUBSET Step /\ runner[k][d][s] \in Machine
  BY MachinesOfTargets DEF DeploymentTyped, Tabled
<1>1. ASSUME Tabled(done', SUBSET Step), Advance(k, d, s) \/ Fail(k, d, s), installation' \in [Device -> InstallationRow],
             UNCHANGED <<server, work, confirmation>>
      PROVE  DeploymentTyped' /\ StepsKept
  <2>2. /\ row' \in [Deployment -> DeploymentRow]
        /\ Tabled(target', TargetState) /\ Tabled(steps', Seq(StepRow)) /\ StepsKept
        /\ RunnersTyped'
    <3>1. CASE Advance(k, d, s)
      BY <3>1, AdvanceIs
    <3>2. CASE Fail(k, d, s)
      BY <3>2, FailIs
    <3> QED BY <1>1, <3>1, <3>2
  <2>3. server' \in {"up", "down", "refused"} /\ work' \subseteq work
    BY <1>1 DEF DeploymentTyped
  <2> QED BY <1>1, <2>2, <2>3, TypedAgain
<1>2. installation \in [Device -> InstallationRow] /\ s \in Device
  BY DevicesOfTargets DEF DeploymentTyped
<1>3. /\ \A did \in SUBSET Step : done' = [done EXCEPT ![d][s] = did] => Tabled(done', SUBSET Step)
      /\ UNCHANGED done => Tabled(done', SUBSET Step)
  BY DoneIsSet DEF DeploymentTyped
<1>4. CASE Precheck(k, d, s)
  <2> DEFINE did == IF runner'[k][d][s].state = "PREPARE" THEN done[d][s] \cup {"PRECHECK"} ELSE done[d][s]
  <2>1. did \in SUBSET Step
    BY <1>0, FiveSteps
  <2>2. /\ done' = [done EXCEPT ![d][s] = did] /\ (Advance(k, d, s) \/ Fail(k, d, s))
        /\ UNCHANGED <<server, work, installation, confirmation>>
    BY <1>4 DEF Precheck
  <2> HIDE DEF did
  <2> QED BY <1>1, <1>2, <1>3, <2>1, <2>2
<1>5. CASE PrepareNothing(k, d, s)
  <2> DEFINE did == done[d][s] \cup {"PREPARE"}
  <2>1. did \in SUBSET Step
    BY <1>0, FiveSteps
  <2>2. /\ done' = [done EXCEPT ![d][s] = did] /\ Advance(k, d, s)
        /\ UNCHANGED <<server, work, installation, confirmation>>
    BY <1>5 DEF PrepareNothing
  <2> HIDE DEF did
  <2> QED BY <1>1, <1>2, <1>3, <2>1, <2>2
<1>6. CASE Wipe(k, d, s)
  <2> DEFINE did == done[d][s] \ {"PREPARE", "INSTALL", "VERIFY", "LAUNCH"}
  <2>1. did \in SUBSET Step
    BY <1>0
  <2>2. /\ done' = [done EXCEPT ![d][s] = did] /\ RecordWipe(d, s)
        /\ UNCHANGED <<server, work, row, target, steps, confirmation>>
    BY <1>6 DEF Wipe
  <2> HIDE DEF did
  <2>3. installation' \in [Device -> InstallationRow]
    BY <2>2, RecordWipeIs
  <2>4. RunnersTyped' /\ Tabled(done', SUBSET Step)
    BY <1>6, <2>1, <2>2, WaitingIs, DoneIsSet
  <2> QED BY <2>2, <2>3, <2>4, StepsAreKept, TypedAgain DEF DeploymentTyped
<1>7. CASE Resume(k, d, s)
  <2>1. UNCHANGED <<server, work, database, done>>
    BY <1>7 DEF Resume
  <2>2. RunnersTyped'
    BY <1>7, WaitingIs
  <2> QED BY <2>1, <2>2, StepsAreKept, TypedAgain DEF DeploymentTyped, database
<1>8. CASE Wiped(k, d, s)
  <2>1. PICK ok \in BOOLEAN :
          LET pending == /\ installation[s].status = "PENDING"
                         /\ installation[s].data = runner[k][d][s].wipe
          IN  /\ installation' = [installation EXCEPT ![s].status =
                   IF ~pending THEN @ ELSE IF ok THEN "SUCCEEDED" ELSE "FAILED"]
              /\ IF ok /\ pending
                 THEN /\ done' = [done EXCEPT ![d][s] = @ \cup {"PREPARE"}]
                      /\ Advance(k, d, s)
                 ELSE UNCHANGED done /\ Fail(k, d, s)
    BY <1>8 DEF Wiped
  <2>2. UNCHANGED <<server, work, confirmation>>
    BY <1>8 DEF Wiped
  <2> DEFINE pending == /\ installation[s].status = "PENDING"
                        /\ installation[s].data = runner[k][d][s].wipe
             status == IF ~pending THEN installation[s].status
                       ELSE IF ok THEN "SUCCEEDED" ELSE "FAILED"
  <2>3. status \in {"NULL", "PENDING", "SUCCEEDED", "FAILED"}
    <3>1. installation[s].status \in {"NULL", "PENDING", "SUCCEEDED", "FAILED"}
      BY <1>2 DEF InstallationRow
    <3> QED BY <3>1
  <2>4. installation' = [installation EXCEPT ![s].status = status]
    BY <2>1
  <2>5. installation' \in [Device -> InstallationRow]
    <3> HIDE DEF status
    <3> QED BY <1>2, <2>3, <2>4, StatusIsTyped
  <2> HIDE DEF status
  <2> DEFINE did == done[d][s] \cup {"PREPARE"}
  <2>6. did \in SUBSET Step
    BY <1>0, FiveSteps
  <2>7. CASE done' = [done EXCEPT ![d][s] = did] /\ Advance(k, d, s)
    <3> HIDE DEF did
    <3> QED BY <1>1, <1>3, <2>2, <2>5, <2>6, <2>7
  <2>8. CASE UNCHANGED done /\ Fail(k, d, s)
    BY <1>1, <1>3, <2>2, <2>5, <2>8
  <2> QED BY <2>1, <2>7, <2>8
<1>9. CASE Performed(k, d, s)
  <2> DEFINE did == done[d][s] \cup {runner[k][d][s].state}
  <2>1. did \in SUBSET Step
    BY <1>0, <1>9, FiveSteps DEF Performed, AwaitsDevice
  <2>2. UNCHANGED <<server, work, installation, confirmation>>
    BY <1>9 DEF Performed
  <2>3. CASE done' = [done EXCEPT ![d][s] = did] /\ Advance(k, d, s)
    <3> HIDE DEF did
    <3> QED BY <1>1, <1>2, <1>3, <2>1, <2>2, <2>3
  <2>4. CASE UNCHANGED done /\ Fail(k, d, s)
    BY <1>1, <1>2, <1>3, <2>2, <2>4
  <2> QED BY <1>9, <2>3, <2>4 DEF Performed
<1> QED BY <1>4, <1>5, <1>6, <1>7, <1>8, <1>9

LEMMA CrashingIsTyped ==
  ASSUME DeploymentTyped, Crash \/ Restart \/ \E s \in Device : TypeUid(s)
  PROVE  DeploymentTyped' /\ StepsKept
<1>1. ASSUME NEW s \in Device, TypeUid(s) PROVE DeploymentTyped' /\ StepsKept
  <2>1. /\ installation' = [installation EXCEPT ![s].status = "NULL"]
        /\ UNCHANGED <<server, work, row, target, steps, confirmation, runner, done>>
    BY <1>1 DEF TypeUid
  <2>2. installation' \in [Device -> InstallationRow]
    BY <2>1, StatusIsTyped
  <2> QED BY <2>1, <2>2, StepsAreKept, TypedAgain DEF DeploymentTyped, RunnersTyped
<1>2. CASE Crash
  <2>1. /\ server' = "down" /\ work' = {} /\ UNCHANGED <<database, done>>
        /\ runner' = [k \in Slot |-> [d \in Deployment |-> [s \in Targets(d) |-> NoRun]]]
    BY <1>2 DEF Crash, Targets
  <2>2. RunnersTyped'
    BY <2>1, MachinesAre DEF RunnersTyped, Tabled
  <2> QED BY <2>1, <2>2, StepsAreKept, TypedAgain DEF DeploymentTyped, database
<1>3. CASE Restart
  <2>1. /\ server' = "up" /\ UNCHANGED <<database, runner, done>>
        /\ \A w \in work' : \E d \in Deployment : \E s \in Targets(d) :
             w = [op |-> "RECOVER", d |-> d, s |-> s, row |-> row[d]]
    BY <1>3 DEF Restart, Targets
  <2>2. \A d \in Deployment : row[d] \in DeploymentRow
    BY DEF DeploymentTyped
  <2>3. \A w \in work' : w.d \in Deployment /\ w.s \in Targets(w.d) /\ w.row \in DeploymentRow
    BY <2>1, <2>2
  <2> QED BY <2>1, <2>3, StepsAreKept DEF DeploymentTyped, RunnersTyped, database
<1> QED BY <1>1, <1>2, <1>3

LEMMA DeploymentTypedInit == Init => DeploymentTyped
<1> SUFFICES ASSUME Init PROVE DeploymentTyped
  OBVIOUS
<1>1. row \in [Deployment -> DeploymentRow]
  BY DEF Init, DeploymentRow
<1>2. Tabled(target, TargetState) /\ Tabled(steps, Seq(StepRow)) /\ Tabled(done, SUBSET Step)
  BY DEF Init, Tabled, Targets, TargetState
<1>3. RunnersTyped
  BY MachinesAre DEF Init, RunnersTyped, Tabled, Targets
<1>4. installation \in [Device -> InstallationRow]
  BY DEF Init, InstallationRow
<1>5. confirmation \in Seq(ConfirmationRow) /\ Len(confirmation) <= MaxNonces
  BY DeploymentsAssumption DEF Init
<1> QED BY <1>1, <1>2, <1>3, <1>4, <1>5 DEF Init, DeploymentTyped

LEMMA DeploymentTypedStep ==
  ASSUME DeploymentTyped, [Next]_vars
  PROVE  DeploymentTyped' /\ StepsKept
<1>1. CASE UNCHANGED vars
  BY <1>1, StepsAreKept, TypedAgain DEF vars, database, DeploymentTyped, RunnersTyped
<1>2. CASE Tick
  <2>1. CASE DispatchRetry \/ RunAfterRetry \/ DispatchCancel \/ RecoverFromRow \/ RecoverTarget
    BY <2>1, DispatchingIsTyped, RecoveringIsTyped
  <2>2. CASE \E k \in Slot : \E d \in Deployment : \E s \in Targets(d) :
               Precheck(k, d, s) \/ PrepareNothing(k, d, s) \/ Wipe(k, d, s) \/ Resume(k, d, s)
    BY <2>2, RunningIsTyped
  <2> QED BY <1>2, <2>1, <2>2 DEF Tick, Targets
<1>3. ASSUME NEW k \in Slot, NEW d \in Deployment, NEW s \in Targets(d), DeviceAnswers(k, d, s)
      PROVE  DeploymentTyped' /\ StepsKept
  BY <1>3, RunningIsTyped DEF DeviceAnswers
<1>4. ASSUME NEW d \in Deployment,
             IssueConfirmation(d) \/ Create(d) \/ Start(d) \/ Retry(d) \/ Cancel(d)
      PROVE  DeploymentTyped' /\ StepsKept
  BY <1>4, ConfirmingIsTyped, InsertingIsTyped, RequestingIsTyped
<1>5. ASSUME NEW d \in Deployment, NEW n \in 1..MaxNonces, CreateDestructive(d, n)
      PROVE  DeploymentTyped' /\ StepsKept
  BY <1>5, InsertingIsTyped
<1>6. CASE \E n \in 1..MaxNonces : ConfirmationExpires(n)
  BY <1>6, ConfirmingIsTyped
<1>7. CASE Crash \/ Restart \/ \E s \in Device : TypeUid(s)
  BY <1>7, CrashingIsTyped
<1> QED BY <1>1, <1>2, <1>3, <1>4, <1>5, <1>6, <1>7 DEF Next, Targets

(* A finished step attempt is never changed or removed, by a run, a retry, *)
(* a cancellation or the recovery, wherever the server crashes             *)
(* (deployment-repository.ts).                                             *)
THEOREM AttemptsStay ==
  Spec => AttemptsAreFinal
<1>1. DeploymentTyped /\ [Next]_vars =>
        [\A d \in Deployment : \A s \in ToSet(TargetsOf[d]) : \A i \in DOMAIN steps[d][s] :
           steps[d][s][i].state # "RUNNING" =>
             i \in DOMAIN steps'[d][s] /\ steps'[d][s][i] = steps[d][s][i]]_vars
  <2> SUFFICES ASSUME DeploymentTyped, [Next]_vars
               PROVE  \A d \in Deployment : \A s \in ToSet(TargetsOf[d]) :
                        \A i \in DOMAIN steps[d][s] : steps[d][s][i].state # "RUNNING" =>
                          i \in DOMAIN steps'[d][s] /\ steps'[d][s][i] = steps[d][s][i]
    OBVIOUS
  <2>1. StepsKept
    BY DeploymentTypedStep
  <2> QED BY <2>1 DEF StepsKept, Keeps, Targets
<1>2. Init => DeploymentTyped
  BY DeploymentTypedInit
<1>3. DeploymentTyped /\ [Next]_vars => DeploymentTyped'
  BY DeploymentTypedStep
<1> QED BY <1>1, <1>2, <1>3, PTL DEF Spec, AttemptsAreFinal

-----------------------------------------------------------------------------
(* What keeps the steps of a deployment true, while its runs come one      *)
(* after the other and no crash is wide: each target is sound, the one     *)
(* machine that runs it stands where it stands, the row of the deployment  *)
(* says what one of its targets is at, and what the server has yet to do   *)
(* fits what it will find.                                                 *)
Calm == Deployment \ disturbed

RunnerFits(rows, t, did, m) ==
  m # NoRun =>
    /\ m.state \in Step \cup {"QUEUED"} /\ m.step \in {"none", m.state} \ {"QUEUED"}
    /\ m.state \in Step \ Early => m.step = m.state
    /\ m.step = "none" => Open(rows) = {}
    /\ m.waiting => m.state \notin {"QUEUED", "PRECHECK"}
    /\ \/ t = m.state
       \/ t = "CANCELLED" /\ m.state = "PREPARE" /\ m.waiting /\ Behind("PREPARE") \subseteq did

RowIsSound(d) ==
  /\ row[d].state \in Step => row[d].step = row[d].state
  /\ row[d].state \in {"QUEUED", "none", "COMPLETED"} => row[d].step = "none"
  /\ row[d].state # "none" => \E s \in Targets(d) : target[d][s] = row[d].state
  /\ row[d].state = "none" => \A s \in Targets(d) : target[d][s] = "QUEUED" /\ ~Executing(1, d, s)

RecoverIsSound(w) ==
  /\ ~Executing(1, w.d, w.s)
  /\ w.row.step # "none" => w.row.state \notin {"COMPLETED", "none"}
  /\ \/ target[w.d][w.s] \in Step /\ w.row.step \in {"none", target[w.d][w.s]}
     \/ target[w.d][w.s] = "QUEUED" /\ w.row.step \in {"none", "PRECHECK"}

ItemsAreSound ==
  /\ \A v, w \in work : v.op = "RUN" => v.d = w.d
  /\ \A v, w \in work : v.op = "RECOVER" => w.op = "RECOVER"
  /\ \A v, w \in work : v.op # "RUN" /\ w.op # "RUN" /\ v.d = w.d /\ v.s = w.s => v = w
  /\ \A w \in work : w.d \in Calm =>
       /\ row[w.d].state # "none"
       /\ w.op = "RETRY" => target[w.d][w.s] = "FAILED"
       /\ w.op = "RECOVER" => RecoverIsSound(w)

NobodyInside == \A k \in Slot : \A d \in Deployment : \A s \in Targets(d) : ~Inside(k, d, s)

ServerIsSound ==
  /\ work # {} => server = "up" /\ NobodyInside
  /\ server = "down" =>
       /\ \A d \in Calm : ~Wide(d)
       /\ \A k \in Slot : \A d \in Deployment : \A s \in Targets(d) : ~Executing(k, d, s)

TargetsAreSound ==
  \A d \in Calm : \A s \in Targets(d) :
    /\ TargetIsSound(steps[d][s], target[d][s], done[d][s])
    /\ RunnerFits(steps[d][s], target[d][s], done[d][s], runner[1][d][s])
    /\ \A k \in Slot : k # 1 => runner[k][d][s] = NoRun

RowsTrue == \A d \in Calm : RowIsSound(d)

DeploymentSound == TargetsAreSound /\ RowsTrue /\ ItemsAreSound /\ ServerIsSound

TargetTells(rows, t, did) ==
  /\ t = "COMPLETED" => did = Step
  /\ \A i \in DOMAIN rows : rows[i].state = "SUCCEEDED" => rows[i].step \in did

StepsTell ==
  \A d \in Calm : \A s \in Targets(d) : TargetTells(steps[d][s], target[d][s], done[d][s])

DeploymentInv ==
  /\ DeploymentTyped /\ StepsTell /\ disturbed \subseteq Deployment
  /\ server # "refused" => DeploymentSound

LEMMA SoundTells ==
  ASSUME TargetsAreSound
  PROVE  StepsTell
BY DEF TargetsAreSound, StepsTell, TargetIsSound, TargetTells, RowsTell

LEMMA DeploymentIsTrue ==
  ASSUME DeploymentInv, CompletedWasLaunched
  PROVE  StepsAreTrue
<1>1. TypeOK
  <2>1. row \in [Deployment -> [state : TargetState \cup {"none"}, step : Step \cup {"none"}]]
    BY DEF DeploymentInv, DeploymentTyped, DeploymentRow
  <2>2. installation \in [Device -> [install : Nat, data : Nat,
                                     status : {"NULL", "PENDING", "SUCCEEDED", "FAILED"}]]
    BY DEF DeploymentInv, DeploymentTyped, InstallationRow
  <2>3. \A d \in Deployment : /\ target[d] \in [ToSet(TargetsOf[d]) -> TargetState]
                              /\ \A k \in Slot : runner[k][d] \in [ToSet(TargetsOf[d]) -> Machine]
                              /\ steps[d] \in [ToSet(TargetsOf[d]) -> Seq(StepRow)]
                              /\ done[d] \in [ToSet(TargetsOf[d]) -> SUBSET Step]
    BY DEF DeploymentInv, DeploymentTyped, RunnersTyped, Tabled, Targets
  <2> QED BY <2>1, <2>2, <2>3 DEF DeploymentInv, DeploymentTyped, TypeOK, Targets
<1>2. DidEverySteps(Calm) /\ HistoriesAreTrue(Calm)
  BY DEF DeploymentInv, StepsTell, TargetTells, DidEverySteps, HistoriesAreTrue, Targets, Calm
<1> QED BY <1>1, <1>2 DEF StepsAreTrue, Calm

LEMMA FirstSlot == 1 \in Slot
BY DeploymentsAssumption DEF Slot

LEMMA DeploymentInvInit == Init => DeploymentInv
<1> SUFFICES ASSUME Init PROVE DeploymentInv
  OBVIOUS
<1>1. DeploymentTyped
  BY DeploymentTypedInit
<1>2. ASSUME NEW d \in Deployment, NEW s \in Targets(d)
      PROVE  /\ TargetIsSound(steps[d][s], target[d][s], done[d][s])
             /\ RunnerFits(steps[d][s], target[d][s], done[d][s], runner[1][d][s])
             /\ \A k \in Slot : runner[k][d][s] = NoRun
  <2>1. steps[d][s] = <<>> /\ target[d][s] = "QUEUED" /\ \A k \in Slot : runner[k][d][s] = NoRun
    BY DEF Init, Targets
  <2>2. RowsAreSound(<<>>) /\ RowsTell(<<>>, done[d][s])
    BY DEF RowsAreSound, RowsTell, Open
  <2> QED BY <2>1, <2>2, FirstSlot, FiveSteps DEF TargetIsSound, RunnerFits
<1>3. TargetsAreSound
  BY <1>2 DEF TargetsAreSound, Calm
<1>4. RowsTrue
  BY FirstSlot, FiveSteps DEF Init, RowsTrue, RowIsSound, Targets, Executing, Calm
<1>5. ItemsAreSound /\ ServerIsSound /\ disturbed \subseteq Deployment
  BY DEF Init, ItemsAreSound, ServerIsSound
<1> QED BY <1>1, <1>3, <1>4, <1>5, SoundTells DEF DeploymentInv, DeploymentSound

\* One target changes, and the first machine of it; the rest of the tables stays.
OthersKept(d, s) ==
  /\ \A e \in Deployment : \A u \in Targets(e) : e # d \/ u # s =>
       /\ target'[e][u] = target[e][u] /\ steps'[e][u] = steps[e][u]
       /\ \A k \in Slot : runner'[k][e][u] = runner[k][e][u]
  /\ \A k \in Slot : k # 1 => runner'[k][d][s] = runner[k][d][s]

OthersStay(d, s) ==
  /\ disturbed' = disturbed /\ OthersKept(d, s)
  /\ \A e \in Deployment : \A u \in Targets(e) : e # d \/ u # s => done'[e][u] = done[e][u]

LEMMA MachineSetKeeps ==
  ASSUME NEW d \in Deployment, NEW s \in Targets(d), NEW m, MachineSet(1, d, s, m)
  PROVE  /\ runner'[1][d][s] = m
         /\ \A k \in Slot : \A e \in Deployment : \A u \in Targets(e) : e # d \/ u # s =>
              runner'[k][e][u] = runner[k][e][u]
         /\ \A k \in Slot : k # 1 => runner'[k][d][s] = runner[k][d][s]
<1>1. IsSet(runner[1], runner'[1], d, s, m) /\ \A j \in Slot : j # 1 => runner'[j] = runner[j]
  BY DEF MachineSet
<1>2. ASSUME NEW k \in Slot, NEW e \in Deployment, NEW u \in Targets(e), e # d \/ u # s
      PROVE  runner'[k][e][u] = runner[k][e][u]
  <2>1. CASE k = 1
    BY <1>1, <1>2, <2>1 DEF IsSet
  <2>2. CASE k # 1
    BY <1>1, <2>2
  <2> QED BY <2>1, <2>2
<1> QED BY <1>1, <1>2 DEF IsSet

LEMMA TargetsStaySound ==
  ASSUME TargetsAreSound, NEW d \in Calm, NEW s \in Targets(d), OthersStay(d, s),
         TargetIsSound(steps'[d][s], target'[d][s], done'[d][s]),
         RunnerFits(steps'[d][s], target'[d][s], done'[d][s], runner'[1][d][s])
  PROVE  TargetsAreSound'
<1> SUFFICES ASSUME NEW e \in Calm, NEW u \in Targets(e)
             PROVE  /\ TargetIsSound(steps'[e][u], target'[e][u], done'[e][u])
                    /\ RunnerFits(steps'[e][u], target'[e][u], done'[e][u], runner'[1][e][u])
                    /\ \A k \in Slot : k # 1 => runner'[k][e][u] = NoRun
  <2>1. Calm' = Calm
    BY DEF OthersStay, Calm
  <2> QED BY <2>1 DEF TargetsAreSound, TargetIsSound, RunnerFits, ActiveIsSound, FailedIsSound, RestsEarly
<1>0. /\ TargetIsSound(steps[e][u], target[e][u], done[e][u])
      /\ RunnerFits(steps[e][u], target[e][u], done[e][u], runner[1][e][u])
      /\ \A k \in Slot : k # 1 => runner[k][e][u] = NoRun
  BY DEF TargetsAreSound
<1>1. CASE e = d /\ u = s
  BY <1>0, <1>1 DEF OthersStay, OthersKept
<1>2. CASE e # d \/ u # s
  <2>1. e \in Deployment
    BY DEF Calm
  <2> QED BY <1>0, <1>2, <2>1, FirstSlot DEF OthersStay, OthersKept
<1> QED BY <1>1, <1>2

\* The row of a deployment stays with its targets, or follows the one that moves.
RowWritten(d, s) ==
  \/ row' = row /\ target' = target
  \/ /\ row'[d].state = target'[d][s] /\ row'[d].state \notin {"none", "QUEUED"}
     /\ row'[d].state \in Step => row'[d].step = row'[d].state
     /\ row'[d].state = "COMPLETED" => row'[d].step = "none"
     /\ \A e \in Deployment : e # d => row'[e] = row[e]

LEMMA RowsStayTrue ==
  ASSUME RowsTrue, NEW d \in Calm, NEW s \in Targets(d), OthersStay(d, s), RowWritten(d, s),
         row[d].state # "none"
  PROVE  RowsTrue'
<1>0. Calm' = Calm /\ d \in Deployment
  BY DEF OthersStay, Calm
<1> SUFFICES ASSUME NEW e \in Calm PROVE RowIsSound(e)'
  BY <1>0 DEF RowsTrue
<1>1. RowIsSound(e) /\ e \in Deployment
  BY DEF RowsTrue, Calm
<1>2. CASE row' = row /\ target' = target
  <2>1. CASE e = d
    BY <1>1, <1>2, <2>1 DEF RowIsSound
  <2>2. CASE e # d
    <3>1. \A u \in Targets(e) : runner'[1][e][u] = runner[1][e][u]
      BY <1>1, <2>2, FirstSlot DEF OthersStay, OthersKept
    <3> QED BY <1>1, <1>2, <3>1 DEF RowIsSound, Executing
  <2> QED BY <2>1, <2>2
<1>3. CASE /\ row'[d].state = target'[d][s] /\ row'[d].state \notin {"none", "QUEUED"}
           /\ row'[d].state \in Step => row'[d].step = row'[d].state
           /\ row'[d].state = "COMPLETED" => row'[d].step = "none"
           /\ \A f \in Deployment : f # d => row'[f] = row[f]
  <2>1. CASE e = d
    BY <1>3, <2>1 DEF RowIsSound
  <2>2. CASE e # d
    <3>1. /\ \A u \in Targets(e) : runner'[1][e][u] = runner[1][e][u] /\ target'[e][u] = target[e][u]
          /\ row'[e] = row[e]
      BY <1>1, <1>3, <2>2, FirstSlot DEF OthersStay, OthersKept
    <3> QED BY <1>1, <3>1 DEF RowIsSound, Executing
  <2> QED BY <2>1, <2>2
<1> QED BY <1>2, <1>3 DEF RowWritten

\* What is still to do fits, if none of it is about the target that moves.
LEMMA ItemsStaySound ==
  ASSUME DeploymentTyped, ItemsAreSound, ServerIsSound,
         NEW d \in Calm, NEW s \in Targets(d), OthersStay(d, s), RowWritten(d, s),
         server = "up", server' = server, work' \subseteq work,
         \A v \in work' : v.op # "RUN" => v.d # d \/ v.s # s,
         work # {} => runner' = runner
  PROVE  ItemsAreSound' /\ ServerIsSound'
<1>0. Calm' = Calm
  BY DEF OthersStay, Calm
<1>1. \A w \in work' : w.d \in Deployment /\ w.s \in Targets(w.d) /\ w \in work
  BY DEF DeploymentTyped
<1>2. \A w \in work' : w.op # "RUN" => target'[w.d][w.s] = target[w.d][w.s]
  BY <1>1 DEF OthersStay, OthersKept
<1>3. ASSUME NEW w \in work', w.d \in Calm PROVE row'[w.d].state # "none"
  <2>1. row[w.d].state # "none"
    BY <1>1, <1>3 DEF ItemsAreSound
  <2> QED BY <1>1, <2>1 DEF RowWritten
<1>4. \A v, w \in work' : v.op = "RUN" => v.d = w.d
  BY DEF ItemsAreSound
<1>5. \A v, w \in work' : v.op = "RECOVER" => w.op = "RECOVER"
  BY DEF ItemsAreSound
<1>6. \A v, w \in work' : v.op # "RUN" /\ w.op # "RUN" /\ v.d = w.d /\ v.s = w.s => v = w
  BY DEF ItemsAreSound
<1>7. ASSUME NEW w \in work', w.op = "RETRY", w.d \in Calm PROVE target'[w.d][w.s] = "FAILED"
  <2>1. target[w.d][w.s] = "FAILED"
    BY <1>1, <1>7 DEF ItemsAreSound
  <2> QED BY <1>2, <1>7, <2>1
<1>8. ASSUME NEW w \in work', w.op = "RECOVER", w.d \in Calm PROVE RecoverIsSound(w)'
  <2>1. RecoverIsSound(w)
    BY <1>1, <1>8 DEF ItemsAreSound
  <2>2. target'[w.d][w.s] = target[w.d][w.s] /\ runner' = runner
    BY <1>1, <1>2, <1>8
  <2> QED BY <2>1, <2>2 DEF RecoverIsSound, Executing
<1>9. ItemsAreSound'
  BY <1>0, <1>3, <1>4, <1>5, <1>6, <1>7, <1>8 DEF ItemsAreSound
<1>10. ServerIsSound'
  <2>1. work' # {} => server' = "up" /\ runner' = runner /\ work # {}
    OBVIOUS
  <2> QED BY <2>1 DEF ServerIsSound, NobodyInside, Inside, Executing
<1> QED BY <1>9, <1>10

LEMMA TargetMoves ==
  ASSUME DeploymentTyped, DeploymentSound,
         NEW d \in Calm, NEW s \in Targets(d), OthersStay(d, s), RowWritten(d, s),
         row[d].state # "none",
         server = "up", server' = server, work' \subseteq work,
         \A v \in work' : v.op # "RUN" => v.d # d \/ v.s # s,
         work # {} => runner' = runner,
         TargetIsSound(steps'[d][s], target'[d][s], done'[d][s]),
         RunnerFits(steps'[d][s], target'[d][s], done'[d][s], runner'[1][d][s])
  PROVE  DeploymentSound'
<1>1. TargetsAreSound'
  BY TargetsStaySound DEF DeploymentSound
<1>2. RowsTrue'
  BY RowsStayTrue DEF DeploymentSound
<1>3. ItemsAreSound' /\ ServerIsSound'
  BY ItemsStaySound DEF DeploymentSound
<1> QED BY <1>1, <1>2, <1>3 DEF DeploymentSound

\* Of a disturbed deployment nothing is said, and the others stay.
ElsewhereKept(d) ==
  \A e \in Deployment : e # d =>
    /\ row'[e] = row[e] /\ target'[e] = target[e] /\ steps'[e] = steps[e] /\ done'[e] = done[e]
    /\ \A k \in Slot : runner'[k][e] = runner[k][e]

LEMMA DisturbedMoves ==
  ASSUME DeploymentTyped, DeploymentSound, NEW d \in Deployment, d \notin Calm',
         disturbed \subseteq disturbed', disturbed' \subseteq disturbed \cup {d}, ElsewhereKept(d),
         server = "up", server' = server, work' \subseteq work, work' # {} => runner' = runner
  PROVE  DeploymentSound'
<1>1. \A e \in Calm' : e \in Calm /\ e \in Deployment /\ e # d
  BY DEF Calm
<1>2. TargetsAreSound'
  <2> SUFFICES ASSUME NEW e \in Calm', NEW u \in Targets(e)
               PROVE  /\ TargetIsSound(steps'[e][u], target'[e][u], done'[e][u])
                      /\ RunnerFits(steps'[e][u], target'[e][u], done'[e][u], runner'[1][e][u])
                      /\ \A k \in Slot : k # 1 => runner'[k][e][u] = NoRun
    BY DEF TargetsAreSound, TargetIsSound, RunnerFits, ActiveIsSound, FailedIsSound, RestsEarly
  <2>1. /\ TargetIsSound(steps[e][u], target[e][u], done[e][u])
        /\ RunnerFits(steps[e][u], target[e][u], done[e][u], runner[1][e][u])
        /\ \A k \in Slot : k # 1 => runner[k][e][u] = NoRun
    BY <1>1 DEF DeploymentSound, TargetsAreSound
  <2> QED BY <1>1, <2>1, FirstSlot DEF ElsewhereKept
<1>3. RowsTrue'
  <2> SUFFICES ASSUME NEW e \in Calm' PROVE RowIsSound(e)'
    BY DEF RowsTrue
  <2>1. RowIsSound(e)
    BY <1>1 DEF DeploymentSound, RowsTrue
  <2>2. row'[e] = row[e] /\ target'[e] = target[e] /\ runner'[1][e] = runner[1][e]
    BY <1>1, FirstSlot DEF ElsewhereKept
  <2> QED BY <2>1, <2>2 DEF RowIsSound, Executing
<1>4. ItemsAreSound'
  <2>1. ASSUME NEW w \in work', w.d \in Calm'
        PROVE  /\ row'[w.d].state # "none"
               /\ w.op = "RETRY" => target'[w.d][w.s] = "FAILED"
               /\ w.op = "RECOVER" => RecoverIsSound(w)'
    <3>1. /\ row[w.d].state # "none"
          /\ w.op = "RETRY" => target[w.d][w.s] = "FAILED"
          /\ w.op = "RECOVER" => RecoverIsSound(w)
      BY <1>1, <2>1 DEF DeploymentSound, ItemsAreSound
    <3>2. row'[w.d] = row[w.d] /\ target'[w.d] = target[w.d] /\ runner'[1][w.d] = runner[1][w.d]
      BY <1>1, <2>1, FirstSlot DEF ElsewhereKept
    <3> QED BY <3>1, <3>2 DEF RecoverIsSound, Executing
  <2> QED BY <2>1 DEF DeploymentSound, ItemsAreSound
<1>5. ServerIsSound'
  <2>1. work' # {} => runner' = runner /\ work # {}
    OBVIOUS
  <2> QED BY <2>1 DEF DeploymentSound, ServerIsSound, NobodyInside, Inside, Executing
<1> QED BY <1>2, <1>3, <1>4, <1>5 DEF DeploymentSound

LEMMA NothingMoves ==
  ASSUME UNCHANGED <<row, target, steps, runner, done, disturbed>>
  PROVE  /\ TargetsAreSound => TargetsAreSound'
         /\ RowsTrue => RowsTrue'
         /\ StepsTell => StepsTell'
<1>1. TargetsAreSound => TargetsAreSound'
  BY DEF TargetsAreSound, Calm
<1>2. RowsTrue => RowsTrue'
  BY DEF RowsTrue, RowIsSound, Executing, Calm
<1>3. StepsTell => StepsTell'
  BY DEF StepsTell, Calm
<1> QED BY <1>1, <1>2, <1>3

\* The start, the retry and the cancellation drop what follows an item that throws.
LEMMA ItemsDropped ==
  ASSUME DeploymentSound, UNCHANGED <<server, row, target, steps, runner, done, disturbed>>, work' = {}
  PROVE  DeploymentSound'
<1>1. TargetsAreSound' /\ RowsTrue'
  BY NothingMoves DEF DeploymentSound
<1>2. ItemsAreSound' /\ ServerIsSound'
  BY DEF DeploymentSound, ItemsAreSound, ServerIsSound, Wide, Executing, Calm
<1> QED BY <1>1, <1>2 DEF DeploymentSound

LEMMA PersistWrites ==
  ASSUME DeploymentTyped, NEW d \in Deployment, NEW s \in Targets(d),
         NEW state \in TargetState \ {"QUEUED"}, NEW step \in Step \cup {"none"}, NEW attempt \in 1..2,
         state \in Step => step = state, state = "COMPLETED" => step = "none",
         Persist(d, s, state, step, attempt)
  PROVE  /\ RowWritten(d, s) /\ target'[d][s] = state
         /\ steps'[d][s] = Recorded(steps[d][s], state, step, attempt)
         /\ \A e \in Deployment : \A u \in Targets(e) : e # d \/ u # s =>
              target'[e][u] = target[e][u] /\ steps'[e][u] = steps[e][u]
<1>1. /\ row'[d].state = state /\ row'[d].step = step
      /\ \A e \in Deployment : e # d => row'[e] = row[e]
      /\ IsSet(target, target', d, s, state)
      /\ IsSet(steps, steps', d, s, Recorded(steps[d][s], state, step, attempt))
  BY PersistIs
<1>2. state # "none"
  BY FiveSteps DEF TargetState, Settled, Ended
<1> QED BY <1>1, <1>2 DEF IsSet, RowWritten

\* A machine that advances has its step behind it, or begins again.
AdvanceFinds(m, did, did2) ==
  /\ m.step = "none" => did \subseteq did2
  /\ m.step # "none" => did2 = did \cup {m.step}

LEMMA BeginsAgain ==
  ASSUME NEW rows \in Seq(StepRow), NEW did, NEW t, NEW m \in Machine, m # NoRun,
         TargetIsSound(rows, t, did), RunnerFits(rows, t, did, m), m.step = "none"
  PROVE  RowsAreSound(rows) /\ RowsTell(rows, did) /\ RestsEarly(rows)
<1>1. Open(rows) = {} /\ m.state \in Early \cup {"QUEUED"} /\ (t = m.state \/ t = "CANCELLED")
  <2>1. m.state \in Step \cup {"QUEUED"} /\ ~(m.state \in Step \ Early)
    BY FiveSteps DEF RunnerFits
  <2> QED BY <2>1 DEF RunnerFits
<1>2. CASE t = "QUEUED"
  <2>1. rows = <<>>
    BY <1>2 DEF TargetIsSound
  <2> QED BY <1>1, <2>1 DEF TargetIsSound, RestsEarly, AtStep, OpenAt, Retried, Early
<1>3. CASE t \in Early
  <2>1. ActiveIsSound(rows, t, did)
    BY <1>3, FiveSteps DEF TargetIsSound, Early
  <2>2. AtStep(rows, "PREPARE")
    BY <1>1, <1>3, <2>1 DEF ActiveIsSound, AtStep, OpenAt, Early
  <2> QED BY <1>1, <2>1, <2>2 DEF TargetIsSound, ActiveIsSound, RestsEarly
<1>4. CASE t = "CANCELLED"
  BY <1>4 DEF TargetIsSound
<1> QED BY <1>1, <1>2, <1>3, <1>4

LEMMA MovedOnFits ==
  ASSUME NEW rows, NEW did, NEW next, next.state \in Step, next.step = next.state
  PROVE  RunnerFits(rows, next.state, did, MachineOf(next))
<1>1. next.state # "COMPLETED" /\ next.state # "QUEUED" /\ next.state # "none"
  BY FiveSteps
<1>2. MachineOf(next) = [state |-> next.state, step |-> next.step, waiting |-> AwaitsDevice(next.state),
                         wipe |-> 0]
  BY <1>1 DEF MachineOf
<1>3. AwaitsDevice(next.state) => next.state # "PRECHECK"
  BY DEF AwaitsDevice
<1> QED BY <1>1, <1>2, <1>3 DEF RunnerFits

LEMMA AdvanceIsSound ==
  ASSUME DeploymentTyped, TargetsAreSound, NEW d \in Calm, NEW s \in Targets(d),
         Executing(1, d, s), Advance(1, d, s), NEW did2 \in SUBSET Step,
         AdvanceFinds(runner[1][d][s], done[d][s], did2)
  PROVE  /\ TargetIsSound(steps'[d][s], target'[d][s], did2)
         /\ RunnerFits(steps'[d][s], target'[d][s], did2, runner'[1][d][s])
         /\ RowWritten(d, s) /\ OthersKept(d, s)
<1> DEFINE m == runner[1][d][s]
           t == target[d][s]
           rows == steps[d][s]
           did == done[d][s]
           next == Advanced(m)
<1>0. d \in Deployment
  BY DEF Calm
<1>1. m \in Machine /\ t \in TargetState /\ rows \in Seq(StepRow) /\ did \in SUBSET Step /\ m # NoRun
  BY <1>0, FirstSlot, MachinesOfTargets DEF DeploymentTyped, Tabled, Executing
<1>2. TargetIsSound(rows, t, did) /\ RunnerFits(rows, t, did, m)
  BY DEF TargetsAreSound
<1>3. AdvanceFinds(m, did, did2)
  OBVIOUS
<1>4. /\ Persist(d, s, next.state, next.step, 1) /\ MachineSet(1, d, s, MachineOf(next))
  BY <1>0, FirstSlot, AdvanceIs
<1>5. /\ m.state \in Step \cup {"QUEUED"} /\ m.step \in {"none", m.state} \ {"QUEUED"}
      /\ t = m.state \/ (t = "CANCELLED" /\ m.state = "PREPARE" /\ Behind("PREPARE") \subseteq did)
  BY <1>1, <1>2 DEF RunnerFits
<1>6. /\ next.state \in TargetState /\ next.step \in Step \cup {"none"}
      /\ m.step = "none" => next.state = "PRECHECK" /\ next.step = "PRECHECK"
      /\ m.step = "LAUNCH" => next.state = "COMPLETED" /\ next.step = "none"
      /\ m.step \in Step \ {"LAUNCH"} =>
           /\ next.state \in Step /\ next.step = next.state
           /\ Position(next.state) = Position(m.step) + 1
  <2>1. m.step # "none" => m.state # "QUEUED"
    BY <1>5
  <2>2. "LAUNCH" \in Step /\ "none" \notin Step
    BY FiveSteps
  <2> HIDE DEF m
  <2>3. /\ next.state \in TargetState /\ next.step \in Step \cup {"none"}
        /\ m.state = "QUEUED" \/ m.step = "none" => next.state = "PRECHECK" /\ next.step = "PRECHECK"
        /\ m.state # "QUEUED" /\ m.step = "LAUNCH" => next.state = "COMPLETED" /\ next.step = "none"
        /\ m.state # "QUEUED" /\ m.step \in Step \ {"LAUNCH"} =>
             /\ next.state \in Step /\ next.step = next.state
             /\ Position(next.state) = Position(m.step) + 1
    BY <1>1, AdvancedIs
  <2> HIDE DEF next
  <2> QED BY <2>1, <2>2, <2>3
<1>7. next.state # "QUEUED" /\ (next.state \in Step => next.step = next.state)
      /\ (next.state = "COMPLETED" => next.step = "none")
  BY <1>5, <1>6, FiveSteps
<1> HIDE DEF m, t, rows, did, next
<1>8. /\ RowWritten(d, s) /\ target'[d][s] = next.state
      /\ steps'[d][s] = Recorded(rows, next.state, next.step, 1)
      /\ \A e \in Deployment : \A u \in Targets(e) : e # d \/ u # s =>
           target'[e][u] = target[e][u] /\ steps'[e][u] = steps[e][u]
  <2>1. next.state \in TargetState \ {"QUEUED"} /\ 1 \in 1..2
    BY <1>6, <1>7
  <2> QED BY <1>0, <1>4, <1>6, <1>7, <2>1, PersistWrites DEF rows
<1>9. runner'[1][d][s] = MachineOf(next) /\ OthersKept(d, s)
  BY <1>0, <1>4, <1>8, MachineSetKeeps DEF OthersKept
<1>10. CASE m.step = "none"
  <2>1. next.state = "PRECHECK" /\ next.step = "PRECHECK" /\ did \subseteq did2
    BY <1>3, <1>6, <1>10 DEF AdvanceFinds
  <2>2. RowsAreSound(rows) /\ RowsTell(rows, did) /\ RestsEarly(rows)
    BY <1>1, <1>2, <1>10, BeginsAgain
  <2>3. TargetIsSound(Recorded(rows, "PRECHECK", "PRECHECK", 1), "PRECHECK", did2)
    BY <1>1, <2>1, <2>2, EntersPrecheck
  <2>4. next.state \in Step /\ next.step = next.state
    BY <2>1, FiveSteps
  <2> QED BY <1>8, <1>9, <2>1, <2>3, <2>4, MovedOnFits
<1>11. CASE m.step = "LAUNCH"
  <2>1. next.state = "COMPLETED" /\ next.step = "none" /\ did2 = did \cup {"LAUNCH"}
    BY <1>3, <1>6, <1>11 DEF AdvanceFinds
  <2>2. t = "LAUNCH"
    BY <1>5, <1>11
  <2>3. TargetIsSound(Recorded(rows, "COMPLETED", "none", 1), "COMPLETED", did \cup {"LAUNCH"})
    BY <1>1, <1>2, <2>2, Completes
  <2>4. runner'[1][d][s] = NoRun
    BY <1>9, <2>1 DEF MachineOf
  <2> QED BY <1>8, <1>9, <2>1, <2>3, <2>4 DEF RunnerFits
<1>12. CASE m.step \in Step \ {"LAUNCH"}
  <2> DEFINE at == m.step
             to == next.state
  <2>1. /\ to \in Step /\ next.step = to /\ Position(to) = Position(at) + 1
        /\ did2 = did \cup {at} /\ at \in Step
    BY <1>3, <1>6, <1>12, FiveSteps DEF AdvanceFinds
  <2>2. t = at \/ (t = "CANCELLED" /\ at = "PREPARE" /\ Behind("PREPARE") \subseteq did)
    BY <1>5, <1>12, FiveSteps
  <2>3. TargetIsSound(Recorded(rows, to, to, 1), to, did \cup {at})
    <3> HIDE DEF at, to
    <3> QED BY <1>1, <1>2, <2>1, <2>2, EntersNext
  <2> QED BY <1>8, <1>9, <2>1, <2>3, MovedOnFits
<1>13. m.step = "none" \/ m.step = "LAUNCH" \/ m.step \in Step \ {"LAUNCH"}
  BY <1>1 DEF Machine
<1> QED BY <1>10, <1>11, <1>12, <1>13

LEMMA FailIsSound ==
  ASSUME DeploymentTyped, TargetsAreSound, NEW d \in Calm, NEW s \in Targets(d),
         Executing(1, d, s), Fail(1, d, s)
  PROVE  /\ TargetIsSound(steps'[d][s], target'[d][s], done[d][s])
         /\ RunnerFits(steps'[d][s], target'[d][s], done[d][s], runner'[1][d][s])
         /\ RowWritten(d, s) /\ OthersKept(d, s)
<1> DEFINE m == runner[1][d][s]
           t == target[d][s]
           rows == steps[d][s]
           did == done[d][s]
           step == m.step
<1>0. d \in Deployment
  BY DEF Calm
<1>1. m \in Machine /\ t \in TargetState /\ rows \in Seq(StepRow) /\ did \in SUBSET Step /\ m # NoRun
  BY <1>0, FirstSlot, MachinesOfTargets DEF DeploymentTyped, Tabled, Executing
<1>2. TargetIsSound(rows, t, did) /\ RunnerFits(rows, t, did, m)
  BY DEF TargetsAreSound
<1>3. /\ \/ step = "none" /\ UNCHANGED <<row, target, steps>>
         \/ step \in Step /\ Persist(d, s, "FAILED", step, 1)
      /\ MachineSet(1, d, s, NoRun)
  BY <1>0, FirstSlot, FailIs
<1>4. /\ step \in {"none", m.state} \ {"QUEUED"}
      /\ t = m.state \/ (t = "CANCELLED" /\ m.state = "PREPARE" /\ Behind("PREPARE") \subseteq did)
  BY <1>1, <1>2 DEF RunnerFits
<1> HIDE DEF m, t, rows, did, step
<1>5. CASE step = "none" /\ UNCHANGED <<row, target, steps>>
  BY <1>0, <1>2, <1>3, <1>5, MachineSetKeeps DEF OthersKept, RunnerFits, RowWritten, rows, t, did
<1>6. CASE step \in Step /\ Persist(d, s, "FAILED", step, 1)
  <2>1. TargetIsSound(Recorded(rows, "FAILED", step, 1), "FAILED", did)
    <3>1. t = step \/ (t = "CANCELLED" /\ step = "PREPARE" /\ Behind("PREPARE") \subseteq did)
      BY <1>4, <1>6, FiveSteps
    <3> QED BY <1>1, <1>2, <1>6, <3>1, StepFails
  <2>2. "FAILED" \in TargetState \ {"QUEUED"} /\ "FAILED" \notin Step /\ 1 \in 1..2
    BY FiveSteps DEF TargetState, Settled
  <2>3. /\ RowWritten(d, s) /\ target'[d][s] = "FAILED"
        /\ steps'[d][s] = Recorded(rows, "FAILED", step, 1)
        /\ \A e \in Deployment : \A u \in Targets(e) : e # d \/ u # s =>
             target'[e][u] = target[e][u] /\ steps'[e][u] = steps[e][u]
    BY <1>0, <1>6, <2>2, PersistWrites DEF rows
  <2> QED BY <1>0, <1>3, <2>1, <2>3, MachineSetKeeps DEF OthersKept, RunnerFits, did
<1> QED BY <1>3, <1>5, <1>6

\* The steps of a runner: what its device did is noted as they say.
LEMMA RunningIsSound ==
  ASSUME DeploymentTyped, DeploymentSound, NEW d \in Calm, NEW s \in Targets(d),
         Executing(1, d, s), server = "up", work = {}, server' = server, work' = work,
         disturbed' = disturbed,
         \/ /\ Advance(1, d, s)
            /\ \E did2 \in SUBSET Step :
                 /\ done' = [done EXCEPT ![d][s] = did2]
                 /\ AdvanceFinds(runner[1][d][s], done[d][s], did2)
         \/ Fail(1, d, s) /\ IsSet(done, done', d, s, done[d][s])
  PROVE  DeploymentSound'
<1>1. TargetsAreSound /\ row[d].state # "none" /\ d \in Deployment
  BY DEF DeploymentSound, RowsTrue, RowIsSound, Calm
<1>2. CASE /\ Advance(1, d, s)
           /\ \E did2 \in SUBSET Step :
                /\ done' = [done EXCEPT ![d][s] = did2]
                /\ AdvanceFinds(runner[1][d][s], done[d][s], did2)
  <2>1. PICK did2 \in SUBSET Step :
          /\ done' = [done EXCEPT ![d][s] = did2]
          /\ AdvanceFinds(runner[1][d][s], done[d][s], did2)
    BY <1>2
  <2>2. IsSet(done, done', d, s, did2)
    BY <1>1, <2>1, DoneIsSet
  <2>3. /\ TargetIsSound(steps'[d][s], target'[d][s], did2)
        /\ RunnerFits(steps'[d][s], target'[d][s], did2, runner'[1][d][s])
        /\ RowWritten(d, s) /\ OthersKept(d, s)
    BY <1>1, <1>2, <2>1, AdvanceIsSound
  <2>4. OthersStay(d, s) /\ done'[d][s] = did2
    BY <2>2, <2>3 DEF OthersStay, IsSet
  <2> QED BY <1>1, <2>3, <2>4, TargetMoves
<1>3. CASE Fail(1, d, s) /\ IsSet(done, done', d, s, done[d][s])
  <2>1. /\ TargetIsSound(steps'[d][s], target'[d][s], done[d][s])
        /\ RunnerFits(steps'[d][s], target'[d][s], done[d][s], runner'[1][d][s])
        /\ RowWritten(d, s) /\ OthersKept(d, s)
    BY <1>1, <1>3, FailIsSound
  <2>2. OthersStay(d, s) /\ done'[d][s] = done[d][s]
    BY <1>3, <2>1 DEF OthersStay, IsSet
  <2> QED BY <1>1, <2>1, <2>2, TargetMoves
<1> QED BY <1>2, <1>3

LEMMA TurnsAreSound ==
  ASSUME DeploymentTyped, DeploymentSound, NEW d \in Calm, NEW s \in Targets(d),
         Precheck(1, d, s) \/ PrepareNothing(1, d, s) \/ Wiped(1, d, s) \/ Performed(1, d, s)
  PROVE  DeploymentSound'
<1> DEFINE m == runner[1][d][s]
           did == done[d][s]
<1>0. m \in Machine /\ did \in SUBSET Step /\ d \in Deployment
  <2>1. d \in Deployment
    BY DEF Calm
  <2> QED BY <2>1, FirstSlot, MachinesOfTargets DEF DeploymentTyped, Tabled
<1>1. /\ Executing(1, d, s) /\ server = "up" /\ work = {} /\ server' = server /\ work' = work
      /\ disturbed' = disturbed
      /\ done' = done => IsSet(done, done', d, s, did)
  BY DEF IsSet, Precheck, PrepareNothing, Wiped, Performed, Turn, Inside, DeviceAnswered, Quiet
<1>2. m.step \in {"none", m.state} \ {"QUEUED"} /\ (m.state \in Step \ Early => m.step = m.state)
  BY <1>1 DEF DeploymentSound, TargetsAreSound, RunnerFits, Executing
<1>3. CASE Precheck(1, d, s)
  <2> DEFINE did2 == IF runner'[1][d][s].state = "PREPARE" THEN did \cup {"PRECHECK"} ELSE did
  <2>1. did2 \in SUBSET Step
    BY <1>0, FiveSteps
  <2>2. /\ done' = [done EXCEPT ![d][s] = did2] /\ m.state \in {"QUEUED", "PRECHECK"}
        /\ Advance(1, d, s) \/ Fail(1, d, s)
    BY <1>3 DEF Precheck
  <2>3. CASE Advance(1, d, s)
    <3>1. runner'[1][d][s] = MachineOf(Advanced(m))
      BY <1>0, <2>3, FirstSlot, AdvanceIs, MachineSetKeeps
    <3>2. CASE m.step = "none"
      <4>1. Advanced(m).state = "PRECHECK"
        BY <1>0, <3>2, AdvancedIs
      <4>2. runner'[1][d][s].state = "PRECHECK"
        BY <3>1, <4>1 DEF MachineOf
      <4>3. AdvanceFinds(m, did, did2)
        BY <3>2, <4>2 DEF AdvanceFinds
      <4> HIDE DEF did2
      <4> QED BY <1>1, <2>1, <2>2, <2>3, <4>3, RunningIsSound
    <3>3. CASE m.step # "none"
      <4>1. m.step = "PRECHECK" /\ m.state = "PRECHECK"
        BY <1>2, <2>2, <3>3
      <4>2. Advanced(m).state \in Step /\ Position(Advanced(m).state) = Position("PRECHECK") + 1
        <5>1. m.state # "QUEUED" /\ m.step \in Step \ {"LAUNCH"}
          BY <4>1, FiveSteps
        <5> HIDE DEF m
        <5> QED BY <1>0, <4>1, <5>1, AdvancedIs
      <4>3. Advanced(m).state = "PREPARE"
        BY <4>2, FiveSteps
      <4>4. runner'[1][d][s].state = "PREPARE"
        BY <3>1, <4>3 DEF MachineOf
      <4>5. AdvanceFinds(m, did, did2)
        BY <3>3, <4>1, <4>4 DEF AdvanceFinds
      <4> HIDE DEF did2
      <4> QED BY <1>1, <2>1, <2>2, <2>3, <4>5, RunningIsSound
    <3> QED BY <3>2, <3>3
  <2>4. CASE Fail(1, d, s)
    <3>1. runner'[1][d][s] = NoRun
      BY <1>0, <2>4, FirstSlot, FailIs, MachineSetKeeps
    <3>2. did2 = did
      BY <3>1 DEF NoRun
    <3>3. IsSet(done, done', d, s, did)
      BY <1>0, <2>2, <3>2, DoneIsSet
    <3> QED BY <1>1, <2>4, <3>3, RunningIsSound
  <2> QED BY <2>2, <2>3, <2>4
<1>4. CASE PrepareNothing(1, d, s)
  <2> DEFINE did2 == did \cup {"PREPARE"}
  <2>1. did2 \in SUBSET Step
    BY <1>0, FiveSteps
  <2>2. done' = [done EXCEPT ![d][s] = did2] /\ m.state = "PREPARE" /\ Advance(1, d, s)
    BY <1>4 DEF PrepareNothing
  <2>3. AdvanceFinds(m, did, did2)
    BY <1>2, <2>2 DEF AdvanceFinds
  <2> HIDE DEF did2
  <2> QED BY <1>1, <2>1, <2>2, <2>3, RunningIsSound
<1>5. CASE Wiped(1, d, s)
  <2> DEFINE did2 == did \cup {"PREPARE"}
  <2>1. did2 \in SUBSET Step
    BY <1>0, FiveSteps
  <2>2. /\ m.state = "PREPARE"
        /\ \/ done' = [done EXCEPT ![d][s] = did2] /\ Advance(1, d, s)
           \/ done' = done /\ Fail(1, d, s)
    BY <1>5 DEF Wiped
  <2>3. AdvanceFinds(m, did, did2)
    BY <1>2, <2>2 DEF AdvanceFinds
  <2> HIDE DEF did2
  <2> QED BY <1>1, <2>1, <2>2, <2>3, RunningIsSound
<1>6. CASE Performed(1, d, s)
  <2> DEFINE did2 == did \cup {m.state}
  <2>1. m.state \in Step \ Early
    BY <1>6, FiveSteps DEF Performed, AwaitsDevice, Early
  <2>2. /\ \/ done' = [done EXCEPT ![d][s] = did2] /\ Advance(1, d, s)
           \/ done' = done /\ Fail(1, d, s)
    BY <1>6 DEF Performed
  <2>3. AdvanceFinds(m, did, did2) /\ did2 \in SUBSET Step
    BY <1>0, <1>2, <2>1, FiveSteps DEF AdvanceFinds
  <2> HIDE DEF did2
  <2> QED BY <1>1, <2>2, <2>3, RunningIsSound
<1> QED BY <1>3, <1>4, <1>5, <1>6

LEMMA WaitsAreSound ==
  ASSUME DeploymentTyped, DeploymentSound, NEW d \in Calm, NEW s \in Targets(d),
         Wipe(1, d, s) \/ Resume(1, d, s)
  PROVE  DeploymentSound'
<1> DEFINE m == runner[1][d][s]
           t == target[d][s]
           rows == steps[d][s]
           did == done[d][s]
           left == did \ {"PREPARE", "INSTALL", "VERIFY", "LAUNCH"}
<1>0. m \in Machine /\ did \in SUBSET Step /\ rows \in Seq(StepRow) /\ d \in Deployment
  <2>1. d \in Deployment
    BY DEF Calm
  <2> QED BY <2>1, FirstSlot, MachinesOfTargets DEF DeploymentTyped, Tabled
<1>1. /\ Executing(1, d, s) /\ server = "up" /\ work = {} /\ server' = server /\ work' = work
      /\ ~m.waiting /\ UNCHANGED <<row, target, steps, disturbed>>
  BY DEF Wipe, Resume, Turn, Inside, database
<1>2. TargetIsSound(rows, t, did) /\ RunnerFits(rows, t, did, m) /\ row[d].state # "none"
  BY <1>1 DEF DeploymentSound, TargetsAreSound, RowsTrue, RowIsSound
<1>3. t = m.state
  BY <1>1, <1>2 DEF RunnerFits, Executing
<1>4. PICK id \in Nat : MachineSet(1, d, s, Waits(1, d, s, id))
  BY <1>0, FirstSlot, WaitingIs
<1>5. Waits(1, d, s, id).state = m.state /\ Waits(1, d, s, id).step = m.step
  BY <1>0 DEF Waits, Machine
<1>6. /\ IsSet(done, done', d, s, did) \/ (IsSet(done, done', d, s, left) /\ t = "PREPARE")
      /\ m.state \notin {"QUEUED", "PRECHECK"}
  <2>1. CASE Wipe(1, d, s)
    <3>1. done' = [done EXCEPT ![d][s] = left] /\ m.state = "PREPARE"
      BY <2>1 DEF Wipe
    <3>2. left \in SUBSET Step
      BY <1>0
    <3> HIDE DEF left
    <3> QED BY <1>0, <1>3, <3>1, <3>2, DoneIsSet
  <2>2. CASE Resume(1, d, s)
    BY <2>2 DEF Resume, AwaitsDevice, IsSet
  <2> QED BY <2>1, <2>2
<1>7. TargetIsSound(rows, t, done'[d][s])
  <2>1. CASE IsSet(done, done', d, s, did)
    BY <1>2, <2>1 DEF IsSet
  <2>2. CASE IsSet(done, done', d, s, left) /\ t = "PREPARE"
    <3>1. TargetIsSound(rows, "PREPARE", left)
      <4> HIDE DEF rows, did
      <4> QED BY <1>0, <1>2, <2>2, IsWiped
    <3> QED BY <2>2, <3>1 DEF IsSet
  <2> QED BY <1>6, <2>1, <2>2
<1>8. RunnerFits(rows, t, done'[d][s], Waits(1, d, s, id))
  BY <1>1, <1>2, <1>3, <1>5, <1>6 DEF RunnerFits, Executing
<1>9. OthersStay(d, s) /\ RowWritten(d, s)
  BY <1>0, <1>1, <1>4, <1>6, MachineSetKeeps DEF OthersStay, OthersKept, IsSet, RowWritten
<1>10. runner'[1][d][s] = Waits(1, d, s, id) /\ target'[d][s] = t /\ steps'[d][s] = rows
  BY <1>0, <1>1, <1>4, MachineSetKeeps
<1> QED BY <1>1, <1>2, <1>7, <1>8, <1>9, <1>10, TargetMoves

LEMMA WrittenElsewhere ==
  ASSUME DeploymentTyped, NEW d \in Deployment, NEW s \in Targets(d), NEW state, NEW step, NEW attempt,
         Persist(d, s, state, step, attempt)
  PROVE  \A e \in Deployment : e # d =>
           row'[e] = row[e] /\ target'[e] = target[e] /\ steps'[e] = steps[e]
BY DEF Persist, DeploymentTyped, Tabled

LEMMA MachineSetElsewhere ==
  ASSUME RunnersTyped, RunnersTyped', NEW k \in Slot, NEW d \in Deployment, NEW s \in Targets(d), NEW m,
         MachineSet(k, d, s, m)
  PROVE  \A j \in Slot : \A e \in Deployment : e # d => runner'[j][e] = runner[j][e]
<1> SUFFICES ASSUME NEW e \in Deployment, e # d PROVE runner'[k][e] = runner[k][e]
  BY DEF MachineSet
<1>1. runner[k][e] \in [Targets(e) -> Machine] /\ runner'[k][e] \in [Targets(e) -> Machine]
  BY DEF RunnersTyped, Tabled
<1>2. \A u \in Targets(e) : runner'[k][e][u] = runner[k][e][u]
  BY DEF MachineSet, IsSet
<1> QED BY <1>1, <1>2

\* A machine of a calm deployment is of its one run; any other may do as it likes.
LEMMA RunsAreSound ==
  ASSUME DeploymentTyped, DeploymentSound, NEW k \in Slot, NEW d \in Deployment, NEW s \in Targets(d),
         \/ Precheck(k, d, s) \/ PrepareNothing(k, d, s) \/ Wipe(k, d, s) \/ Resume(k, d, s)
         \/ Wiped(k, d, s) \/ Performed(k, d, s)
  PROVE  DeploymentSound'
<1>1. /\ Executing(k, d, s) /\ server = "up" /\ work = {} /\ server' = server /\ work' = work
      /\ disturbed' = disturbed
  BY DEF Precheck, PrepareNothing, Wipe, Resume, Wiped, Performed, Turn, Inside, DeviceAnswered, Quiet
<1>2. CASE d \in Calm
  <2>1. k = 1
    BY <1>1, <1>2 DEF DeploymentSound, TargetsAreSound, Executing
  <2> QED BY <1>2, <2>1, TurnsAreSound, WaitsAreSound
<1>3. CASE d \notin Calm
  <2>1. \A e \in Deployment : e # d => done'[e] = done[e]
    BY DEF Precheck, PrepareNothing, Wipe, Resume, Wiped, Performed, DeploymentTyped, Tabled
  <2>2. \A e \in Deployment : e # d =>
          row'[e] = row[e] /\ target'[e] = target[e] /\ steps'[e] = steps[e]
    <3>1. CASE Advance(k, d, s)
      BY <3>1, WrittenElsewhere DEF Advance
    <3>2. CASE Fail(k, d, s)
      BY <3>2, WrittenElsewhere DEF Fail
    <3>3. CASE Wipe(k, d, s) \/ Resume(k, d, s)
      BY <3>3 DEF Wipe, Resume, database
    <3> QED BY <3>1, <3>2, <3>3 DEF Precheck, PrepareNothing, Wiped, Performed
  <2>3. \A j \in Slot : \A e \in Deployment : e # d => runner'[j][e] = runner[j][e]
    <3>1. CASE Advance(k, d, s)
      BY <3>1, AdvanceIs, MachineSetElsewhere DEF DeploymentTyped
    <3>2. CASE Fail(k, d, s)
      BY <3>2, FailIs, MachineSetElsewhere DEF DeploymentTyped
    <3>3. CASE Wipe(k, d, s) \/ Resume(k, d, s)
      BY <3>3, WaitingIs, MachineSetElsewhere DEF DeploymentTyped
    <3> QED BY <3>1, <3>2, <3>3 DEF Precheck, PrepareNothing, Wiped, Performed
  <2>4. ElsewhereKept(d) /\ d \notin Calm'
    BY <1>1, <1>3, <2>1, <2>2, <2>3 DEF ElsewhereKept, Calm
  <2> QED BY <1>1, <2>4, DisturbedMoves
<1> QED BY <1>2, <1>3

\* The machines a run begins with stand where the rows say.
LEMMA LoadingIsSound ==
  ASSUME DeploymentTyped, DeploymentSound, NEW d \in Deployment, Load(d),
         d \in Calm => row[d].state # "none",
         server = "up", server' = server, work' = {}, UNCHANGED <<row, target, steps, done>>
  PROVE  DeploymentSound'
<1>1. /\ disturbed' = IF Running(d) THEN disturbed \cup {d} ELSE disturbed
      /\ \E k \in Slot :
           /\ ~Under(k, d) /\ \A j \in 1..(k - 1) : Under(j, d)
           /\ \A j \in Slot : j # k => runner'[j] = runner[j]
           /\ \A e \in Deployment : e # d => runner'[k][e] = runner[k][e]
           /\ \A s \in Targets(d) : runner'[k][d][s] =
                IF target[d][s] \in Settled THEN NoRun ELSE Loaded(d, s)
  BY LoadIs
<1>2. ElsewhereKept(d)
  BY <1>1 DEF ElsewhereKept
<1>3. CASE d \notin Calm'
  BY <1>1, <1>2, <1>3, DisturbedMoves
<1>4. SUFFICES ASSUME d \in Calm' PROVE DeploymentSound'
  BY <1>3
<1>5. ~Running(d) /\ disturbed' = disturbed /\ Calm' = Calm /\ d \in Calm
  BY <1>1, <1>4 DEF Calm
<1>6. \A j \in Slot : ~Under(j, d)
  BY <1>5 DEF Running
<1>7. /\ \A s \in Targets(d) : runner'[1][d][s] =
           IF target[d][s] \in Settled THEN NoRun ELSE Loaded(d, s)
      /\ \A k \in Slot : k # 1 => runner'[k] = runner[k]
  <2>1. PICK k \in Slot :
           /\ ~Under(k, d) /\ \A j \in 1..(k - 1) : Under(j, d)
           /\ \A j \in Slot : j # k => runner'[j] = runner[j]
           /\ \A s \in Targets(d) : runner'[k][d][s] =
                IF target[d][s] \in Settled THEN NoRun ELSE Loaded(d, s)
    BY <1>1
  <2>2. k = 1
    <3> SUFFICES ASSUME k # 1 PROVE FALSE
      OBVIOUS
    <3>1. k \in Nat /\ 1 \in 1..(k - 1)
      BY FirstSlot, DeploymentsAssumption DEF Slot
    <3> QED BY <1>6, <2>1, <3>1, FirstSlot
  <2> QED BY <2>1, <2>2
<1>8. ASSUME NEW s \in Targets(d)
      PROVE  RunnerFits(steps[d][s], target[d][s], done[d][s], runner'[1][d][s])
  <2> DEFINE t == target[d][s]
             rows == steps[d][s]
             did == done[d][s]
             last == LastIn(rows, "RUNNING")
  <2>1. TargetIsSound(rows, t, did) /\ rows \in Seq(StepRow) /\ t \in TargetState
    BY <1>5 DEF DeploymentSound, TargetsAreSound, DeploymentTyped, Tabled
  <2>2. CASE t \in Settled
    BY <1>7, <2>2 DEF RunnerFits
  <2>3. CASE t \notin Settled
    <3>1. runner'[1][d][s] = [state |-> t, step |-> last, waiting |-> FALSE, wipe |-> 0]
      BY <1>7, <2>3 DEF Loaded
    <3>2. t \in Step \cup {"QUEUED"}
      BY <2>1, <2>3 DEF TargetState
    <3>3. /\ last \in {"none", t} \ {"QUEUED"}
          /\ t \in Step \ Early => last = t
          /\ last = "none" => Open(rows) = {}
      <4> HIDE DEF t, rows, did
      <4> QED BY <2>1, <3>2, IsLoaded
    <3> HIDE DEF last
    <3> QED BY <3>1, <3>2, <3>3 DEF RunnerFits
  <2> QED BY <2>2, <2>3
<1>9. TargetsAreSound'
  <2> SUFFICES ASSUME NEW e \in Calm, NEW u \in Targets(e)
               PROVE  /\ TargetIsSound(steps'[e][u], target'[e][u], done'[e][u])
                      /\ RunnerFits(steps'[e][u], target'[e][u], done'[e][u], runner'[1][e][u])
                      /\ \A k \in Slot : k # 1 => runner'[k][e][u] = NoRun
    BY <1>5 DEF TargetsAreSound, TargetIsSound, RunnerFits, ActiveIsSound, FailedIsSound, RestsEarly
  <2>1. /\ TargetIsSound(steps[e][u], target[e][u], done[e][u])
        /\ RunnerFits(steps[e][u], target[e][u], done[e][u], runner[1][e][u])
        /\ \A k \in Slot : k # 1 => runner[k][e][u] = NoRun
    BY DEF DeploymentSound, TargetsAreSound
  <2>2. e # d => runner'[1][e] = runner[1][e]
    BY <1>2, FirstSlot DEF ElsewhereKept, Calm
  <2> QED BY <1>8, <1>7, <2>1, <2>2
<1>10. RowsTrue'
  <2> SUFFICES ASSUME NEW e \in Calm PROVE RowIsSound(e)'
    BY <1>5 DEF RowsTrue
  <2>1. RowIsSound(e)
    BY DEF DeploymentSound, RowsTrue
  <2>2. CASE e = d
    BY <1>5, <2>1, <2>2 DEF RowIsSound
  <2>3. CASE e # d
    <3>1. runner'[1][e] = runner[1][e]
      BY <1>2, <2>3, FirstSlot DEF ElsewhereKept, Calm
    <3> QED BY <2>1, <2>3, <3>1 DEF RowIsSound, Executing
  <2> QED BY <2>2, <2>3
<1>11. ItemsAreSound' /\ ServerIsSound'
  BY DEF ItemsAreSound, ServerIsSound
<1> QED BY <1>9, <1>10, <1>11 DEF DeploymentSound

LEMMA RequestingIsSound ==
  ASSUME DeploymentTyped, DeploymentSound, NEW d \in Deployment, Start(d) \/ Retry(d) \/ Cancel(d)
  PROVE  DeploymentSound'
<1>1. Quiet /\ row[d].state # "none"
  BY DEF Start, Retry, Cancel, MayRun, Created
<1>2. CASE Start(d)
  <2>1. Load(d) /\ server' = server /\ work' = {} /\ UNCHANGED <<row, target, steps, done>>
    BY <1>1, <1>2 DEF Start, database, Quiet
  <2> QED BY <1>1, <2>1, LoadingIsSound DEF Quiet
<1>3. ASSUME NEW op \in {"RETRY", "CANCEL"}, NEW which \in SUBSET Targets(d), NEW runs_,
             work' = Items(d, op, which) \cup runs_,
             \A w \in runs_ : w.op = "RUN" /\ w.d = d,
             op = "RETRY" => \A s \in which : target[d][s] = "FAILED",
             UNCHANGED <<server, row, target, steps, runner, done, disturbed>>
      PROVE  DeploymentSound'
  <2>1. TargetsAreSound' /\ RowsTrue'
    BY <1>3, NothingMoves DEF DeploymentSound
  <2>2. \A w \in work' : /\ w.d = d /\ w.op # "RECOVER"
                         /\ w.op # "RUN" => w = [op |-> op, d |-> d, s |-> w.s] /\ w.s \in which
    BY <1>3 DEF Items
  <2>3. ItemsAreSound'
    <3>1. \A v, w \in work' : v.d = w.d
      BY <2>2
    <3>2. \A v, w \in work' : v.op # "RUN" /\ w.op # "RUN" /\ v.s = w.s => v = w
      BY <2>2
    <3>3. \A w \in work' : row'[w.d].state # "none"
      BY <1>1, <1>3, <2>2
    <3>4. \A w \in work' : w.op = "RETRY" => target'[w.d][w.s] = "FAILED"
      <4> SUFFICES ASSUME NEW w \in work', w.op = "RETRY" PROVE target'[w.d][w.s] = "FAILED"
        OBVIOUS
      <4>1. op = "RETRY" /\ w.s \in which /\ w.d = d
        BY <2>2
      <4> QED BY <1>3, <4>1
    <3> QED BY <2>2, <3>1, <3>2, <3>3, <3>4 DEF ItemsAreSound
  <2>4. ServerIsSound'
    BY <1>1, <1>3 DEF ServerIsSound, NobodyInside, Quiet, Targets, Inside, Executing
  <2> QED BY <2>1, <2>3, <2>4 DEF DeploymentSound
<1>4. CASE Retry(d)
  <2> DEFINE failed == {s \in Targets(d) : target[d][s] = "FAILED"}
             runs_ == Items(d, "RUN", {TargetsOf[d][1]})
  <2>1. /\ work' = Items(d, "RETRY", failed) \cup runs_
        /\ UNCHANGED <<server, row, target, steps, runner, done, disturbed>>
    BY <1>4 DEF Retry, Targets, database
  <2>2. \A w \in runs_ : w.op = "RUN" /\ w.d = d
    BY DEF Items
  <2>3. failed \in SUBSET Targets(d) /\ \A s \in failed : target[d][s] = "FAILED"
    OBVIOUS
  <2> HIDE DEF failed, runs_
  <2> QED BY <1>3, <2>1, <2>2, <2>3
<1>5. CASE Cancel(d)
  <2> DEFINE open == {s \in Targets(d) : target[d][s] \notin Settled}
             runs_ == {}
  <2>1. /\ work' = Items(d, "CANCEL", open) \cup runs_
        /\ UNCHANGED <<server, row, target, steps, runner, done, disturbed>>
    BY <1>5 DEF Cancel, Targets, database
  <2>2. /\ open \in SUBSET Targets(d) /\ "CANCEL" \in {"RETRY", "CANCEL"} /\ "CANCEL" # "RETRY"
        /\ \A w \in runs_ : w.op = "RUN" /\ w.d = d
    OBVIOUS
  <2> HIDE DEF open, runs_
  <2> QED BY <1>3, <2>1, <2>2
<1> QED BY <1>2, <1>4, <1>5

LEMMA InsertingIsSound ==
  ASSUME DeploymentTyped, DeploymentSound, NEW d \in Deployment, Insert(d)
  PROVE  DeploymentSound'
<1>1. /\ row' = [row EXCEPT ![d].state = "QUEUED"] /\ row[d].state = "none" /\ work = {}
      /\ server = "up" /\ UNCHANGED <<server, work, target, steps, runner, done, disturbed>>
  BY DEF Insert, Created, Quiet
<1>2. /\ row'[d].state = "QUEUED" /\ row'[d].step = row[d].step
      /\ \A e \in Deployment : e # d => row'[e] = row[e]
  <2>1. row[d] \in DeploymentRow /\ row \in [Deployment -> DeploymentRow]
    BY DEF DeploymentTyped
  <2>2. row[d] \in [state : TargetState \cup {"none"}, step : Step \cup {"none"}]
    BY <2>1 DEF DeploymentRow
  <2>3. DOMAIN row = Deployment
    BY <2>1
  <2> QED BY <1>1, <2>2, <2>3
<1>3. d \in Calm =>
        row[d].step = "none" /\ \A s \in Targets(d) : target[d][s] = "QUEUED" /\ ~Executing(1, d, s)
  BY <1>1 DEF DeploymentSound, RowsTrue, RowIsSound
<1>4. TargetsAreSound'
  BY <1>1 DEF DeploymentSound, TargetsAreSound, Calm
<1>5. ASSUME NEW e \in Calm PROVE RowIsSound(e)'
  <2>1. CASE e = d
    <3>1. \E s \in Targets(d) : target'[d][s] = row'[d].state
      BY <1>1, <1>2, <1>3, <2>1, DevicesOfTargets
    <3> QED BY <1>2, <1>3, <2>1, <3>1, FiveSteps DEF RowIsSound
  <2>2. CASE e # d
    <3>1. RowIsSound(e)
      BY DEF DeploymentSound, RowsTrue
    <3> QED BY <1>1, <1>2, <2>2, <3>1 DEF RowIsSound, Executing, Calm
  <2> QED BY <2>1, <2>2
<1>6. ItemsAreSound' /\ ServerIsSound'
  BY <1>1 DEF ItemsAreSound, ServerIsSound
<1>7. Calm' = Calm
  BY <1>1 DEF Calm
<1> QED BY <1>4, <1>5, <1>6, <1>7 DEF DeploymentSound, RowsTrue

\* The items that the event loop finds: a retry, the run after it, a cancellation.
LEMMA OthersRemain ==
  ASSUME ItemsAreSound, NEW w \in work, w.op # "RUN"
  PROVE  \A v \in work \ {w} : v.op # "RUN" => v.d # w.d \/ v.s # w.s
BY DEF ItemsAreSound

\* An item about a disturbed deployment.
LEMMA DisturbedItems ==
  ASSUME DeploymentTyped, DeploymentSound, NEW w \in work, w.d \notin Calm,
         server = "up", work' \subseteq work, UNCHANGED <<server, runner, done, disturbed>>,
         \/ UNCHANGED <<row, target, steps>>
         \/ \E state, step, attempt : Persist(w.d, w.s, state, step, attempt)
  PROVE  DeploymentSound'
<1>1. w.d \in Deployment /\ w.s \in Targets(w.d)
  BY DEF DeploymentTyped
<1>2. ElsewhereKept(w.d) /\ w.d \notin Calm'
  BY <1>1, WrittenElsewhere DEF ElsewhereKept, Calm
<1> QED BY <1>1, <1>2, DisturbedMoves

LEMMA RetryIsSound ==
  ASSUME DeploymentTyped, DeploymentSound, DispatchRetry
  PROVE  DeploymentSound'
<1>1. PICK w \in work :
        LET d == w.d  s == w.s  step == LastIn(steps[d][s], "FAILED")
        IN  /\ server = "up" /\ w.op = "RETRY"
            /\ \/ step = "none" /\ work' = {} /\ UNCHANGED <<row, target, steps>>
               \/ step # "none" /\ work' = work \ {w} /\ Persist(d, s, step, step, 2)
            /\ UNCHANGED <<server, runner, done, disturbed>>
  BY DEF DispatchRetry, Requested
<1> DEFINE d == w.d
           s == w.s
           rows == steps[d][s]
           did == done[d][s]
           step == LastIn(rows, "FAILED")
<1>2. d \in Deployment /\ s \in Targets(d)
  BY DEF DeploymentTyped
<1> SUFFICES ASSUME d \in Calm PROVE DeploymentSound'
  BY <1>1, DisturbedItems
<1>3. rows \in Seq(StepRow) /\ did \in SUBSET Step
  BY <1>2 DEF DeploymentTyped, Tabled
<1>4. target[d][s] = "FAILED" /\ row[d].state # "none"
  BY <1>1 DEF DeploymentSound, ItemsAreSound
<1>5. TargetIsSound(rows, "FAILED", did) /\ RunnerFits(rows, "FAILED", did, runner[1][d][s])
  BY <1>2, <1>4 DEF DeploymentSound, TargetsAreSound
<1>6. runner[1][d][s] = NoRun
  BY <1>5, FiveSteps DEF RunnerFits
<1>7. CASE step = "none" /\ work' = {} /\ UNCHANGED <<row, target, steps>>
  BY <1>1, <1>7, ItemsDropped
<1>8. CASE step # "none" /\ work' = work \ {w} /\ Persist(d, s, step, step, 2)
  <2>1. step \in Step /\ TargetIsSound(Recorded(rows, step, step, 2), step, did)
    <3> HIDE DEF rows, did
    <3> QED BY <1>3, <1>5, <1>8, IsRetried
  <2>2. step \in TargetState \ {"QUEUED"} /\ step # "COMPLETED" /\ 2 \in 1..2
    BY <2>1, FiveSteps DEF TargetState
  <2>3. \A v \in work' : v.op # "RUN" => v.d # d \/ v.s # s
    BY <1>1, <1>8, OthersRemain DEF DeploymentSound
  <2>4. done'[d][s] = did /\ UNCHANGED <<server, runner, done, disturbed>> /\ server = "up"
    BY <1>1
  <2>5. Persist(d, s, step, step, 2) /\ work' \subseteq work
    BY <1>8
  <2> HIDE DEF d, s, step
  <2>6. /\ RowWritten(d, s) /\ target'[d][s] = step
        /\ steps'[d][s] = Recorded(rows, step, step, 2)
        /\ \A e \in Deployment : \A u \in Targets(e) : e # d \/ u # s =>
             target'[e][u] = target[e][u] /\ steps'[e][u] = steps[e][u]
    BY <1>2, <2>1, <2>2, <2>5, PersistWrites
  <2>7. OthersStay(d, s)
    BY <2>4, <2>6 DEF OthersStay, OthersKept
  <2>8. RunnerFits(steps'[d][s], target'[d][s], done'[d][s], runner'[1][d][s])
    BY <1>6, <2>4 DEF RunnerFits
  <2> QED BY <1>2, <1>4, <2>1, <2>3, <2>4, <2>5, <2>6, <2>7, <2>8, TargetMoves
<1> QED BY <1>1, <1>7, <1>8

LEMMA RunAfterRetryIsSound ==
  ASSUME DeploymentTyped, DeploymentSound, RunAfterRetry
  PROVE  DeploymentSound'
<1>1. PICK w \in work :
        /\ server = "up" /\ w.op = "RUN" /\ work' = work \ {w} /\ Load(w.d)
        /\ \A v \in work \ {w} : Before(w, v)
        /\ UNCHANGED <<server, row, target, steps, done>>
  BY DEF RunAfterRetry, Requested, database
<1>2. w.d \in Deployment /\ (w.d \in Calm => row[w.d].state # "none")
  BY DEF DeploymentTyped, DeploymentSound, ItemsAreSound
<1>3. \A v \in work \ {w} : w.d = v.d /\ w.d < v.d
  BY <1>1 DEF DeploymentSound, ItemsAreSound, Before
<1>4. work' = {}
  BY <1>1, <1>2, <1>3 DEF Deployment
<1> QED BY <1>1, <1>2, <1>4, LoadingIsSound

LEMMA CancelIsSound ==
  ASSUME DeploymentTyped, DeploymentSound, DispatchCancel
  PROVE  DeploymentSound'
<1>1. PICK w \in work :
        LET d == w.d  s == w.s
        IN  /\ server = "up" /\ w.op = "CANCEL"
            /\ \/ /\ target[d][s] \in Cancellable
                  /\ work' = work \ {w}
                  /\ Persist(d, s, "CANCELLED", Loaded(d, s).step, 1)
               \/ work' = {} /\ UNCHANGED <<row, target, steps>>
            /\ UNCHANGED <<server, runner, done, disturbed>>
  BY DEF DispatchCancel, Requested
<1> DEFINE d == w.d
           s == w.s
           rows == steps[d][s]
           t == target[d][s]
           did == done[d][s]
           step == LastIn(rows, "RUNNING")
           m == runner[1][d][s]
<1>2. d \in Deployment /\ s \in Targets(d)
  BY DEF DeploymentTyped
<1>3. CASE d \notin Calm
  BY <1>1, <1>3, DisturbedItems
<1> SUFFICES ASSUME d \in Calm PROVE DeploymentSound'
  BY <1>3
<1>4. rows \in Seq(StepRow) /\ did \in SUBSET Step /\ m \in Machine /\ t \in TargetState
  BY <1>2, FirstSlot, MachinesOfTargets DEF DeploymentTyped, Tabled
<1>5. row[d].state # "none" /\ (m # NoRun => m.waiting)
  BY <1>1, <1>2, FirstSlot DEF DeploymentSound, ItemsAreSound, ServerIsSound, NobodyInside, Inside, Executing
<1>6. TargetIsSound(rows, t, did) /\ RunnerFits(rows, t, did, m)
  BY <1>2 DEF DeploymentSound, TargetsAreSound
<1>7. step \in Step \cup {"none"}
  <2> HIDE DEF rows
  <2> QED BY <1>4, LastInIs
<1>8. CASE work' = {} /\ UNCHANGED <<row, target, steps>>
  BY <1>1, <1>8, ItemsDropped
<1>9. CASE t \in Cancellable /\ work' = work \ {w} /\ Persist(d, s, "CANCELLED", step, 1)
  <2>1. TargetIsSound(Recorded(rows, "CANCELLED", step, 1), "CANCELLED", did)
    <3> HIDE DEF rows, did, t
    <3> QED BY <1>4, <1>6, <1>9, IsCancelled
  <2>2. /\ "CANCELLED" \in TargetState \ {"QUEUED"} /\ "CANCELLED" \notin Step
        /\ "CANCELLED" # "COMPLETED" /\ 1 \in 1..2
    BY FiveSteps DEF TargetState, Settled, Ended
  <2>3. \A v \in work' : v.op # "RUN" => v.d # d \/ v.s # s
    BY <1>1, <1>9, OthersRemain DEF DeploymentSound
  <2>4. done'[d][s] = did /\ UNCHANGED <<server, runner, done, disturbed>> /\ server = "up" /\ runner'[1][d][s] = m
    BY <1>1
  <2>5. Persist(d, s, "CANCELLED", step, 1) /\ work' \subseteq work
    BY <1>9
  <2>6. RunnerFits(Recorded(rows, "CANCELLED", step, 1), "CANCELLED", did, m)
    <3> SUFFICES ASSUME m # NoRun
                 PROVE  RunnerFits(Recorded(rows, "CANCELLED", step, 1), "CANCELLED", did, m)
      BY DEF RunnerFits
    <3>1. m.waiting /\ m.state \notin {"QUEUED", "PRECHECK"}
      BY <1>5, <1>6 DEF RunnerFits
    <3>2. t = m.state
      BY <1>6, <1>9 DEF RunnerFits, Cancellable
    <3>3. m.state = "PREPARE" /\ t = "PREPARE"
      BY <1>9, <3>1, <3>2 DEF Cancellable
    <3>4. Behind("PREPARE") \subseteq did
      BY <1>6, <3>3, FiveSteps DEF TargetIsSound, ActiveIsSound
    <3>5. Open(Recorded(rows, "CANCELLED", step, 1)) = {}
      BY <2>1, FiveSteps DEF TargetIsSound, RestsEarly
    <3>6. m.step \in {"none", m.state} \ {"QUEUED"} /\ m.state \in Step \cup {"QUEUED"}
          /\ (m.state \in Step \ Early => m.step = m.state)
      BY <1>6 DEF RunnerFits
    <3> HIDE DEF m, t, did, rows, step
    <3> QED BY <3>1, <3>3, <3>4, <3>5, <3>6 DEF RunnerFits
  <2> HIDE DEF d, s, step, m, rows, did, t
  <2>7. /\ RowWritten(d, s) /\ target'[d][s] = "CANCELLED"
        /\ steps'[d][s] = Recorded(steps[d][s], "CANCELLED", step, 1)
        /\ \A e \in Deployment : \A u \in Targets(e) : e # d \/ u # s =>
             target'[e][u] = target[e][u] /\ steps'[e][u] = steps[e][u]
    BY <1>2, <1>7, <2>2, <2>5, PersistWrites
  <2>8. OthersStay(d, s)
    BY <2>4, <2>7 DEF OthersStay, OthersKept
  <2>9. steps'[d][s] = Recorded(rows, "CANCELLED", step, 1)
    BY <2>7 DEF rows
  <2> QED BY <1>2, <1>5, <2>1, <2>3, <2>4, <2>5, <2>6, <2>7, <2>8, <2>9, TargetMoves
<1> QED
  <2>1. Loaded(d, s).step = step
    BY DEF Loaded
  <2> QED BY <1>1, <1>8, <1>9, <2>1

\* The recovery of a target that has its own rows: its running attempt fails.
LEMMA RecoverTargetIsSound ==
  ASSUME DeploymentTyped, DeploymentSound, RecoverTarget
  PROVE  DeploymentSound'
<1>1. PICK w \in work :
        LET d == w.d  s == w.s  active == Loaded(d, s).step
        IN  /\ server = "up" /\ w.op = "RECOVER" /\ work' = work \ {w}
            /\ IF target[d][s] \in Step /\ active # "none"
               THEN Persist(d, s, "FAILED", active, 1)
               ELSE UNCHANGED <<row, target, steps>>
            /\ UNCHANGED <<server, runner, done, disturbed>>
  BY DEF RecoverTarget, Requested
<1> DEFINE d == w.d
           s == w.s
           rows == steps[d][s]
           t == target[d][s]
           did == done[d][s]
           step == LastIn(rows, "RUNNING")
<1>2. d \in Deployment /\ s \in Targets(d)
  BY DEF DeploymentTyped
<1>3. CASE d \notin Calm
  BY <1>1, <1>3, DisturbedItems
<1> SUFFICES ASSUME d \in Calm PROVE DeploymentSound'
  BY <1>3
<1>4. rows \in Seq(StepRow) /\ did \in SUBSET Step /\ t \in TargetState
  BY <1>2 DEF DeploymentTyped, Tabled
<1>5. row[d].state # "none" /\ runner[1][d][s] = NoRun
  BY <1>1 DEF DeploymentSound, ItemsAreSound, RecoverIsSound, Executing
<1>6. TargetIsSound(rows, t, did)
  BY <1>2 DEF DeploymentSound, TargetsAreSound
<1>7. \A v \in work' : v.op # "RUN" => v.d # d \/ v.s # s
  BY <1>1, OthersRemain DEF DeploymentSound
<1>8. done'[d][s] = did /\ UNCHANGED <<server, runner, done, disturbed>> /\ server = "up"
      /\ runner'[1][d][s] = NoRun /\ work' \subseteq work
  BY <1>1, <1>5
<1>9. \A new, state, did2 : RunnerFits(new, state, did2, runner'[1][d][s])
  BY <1>8 DEF RunnerFits
<1>10. CASE UNCHANGED <<row, target, steps>>
  <2>1. RowWritten(d, s) /\ OthersStay(d, s)
    BY <1>8, <1>10 DEF RowWritten, OthersStay, OthersKept
  <2>2. TargetIsSound(steps'[d][s], target'[d][s], done'[d][s])
    BY <1>6, <1>8, <1>10
  <2> HIDE DEF d, s
  <2> QED BY <1>2, <1>5, <1>7, <1>8, <1>9, <2>1, <2>2, TargetMoves
<1>11. CASE t \in Step /\ step # "none" /\ Persist(d, s, "FAILED", step, 1)
  <2>1. step = t /\ step \in Step
    <3> HIDE DEF rows, did, t
    <3>1. step \in {"none", t} \ {"QUEUED"}
      BY <1>4, <1>6, <1>11, IsLoaded
    <3> QED BY <1>11, <3>1
  <2>2. TargetIsSound(Recorded(rows, "FAILED", step, 1), "FAILED", did)
    <3> HIDE DEF rows, did, t, step
    <3> QED BY <1>4, <1>6, <2>1, StepFails
  <2>3. /\ "FAILED" \in TargetState \ {"QUEUED"} /\ "FAILED" \notin Step
        /\ "FAILED" # "COMPLETED" /\ 1 \in 1..2
    BY FiveSteps DEF TargetState, Settled
  <2> HIDE DEF d, s, step, rows, did, t
  <2>4. /\ RowWritten(d, s) /\ target'[d][s] = "FAILED"
        /\ steps'[d][s] = Recorded(steps[d][s], "FAILED", step, 1)
        /\ \A e \in Deployment : \A u \in Targets(e) : e # d \/ u # s =>
             target'[e][u] = target[e][u] /\ steps'[e][u] = steps[e][u]
    BY <1>2, <1>11, <2>1, <2>3, PersistWrites
  <2>5. OthersStay(d, s)
    BY <1>8, <2>4 DEF OthersStay, OthersKept
  <2>6. steps'[d][s] = Recorded(rows, "FAILED", step, 1)
    BY <2>4 DEF rows
  <2> QED BY <1>2, <1>5, <1>7, <1>8, <1>9, <2>2, <2>4, <2>5, <2>6, TargetMoves
<1> QED
  <2>1. Loaded(d, s).step = step
    BY DEF Loaded
  <2> QED BY <1>1, <1>10, <1>11, <2>1

\* The recovery from the row of the deployment takes a target that has just been
\* created for one at PRECHECK; any other makes the start of the server throw.
LEMMA RecoverFromRowIsSound ==
  ASSUME DeploymentTyped, DeploymentSound, RecoverFromRow
  PROVE  \/ DeploymentSound'
         \/ server' = "refused" /\ StepsTell'
<1>1. PICK w \in work : RecoversFromRow(w)
  BY RecoverFromRowIs
<1> DEFINE d == w.d
           s == w.s
           from == w.row
           rows == steps[d][s]
           t == target[d][s]
           did == done[d][s]
           inserted == Added(rows, from.step, 1)
           active == LastIn(inserted, "RUNNING")
           failed == Recorded(inserted, "FAILED", active, 1)
<1>2. d \in Deployment /\ s \in Targets(d) /\ from \in DeploymentRow /\ from.step # "none"
      /\ w.op = "RECOVER" /\ server = "up"
  BY <1>1 DEF DeploymentTyped, RecoversFromRow
<1>3. /\ UNCHANGED <<runner, done, disturbed>>
      /\ \/ /\ work' \subseteq work /\ UNCHANGED server
            /\ row' = [row EXCEPT ![d] = [state |-> "FAILED", step |-> LastIn(Taken(rows, from), "RUNNING")]]
         \/ server' = "refused" /\ row' = row
      /\ \E new : target' = [target EXCEPT ![d][s] = new]
      /\ \E new : steps' = [steps EXCEPT ![d][s] = new]
  BY <1>1 DEF RecoversFromRow
<1>4. CASE d \notin Calm
  <2>1. ElsewhereKept(d) /\ d \notin Calm' /\ Calm' = Calm
    BY <1>2, <1>3, <1>4 DEF ElsewhereKept, Calm, DeploymentTyped, Tabled
  <2>2. CASE UNCHANGED server
    BY <1>2, <1>3, <2>1, <2>2, DisturbedMoves
  <2>3. CASE server' = "refused"
    <3>1. StepsTell
      BY SoundTells DEF DeploymentSound
    <3>2. \A e \in Calm : target'[e] = target[e] /\ steps'[e] = steps[e] /\ done'[e] = done[e]
      BY <1>4, <2>1 DEF ElsewhereKept, Calm
    <3> QED BY <2>1, <2>3, <3>1, <3>2 DEF StepsTell
  <2> QED BY <1>3, <2>2, <2>3
<1> SUFFICES ASSUME d \in Calm PROVE DeploymentSound' \/ (server' = "refused" /\ StepsTell')
  BY <1>4
<1>5. rows \in Seq(StepRow) /\ did \in SUBSET Step /\ t \in TargetState
  BY <1>2 DEF DeploymentTyped, Tabled
<1>6. row[d].state # "none" /\ RecoverIsSound(w)
  BY <1>2 DEF DeploymentSound, ItemsAreSound
<1>7. /\ runner[1][d][s] = NoRun /\ from.state \notin {"COMPLETED", "none"}
      /\ (t \in Step /\ from.step = t) \/ (t = "QUEUED" /\ from.step = "PRECHECK")
  BY <1>2, <1>6 DEF RecoverIsSound, Executing
<1>8. TargetIsSound(rows, t, did) /\ from.step \in Step /\ LastIn(rows, "RUNNING") = "none"
  <2>1. TargetIsSound(rows, t, did)
    BY <1>2 DEF DeploymentSound, TargetsAreSound
  <2>2. LastIn(rows, "RUNNING") = "none"
    BY <1>1 DEF RecoversFromRow, Loaded
  <2> QED BY <1>2, <2>1, <2>2 DEF DeploymentRow
<1>9. Taken(steps[d][s], from) = inserted
  BY TakenIsAdded
<1>10. /\ UNCHANGED <<runner, done, disturbed>>
       /\ \/ /\ active = from.step /\ work' = work \ {w} /\ UNCHANGED server
             /\ row' = [row EXCEPT ![d] = [state |-> "FAILED", step |-> active]]
             /\ target' = [target EXCEPT ![d][s] = "FAILED"]
             /\ steps' = [steps EXCEPT ![d][s] = failed]
          \/ /\ server' = "refused" /\ target' = [target EXCEPT ![d][s] = from.state]
             /\ steps' = [steps EXCEPT ![d][s] = inserted]
  <2> HIDE DEF inserted
  <2> QED BY <1>1, <1>9 DEF RecoversFromRow
<1>11. IsAdded(inserted, rows, from.step, 1)
  <2> DEFINE step == from.step
  <2>1. step \in Step /\ 1 \in 1..2
    BY <1>8
  <2> HIDE DEF rows, step
  <2>2. IsAdded(Added(rows, step, 1), rows, step, 1)
    BY <1>5, <2>1, AddedIs
  <2> QED BY <2>2 DEF step
<1>12. CASE /\ server' = "refused" /\ target' = [target EXCEPT ![d][s] = from.state]
            /\ steps' = [steps EXCEPT ![d][s] = inserted]
  <2> DEFINE state == from.state
  <2>1. state \in TargetState /\ state # "COMPLETED" /\ target' = [target EXCEPT ![d][s] = state]
    BY <1>2, <1>7, <1>12 DEF DeploymentRow
  <2>2. \A i \in DOMAIN inserted : inserted[i].state = "SUCCEEDED" => inserted[i].step \in did
    <3>1. \A i \in DOMAIN rows : rows[i].state = "SUCCEEDED" => rows[i].step \in did
      BY <1>8 DEF TargetIsSound, RowsTell
    <3> HIDE DEF inserted, rows, did
    <3> QED BY <1>11, <3>1 DEF IsAdded
  <2>3. inserted \in Seq(StepRow)
    BY <1>11 DEF IsAdded
  <2> HIDE DEF d, s, state, inserted
  <2>4. IsSet(target, target', d, s, state)
    BY <1>2, <2>1, SettingOne DEF DeploymentTyped
  <2>5. IsSet(steps, steps', d, s, inserted)
    BY <1>2, <1>12, <2>3, SettingOne DEF DeploymentTyped
  <2>6. StepsTell
    BY SoundTells DEF DeploymentSound
  <2>7. StepsTell'
    <3> SUFFICES ASSUME NEW e \in Calm, e \in Deployment, NEW u \in Targets(e)
                 PROVE  TargetTells(steps'[e][u], target'[e][u], done'[e][u])
      BY <1>10 DEF StepsTell, TargetTells, Calm
    <3>1. CASE e = d /\ u = s
      BY <1>10, <2>1, <2>2, <2>4, <2>5, <3>1 DEF IsSet, TargetTells
    <3>2. CASE e # d \/ u # s
      BY <1>10, <2>4, <2>5, <2>6, <3>2 DEF IsSet, StepsTell
    <3> QED BY <3>1, <3>2
  <2> QED BY <1>12, <2>7
<1>13. CASE /\ active = from.step /\ work' = work \ {w} /\ UNCHANGED server
            /\ row' = [row EXCEPT ![d] = [state |-> "FAILED", step |-> active]]
            /\ target' = [target EXCEPT ![d][s] = "FAILED"]
            /\ steps' = [steps EXCEPT ![d][s] = failed]
  <2>1. t = "QUEUED" /\ from.step = "PRECHECK"
    <3> SUFFICES ASSUME t \in Step, from.step = t PROVE FALSE
      BY <1>7
    <3>1. Has(rows, t, 1)
      BY <1>8, FiveSteps DEF TargetIsSound, ActiveIsSound
    <3>2. inserted = rows
      BY <3>1 DEF Added
    <3> HIDE DEF inserted
    <3> QED BY <1>2, <1>8, <1>13, <3>2
  <2>2. rows = <<>> /\ RowsAreSound(rows) /\ RowsTell(rows, did)
    BY <1>8, <2>1 DEF TargetIsSound
  <2>3. RestsEarly(rows) /\ OpenAt(rows, "PRECHECK")
    BY <2>2 DEF RestsEarly, AtStep, OpenAt, Open, Retried, Early
  <2>4. Recorded(rows, "PRECHECK", "PRECHECK", 1) = inserted /\ active = "PRECHECK"
    <3>1. "PRECHECK" \in Step
      BY FiveSteps
    <3>2. Recorded(rows, "PRECHECK", "PRECHECK", 1) = StepsEntered(rows, "PRECHECK", 1)
      BY <3>1, RecordedEnters
    <3>3. StepsEntered(rows, "PRECHECK", 1) = Added(rows, "PRECHECK", 1)
      <4> HIDE DEF rows
      <4> QED BY <1>5, <2>3, <3>1, EnteredHere
    <3> QED BY <1>13, <2>1, <3>2, <3>3
  <2>5. TargetIsSound(inserted, "PRECHECK", did)
    <3> HIDE DEF rows, did, inserted
    <3>1. TargetIsSound(Recorded(rows, "PRECHECK", "PRECHECK", 1), "PRECHECK", did)
      BY <1>5, <2>2, <2>3, EntersPrecheck
    <3> QED BY <2>4, <3>1
  <2>6. inserted \in Seq(StepRow)
    BY <1>11 DEF IsAdded
  <2>7. TargetIsSound(failed, "FAILED", did) /\ failed \in Seq(StepRow)
    <3>1. active \in Step /\ active \in Step \cup {"none"} /\ 1 \in 1..2
      BY <2>4, FiveSteps
    <3> HIDE DEF did, inserted, active
    <3>2. TargetIsSound(inserted, active, did)
      BY <2>4, <2>5
    <3> QED BY <1>5, <2>6, <3>1, <3>2, StepFails, RecordedKeeps
  <2>8. "FAILED" \in TargetState
    BY DEF TargetState, Settled
  <2>9. \A v \in work' : v.op # "RUN" => v.d # d \/ v.s # s
    BY <1>2, <1>13, OthersRemain DEF DeploymentSound
  <2> HIDE DEF d, s, failed, inserted, active, did, from
  <2>10. IsSet(target, target', d, s, "FAILED")
    BY <1>2, <1>13, <2>8, SettingOne DEF DeploymentTyped
  <2>11. IsSet(steps, steps', d, s, failed)
    BY <1>2, <1>13, <2>7, SettingOne DEF DeploymentTyped
  <2>12. /\ row'[d].state = "FAILED"
         /\ \A e \in Deployment : e # d => row'[e] = row[e]
    <3>1. DOMAIN row = Deployment
      BY DEF DeploymentTyped
    <3> QED BY <1>2, <1>13, <3>1
  <2>13. RowWritten(d, s) /\ OthersStay(d, s)
    BY <1>10, <2>10, <2>11, <2>12, FiveSteps DEF RowWritten, OthersStay, OthersKept, IsSet
  <2>14. RunnerFits(steps'[d][s], target'[d][s], done'[d][s], runner'[1][d][s])
    BY <1>7, <1>10 DEF RunnerFits
  <2>15. TargetIsSound(steps'[d][s], target'[d][s], done'[d][s])
    BY <1>10, <2>7, <2>10, <2>11 DEF IsSet, did
  <2>16. server' = server /\ work' \subseteq work /\ (work # {} => runner' = runner)
    BY <1>10, <1>13
  <2> QED BY <1>2, <1>6, <2>9, <2>13, <2>14, <2>15, <2>16, TargetMoves
<1> QED BY <1>10, <1>12, <1>13

LEMMA CrashIsSound ==
  ASSUME DeploymentTyped, DeploymentSound, Crash
  PROVE  DeploymentSound'
<1>1. /\ work' = {} /\ \A d \in Calm' : d \in Calm /\ d \in Deployment /\ ~Wide(d)
      /\ \A k \in Slot : \A d \in Deployment : \A s \in Targets(d) : runner'[k][d][s] = NoRun
      /\ UNCHANGED <<row, target, steps, done>>
  BY DEF Crash, database, Targets, Calm
<1>2. TargetsAreSound'
  <2> SUFFICES ASSUME NEW d \in Calm', NEW s \in Targets(d)
               PROVE  /\ TargetIsSound(steps'[d][s], target'[d][s], done'[d][s])
                      /\ RunnerFits(steps'[d][s], target'[d][s], done'[d][s], runner'[1][d][s])
                      /\ \A k \in Slot : k # 1 => runner'[k][d][s] = NoRun
    BY DEF TargetsAreSound, TargetIsSound, RunnerFits, ActiveIsSound, FailedIsSound, RestsEarly
  <2>1. TargetIsSound(steps[d][s], target[d][s], done[d][s])
    BY <1>1 DEF DeploymentSound, TargetsAreSound
  <2>2. \A k \in Slot : runner'[k][d][s] = NoRun
    BY <1>1
  <2> QED BY <1>1, <2>1, <2>2, FirstSlot DEF RunnerFits
<1>3. RowsTrue'
  <2> SUFFICES ASSUME NEW d \in Calm' PROVE RowIsSound(d)'
    BY DEF RowsTrue
  <2>1. RowIsSound(d) /\ \A s \in Targets(d) : runner'[1][d][s] = NoRun
    BY <1>1, FirstSlot DEF DeploymentSound, RowsTrue
  <2> QED BY <1>1, <2>1 DEF RowIsSound, Executing
<1>4. ItemsAreSound' /\ ServerIsSound'
  BY <1>1, FirstSlot DEF ItemsAreSound, ServerIsSound, Wide, Executing
<1> QED BY <1>2, <1>3, <1>4 DEF DeploymentSound

\* A deployment that a crash left is either of one device, and its row says where
\* that one is, or none of its targets is past PRECHECK.
LEMMA InterruptedRows ==
  ASSUME DeploymentTyped, DeploymentSound, NEW d \in Calm, NEW s \in Targets(d),
         Interrupted(d), ~Wide(d)
  PROVE  /\ row[d].state # "none"
         /\ row[d].step # "none" => row[d].state # "COMPLETED"
         /\ \/ target[d][s] \in Step /\ row[d].step \in {"none", target[d][s]}
            \/ target[d][s] = "QUEUED" /\ row[d].step \in {"none", "PRECHECK"}
<1>0. d \in Deployment
  BY DEF Calm
<1>1. RowIsSound(d)
  BY DEF DeploymentSound, RowsTrue
<1>2. row[d].state # "none"
  <2> SUFFICES ASSUME row[d].state = "none" PROVE FALSE
    OBVIOUS
  <2>1. \A u \in Targets(d) : target[d][u] = "QUEUED"
    BY <1>1 DEF RowIsSound
  <2> QED BY <2>1, FiveSteps DEF Interrupted, Targets
<1>3. PICK v \in Targets(d) : target[d][v] = row[d].state
  BY <1>1, <1>2 DEF RowIsSound
<1>4. row[d].step # "none" => row[d].state # "COMPLETED"
  BY <1>1 DEF RowIsSound
<1>5. PICK u \in Targets(d) : target[d][u] \in Step
  BY <1>3 DEF Interrupted, Targets
<1>6. CASE \A x \in Targets(d) : target[d][x] \in {"QUEUED", "PRECHECK"}
  <2>1. row[d].state \in {"QUEUED", "PRECHECK"}
    BY <1>3, <1>6
  <2>2. row[d].step \in {"none", "PRECHECK"}
    BY <1>1, <2>1, FiveSteps DEF RowIsSound
  <2> QED BY <1>2, <1>4, <1>6, <2>2, FiveSteps
<1>7. CASE ~ (Len(TargetsOf[d]) > 1)
  <2>1. TargetsOf[d] \in Seq(Device) /\ Len(TargetsOf[d]) \in 1..4
    BY <1>0, DeploymentsAssumption
  <2>2. DOMAIN TargetsOf[d] = 1..Len(TargetsOf[d])
    BY <2>1, LenProperties
  <2>3. Len(TargetsOf[d]) = 1
    <3>1. \A n \in 1..4 : ~(n > 1) => n = 1
      OBVIOUS
    <3> QED BY <1>7, <2>1, <3>1, Zenon
  <2>4. \A i \in DOMAIN TargetsOf[d] : i = 1
    BY <2>2, <2>3
  <2>5. Targets(d) = {TargetsOf[d][1]}
    BY <1>0, <2>4, DevicesOfTargets DEF Targets, ToSet
  <2>6. s = u /\ s = v
    BY <2>5
  <2>7. row[d].step = row[d].state
    BY <1>1, <1>3, <1>5, <2>6 DEF RowIsSound
  <2> QED BY <1>2, <1>3, <1>4, <1>5, <2>6, <2>7
<1>8. \/ ~ (Len(TargetsOf[d]) > 1)
      \/ \A x \in Targets(d) : target[d][x] \in {"QUEUED", "PRECHECK"}
  BY <1>5 DEF Wide, Targets
<1> QED BY <1>6, <1>7, <1>8

LEMMA RestartIsSound ==
  ASSUME DeploymentTyped, DeploymentSound, Restart
  PROVE  DeploymentSound'
<1>1. /\ server = "down" /\ server' = "up" /\ UNCHANGED <<row, target, steps, runner, done, disturbed>>
      /\ \A w \in work' : \E d \in Deployment : \E s \in Targets(d) :
           Interrupted(d) /\ w = [op |-> "RECOVER", d |-> d, s |-> s, row |-> row[d]]
  BY DEF Restart, Targets, database
<1>2. TargetsAreSound' /\ RowsTrue'
  BY <1>1, NothingMoves DEF DeploymentSound
<1>3. \A d \in Calm : d \in Deployment /\ ~Wide(d) /\ \A s \in Targets(d) : ~Executing(1, d, s)
  BY <1>1, FirstSlot DEF DeploymentSound, ServerIsSound, Calm
<1>4. ASSUME NEW w \in work'
      PROVE  /\ w.op = "RECOVER"
             /\ w.d \in Calm => row[w.d].state # "none" /\ RecoverIsSound(w)'
             /\ w = [op |-> "RECOVER", d |-> w.d, s |-> w.s, row |-> row[w.d]]
  <2>0. PICK d \in Deployment : \E s \in Targets(d) :
          Interrupted(d) /\ w = [op |-> "RECOVER", d |-> d, s |-> s, row |-> row[d]]
    BY <1>1
  <2>1. PICK s \in Targets(d) :
          Interrupted(d) /\ w = [op |-> "RECOVER", d |-> d, s |-> s, row |-> row[d]]
    BY <2>0
  <2>2. d \in Calm =>
        /\ row[d].state # "none"
        /\ row[d].step # "none" => row[d].state # "COMPLETED"
        /\ \/ target[d][s] \in Step /\ row[d].step \in {"none", target[d][s]}
           \/ target[d][s] = "QUEUED" /\ row[d].step \in {"none", "PRECHECK"}
    BY <1>3, <2>1, InterruptedRows
  <2>3. w.d = d /\ w.s = s /\ w.row = row[d] /\ w.op = "RECOVER"
    BY <2>1
  <2>4. d \in Calm => RecoverIsSound(w)'
    BY <1>1, <1>3, <2>2, <2>3 DEF RecoverIsSound, Executing
  <2> QED BY <2>1, <2>2, <2>3, <2>4
<1>5. ItemsAreSound'
  <2>1. \A v, w \in work' : v.d = w.d /\ v.s = w.s => v = w
    <3> SUFFICES ASSUME NEW v \in work', NEW w \in work', v.d = w.d, v.s = w.s PROVE v = w
      OBVIOUS
    <3>1. /\ v = [op |-> "RECOVER", d |-> v.d, s |-> v.s, row |-> row[v.d]]
          /\ w = [op |-> "RECOVER", d |-> w.d, s |-> w.s, row |-> row[w.d]]
      BY <1>4
    <3> QED BY <3>1, Zenon
  <2>2. \A w \in work' : w.op = "RECOVER" /\ (w.d \in Calm => row'[w.d].state # "none" /\ RecoverIsSound(w)')
    BY <1>1, <1>4
  <2>3. Calm' = Calm
    BY <1>1 DEF Calm
  <2> QED BY <2>1, <2>2, <2>3 DEF ItemsAreSound
<1>6. ServerIsSound'
  BY <1>1 DEF DeploymentSound, ServerIsSound, NobodyInside, Inside, Executing
<1> QED BY <1>2, <1>5, <1>6 DEF DeploymentSound

\* What is said of deployments does not change with what is not.
LEMMA StaysSound ==
  ASSUME DeploymentInv, UNCHANGED <<server, work, row, target, steps, runner, done, disturbed>>
  PROVE  StepsTell' /\ (server' # "refused" => DeploymentSound')
<1>1. StepsTell'
  BY NothingMoves DEF DeploymentInv
<1>2. ASSUME server' # "refused" PROVE DeploymentSound'
  <2>1. DeploymentSound
    BY <1>2 DEF DeploymentInv
  <2>2. TargetsAreSound' /\ RowsTrue'
    BY <2>1, NothingMoves DEF DeploymentSound
  <2>3. ItemsAreSound'
    BY <2>1 DEF DeploymentSound, ItemsAreSound, RecoverIsSound, Executing, Calm
  <2>4. ServerIsSound'
    BY <2>1 DEF DeploymentSound, ServerIsSound, NobodyInside, Wide, Inside, Executing, Calm
  <2> QED BY <2>2, <2>3, <2>4 DEF DeploymentSound
<1> QED BY <1>1, <1>2

LEMMA SoundTellsNext ==
  ASSUME DeploymentSound'
  PROVE  StepsTell'
BY DEF DeploymentSound, TargetsAreSound, StepsTell, TargetIsSound, TargetTells, RowsTell

LEMMA DisturbedGrows ==
  ASSUME DeploymentTyped, [Next]_vars
  PROVE  disturbed \subseteq disturbed' /\ disturbed' \subseteq disturbed \cup Deployment
<1>1. ASSUME NEW d \in Deployment, Load(d)
      PROVE  disturbed \subseteq disturbed' /\ disturbed' \subseteq disturbed \cup Deployment
  BY <1>1 DEF Load
<1>2. CASE \E d \in Deployment : Start(d)
  BY <1>1, <1>2 DEF Start
<1>3. CASE RunAfterRetry
  <2>1. \E w \in work : Load(w.d)
    BY <1>3 DEF RunAfterRetry
  <2> QED BY <1>1, <2>1 DEF DeploymentTyped
<1>4. CASE Crash
  BY <1>4 DEF Crash
<1>5. CASE disturbed' = disturbed
  BY <1>5
<1>6. \/ \E d \in Deployment : Start(d)
      \/ RunAfterRetry \/ Crash \/ disturbed' = disturbed
  <2>1. RecoverFromRow => disturbed' = disturbed
    BY RecoverFromRowIs DEF RecoversFromRow
  <2>2. DispatchRetry \/ DispatchCancel \/ RecoverTarget => disturbed' = disturbed
    BY DEF DispatchRetry, DispatchCancel, RecoverTarget
  <2>3. ASSUME NEW k, NEW d, NEW s,
               \/ Precheck(k, d, s) \/ PrepareNothing(k, d, s) \/ Wipe(k, d, s) \/ Resume(k, d, s)
               \/ DeviceAnswers(k, d, s)
        PROVE  disturbed' = disturbed
    BY <2>3 DEF Precheck, PrepareNothing, Wipe, Resume, DeviceAnswers, Wiped, Performed
  <2>4. ASSUME NEW d, NEW n, IssueConfirmation(d) \/ Create(d) \/ Retry(d) \/ Cancel(d)
                             \/ CreateDestructive(d, n) \/ ConfirmationExpires(n) \/ TypeUid(n) \/ Restart
        PROVE  disturbed' = disturbed
    BY <2>4 DEF IssueConfirmation, Create, CreateDestructive, Insert, Retry, Cancel,
                ConfirmationExpires, TypeUid, Restart
  <2>5. Tick => RunAfterRetry \/ disturbed' = disturbed
    BY <2>1, <2>2, <2>3 DEF Tick
  <2> QED BY <2>3, <2>4, <2>5 DEF Next, vars
<1> QED BY <1>2, <1>3, <1>4, <1>5, <1>6

LEMMA DeploymentInvStep ==
  ASSUME DeploymentInv, [Next]_vars
  PROVE  DeploymentInv'
<1>1. DeploymentTyped /\ DeploymentTyped'
  BY DeploymentTypedStep DEF DeploymentInv
<1>2. disturbed' \subseteq Deployment
  BY <1>1, DisturbedGrows DEF DeploymentInv
<1>3. SUFFICES StepsTell' /\ (server' # "refused" => DeploymentSound')
  BY <1>1, <1>2 DEF DeploymentInv
<1>4. DeploymentSound' => StepsTell'
  BY SoundTellsNext
<1>5. server # "refused" => DeploymentSound
  BY DEF DeploymentInv
<1>6. CASE UNCHANGED vars
  BY <1>6, StaysSound DEF vars, database
<1>7. CASE Tick
  <2>1. CASE DispatchRetry \/ RunAfterRetry \/ DispatchCancel \/ RecoverTarget
    <3>1. server = "up"
      BY <2>1 DEF DispatchRetry, RunAfterRetry, DispatchCancel, RecoverTarget, Requested
    <3> QED BY <1>1, <1>4, <1>5, <2>1, <3>1, RetryIsSound, RunAfterRetryIsSound, CancelIsSound,
               RecoverTargetIsSound
  <2>2. CASE RecoverFromRow
    <3>1. server = "up"
      BY <2>2 DEF RecoverFromRow, Requested
    <3> QED BY <1>1, <1>4, <1>5, <2>2, <3>1, RecoverFromRowIsSound
  <2>3. CASE \E k \in Slot : \E d \in Deployment : \E s \in Targets(d) :
               Precheck(k, d, s) \/ PrepareNothing(k, d, s) \/ Wipe(k, d, s) \/ Resume(k, d, s)
    <3>1. server = "up"
      BY <2>3 DEF Precheck, PrepareNothing, Wipe, Resume, Turn
    <3> QED BY <1>1, <1>4, <1>5, <2>3, <3>1, RunsAreSound
  <2> QED BY <1>7, <2>1, <2>2, <2>3 DEF Tick, Targets
<1>8. CASE \E k \in Slot : \E d \in Deployment : \E s \in Targets(d) : DeviceAnswers(k, d, s)
  <2>1. server = "up"
    BY <1>8 DEF DeviceAnswers, Wiped, Performed, DeviceAnswered, Quiet
  <2> QED BY <1>1, <1>4, <1>5, <1>8, <2>1, RunsAreSound DEF DeviceAnswers
<1>9. ASSUME NEW d \in Deployment, Start(d) \/ Retry(d) \/ Cancel(d)
      PROVE  StepsTell' /\ (server' # "refused" => DeploymentSound')
  <2>1. server = "up"
    BY <1>9 DEF Start, Retry, Cancel, MayRun, Quiet
  <2> QED BY <1>1, <1>4, <1>5, <1>9, <2>1, RequestingIsSound
<1>10. ASSUME NEW d \in Deployment, Insert(d)
       PROVE  StepsTell' /\ (server' # "refused" => DeploymentSound')
  <2>1. server = "up"
    BY <1>10 DEF Insert, Quiet
  <2> QED BY <1>1, <1>4, <1>5, <1>10, <2>1, InsertingIsSound
<1>11. CASE \/ \E d \in Deployment : IssueConfirmation(d)
            \/ \E n \in 1..MaxNonces : ConfirmationExpires(n)
            \/ \E s \in Device : TypeUid(s)
  <2>1. UNCHANGED <<server, work, row, target, steps, runner, done, disturbed>>
    BY <1>11 DEF IssueConfirmation, ConfirmationExpires, TypeUid
  <2> QED BY <2>1, StaysSound
<1>12. CASE Crash
  <2>1. server = "up"
    BY <1>12 DEF Crash
  <2> QED BY <1>1, <1>4, <1>5, <1>12, <2>1, CrashIsSound
<1>13. CASE Restart
  <2>1. server = "down"
    BY <1>13 DEF Restart
  <2> QED BY <1>1, <1>4, <1>5, <1>13, <2>1, RestartIsSound
<1> QED
  BY <1>6, <1>7, <1>8, <1>9, <1>10, <1>11, <1>12, <1>13 DEF Next, Create, CreateDestructive, Targets

(* However runs overlap: the machine of a run that has no await behind it  *)
(* stands where its target does, only one of a target does at a time, and  *)
(* a machine at LAUNCH advances after its device launched the package.     *)
MachineLaunches(k, d, s) ==
  /\ runner[k][d][s].step = "LAUNCH" => runner[k][d][s].state \in {"LAUNCH", "QUEUED"}
  /\ Inside(k, d, s) => target[d][s] = runner[k][d][s].state

LaunchIsSound(d, s) ==
  /\ target[d][s] = "COMPLETED" => "LAUNCH" \in done[d][s]
  /\ target[d][s] \in Step => OpenAt(steps[d][s], target[d][s])
  /\ \A k \in Slot : MachineLaunches(k, d, s)
  /\ \A j, k \in Slot : Inside(j, d, s) /\ Inside(k, d, s) => j = k

RowEnded(r) == r.state = "COMPLETED" => r.step = "none"

LaunchesAreSound == \A d \in Deployment : \A s \in Targets(d) : LaunchIsSound(d, s)
RowsEnded == \A d \in Deployment : RowEnded(row[d])

LaunchInv ==
  /\ CompletedWasLaunched /\ RowsEnded
  /\ \A w \in work : w.op = "RECOVER" => RowEnded(w.row)
  /\ server # "refused" => LaunchesAreSound

LEMMA LaunchInvInit == Init => LaunchInv
<1> SUFFICES ASSUME Init PROVE LaunchInv
  OBVIOUS
<1>1. ASSUME NEW d \in Deployment, NEW s \in Targets(d)
      PROVE  LaunchIsSound(d, s)
  <2>1. target[d][s] = "QUEUED" /\ \A k \in Slot : runner[k][d][s] = NoRun
    BY <1>1 DEF Init, Targets
  <2> QED BY <2>1, FiveSteps DEF LaunchIsSound, MachineLaunches, Inside, Executing, NoRun
<1>2. LaunchesAreSound /\ RowsEnded /\ work = {}
  BY <1>1 DEF LaunchesAreSound, Init, RowsEnded, RowEnded
<1> QED BY <1>2 DEF LaunchInv, LaunchesAreSound, CompletedWasLaunched, LaunchIsSound, Targets

\* Once every target has its launch, the deployments have.
LEMMA LaunchesHold ==
  ASSUME \A d \in Deployment : \A s \in Targets(d) : LaunchIsSound(d, s)'
  PROVE  CompletedWasLaunched'
BY DEF LaunchIsSound, CompletedWasLaunched, Targets

LEMMA LaunchStays ==
  ASSUME NEW e \in Deployment, NEW u \in Targets(e), LaunchIsSound(e, u),
         target'[e][u] = target[e][u], steps'[e][u] = steps[e][u], done'[e][u] = done[e][u],
         \A k \in Slot : runner'[k][e][u] = runner[k][e][u]
  PROVE  LaunchIsSound(e, u)'
BY DEF LaunchIsSound, MachineLaunches, Inside, Executing, OpenAt, Open

\* What a write of a target leaves behind.
LEMMA WritesAreOpen ==
  ASSUME DeploymentTyped, \A e \in Deployment : RowEnded(row[e]),
         NEW d \in Deployment, NEW s \in Targets(d), NEW state \in TargetState,
         NEW step \in Step \cup {"none"}, NEW attempt \in 1..2,
         state \in Step => step = state, state = "COMPLETED" => step = "none",
         Persist(d, s, state, step, attempt)
  PROVE  /\ \A e \in Deployment : RowEnded(row'[e])
         /\ target'[d][s] = state
         /\ state \in Step => OpenAt(steps'[d][s], state)
         /\ \A e \in Deployment : \A u \in Targets(e) : e # d \/ u # s =>
              target'[e][u] = target[e][u] /\ steps'[e][u] = steps[e][u]
<1> DEFINE rows == steps[d][s]
           new == Recorded(rows, state, step, attempt)
<1>1. /\ row'[d].state = state /\ row'[d].step = step
      /\ \A e \in Deployment : e # d => row'[e] = row[e]
      /\ IsSet(target, target', d, s, state) /\ IsSet(steps, steps', d, s, new)
  BY PersistIs
<1>2. rows \in Seq(StepRow)
  BY DEF DeploymentTyped, Tabled
<1>3. ASSUME state \in Step PROVE OpenAt(new, state)
  <2> DEFINE closed == ClosedOthers(rows, state)
             others == {i \in DOMAIN rows : rows[i].step # state}
  <2>1. new = Added(closed, state, attempt)
    <3> HIDE DEF rows
    <3> QED BY <1>2, <1>3, RecordedEnters, EnteredIs
  <2>2. IsClosed(closed, rows, others, "SUCCEEDED")
    <3> HIDE DEF rows
    <3> QED BY <1>2, ClosingIs DEF ClosedOthers, AttemptState
  <2>3. OpenAt(closed, state)
    <3> HIDE DEF rows, closed
    <3> QED BY <2>2 DEF IsClosed, OpenAt, Open
  <2> HIDE DEF closed, new
  <2>4. IsAdded(new, closed, state, attempt)
    BY <1>3, <2>1, <2>2, AddedIs DEF IsClosed
  <2> QED BY <2>3, <2>4 DEF IsAdded, OpenAt, Open
<1> QED BY <1>1, <1>3 DEF IsSet, RowEnded

\* A step of a machine that no other of its target is inside with.
LEMMA LaunchAdvances ==
  ASSUME DeploymentTyped, \A e \in Deployment : RowEnded(row[e]),
         NEW k \in Slot, NEW d \in Deployment, NEW s \in Targets(d), LaunchIsSound(d, s),
         \A j \in Slot : j # k => ~Inside(j, d, s),
         Advance(k, d, s), runner[k][d][s].state = "LAUNCH" => "LAUNCH" \in done'[d][s],
         runner[k][d][s].state = "QUEUED" \/ runner[k][d][s].state \in Step
  PROVE  /\ LaunchIsSound(d, s)' /\ \A e \in Deployment : RowEnded(row'[e])
         /\ \A e \in Deployment : \A u \in Targets(e) : e # d \/ u # s =>
              /\ target'[e][u] = target[e][u] /\ steps'[e][u] = steps[e][u]
              /\ \A j \in Slot : runner'[j][e][u] = runner[j][e][u]
<1> DEFINE m == runner[k][d][s]
           next == Advanced(m)
<1>1. m \in Machine
  BY MachinesOfTargets
<1>2. Persist(d, s, next.state, next.step, 1) /\ MachineSet(k, d, s, MachineOf(next))
  BY AdvanceIs
<1>3. /\ next.state \in TargetState /\ next.step \in Step \cup {"none"}
      /\ m.state = "QUEUED" \/ m.step = "none" => next.state = "PRECHECK" /\ next.step = "PRECHECK"
      /\ m.state # "QUEUED" /\ m.step = "LAUNCH" => next.state = "COMPLETED" /\ next.step = "none"
      /\ m.state # "QUEUED" /\ m.step \in Step \ {"LAUNCH"} =>
           next.state \in Step /\ next.step = next.state
  <2> HIDE DEF m
  <2> QED BY <1>1, AdvancedIs
<1>4. m.step \in Step \cup {"none"}
  BY <1>1 DEF Machine
<1>5. m.step = "LAUNCH" => m.state \in {"LAUNCH", "QUEUED"}
  BY DEF LaunchIsSound, MachineLaunches
<1> HIDE DEF m, next
<1>6. /\ next.state \in Step => next.step = next.state
      /\ next.state = "COMPLETED" => next.step = "none" /\ "LAUNCH" \in done'[d][s]
      /\ next.state \in Step \cup {"COMPLETED"}
  <2>1. CASE m.state = "QUEUED" \/ m.step = "none"
    BY <1>3, <2>1, FiveSteps
  <2>2. CASE m.state # "QUEUED" /\ m.step = "LAUNCH"
    BY <1>3, <1>5, <2>2, FiveSteps DEF m
  <2>3. CASE m.state # "QUEUED" /\ m.step \in Step \ {"LAUNCH"}
    BY <1>3, <2>3, FiveSteps
  <2> QED BY <1>4, <2>1, <2>2, <2>3
<1>7. /\ \A e \in Deployment : RowEnded(row'[e])
      /\ target'[d][s] = next.state
      /\ next.state \in Step => OpenAt(steps'[d][s], next.state)
      /\ \A e \in Deployment : \A u \in Targets(e) : e # d \/ u # s =>
           target'[e][u] = target[e][u] /\ steps'[e][u] = steps[e][u]
  BY <1>2, <1>3, <1>6, WritesAreOpen
<1>8. /\ runner'[k][d][s] = MachineOf(next)
      /\ \A j \in Slot : \A e \in Deployment : \A u \in Targets(e) :
           j # k \/ e # d \/ u # s => runner'[j][e][u] = runner[j][e][u]
  BY <1>2 DEF MachineSet, IsSet
<1>9. \A j \in Slot : j # k => MachineLaunches(j, d, s)' /\ ~Inside(j, d, s)'
  BY <1>8 DEF LaunchIsSound, MachineLaunches, Inside, Executing
<1>10. MachineLaunches(k, d, s)'
  <2>1. CASE next.state = "COMPLETED"
    BY <1>8, <2>1 DEF MachineOf, NoRun, MachineLaunches, Inside, Executing
  <2>2. CASE next.state \in Step
    <3>1. runner'[k][d][s].state = next.state /\ runner'[k][d][s].step = next.state
      BY <1>6, <1>8, <2>2, FiveSteps DEF MachineOf
    <3> QED BY <1>7, <3>1 DEF MachineLaunches
  <2> QED BY <1>6, <2>1, <2>2
<1>11. LaunchIsSound(d, s)'
  BY <1>6, <1>7, <1>9, <1>10 DEF LaunchIsSound, OpenAt, Open
<1> QED BY <1>7, <1>8, <1>11

LEMMA LaunchFails ==
  ASSUME DeploymentTyped, \A e \in Deployment : RowEnded(row[e]),
         NEW k \in Slot, NEW d \in Deployment, NEW s \in Targets(d), LaunchIsSound(d, s),
         \A j \in Slot : j # k => ~Inside(j, d, s), Fail(k, d, s), done'[d][s] = done[d][s]
  PROVE  /\ LaunchIsSound(d, s)' /\ \A e \in Deployment : RowEnded(row'[e])
         /\ \A e \in Deployment : \A u \in Targets(e) : e # d \/ u # s =>
              /\ target'[e][u] = target[e][u] /\ steps'[e][u] = steps[e][u]
              /\ \A j \in Slot : runner'[j][e][u] = runner[j][e][u]
<1> DEFINE step == runner[k][d][s].step
<1>1. /\ \/ step = "none" /\ UNCHANGED <<row, target, steps>>
         \/ step \in Step /\ Persist(d, s, "FAILED", step, 1)
      /\ MachineSet(k, d, s, NoRun)
  BY FailIs
<1> HIDE DEF step
<1>2. /\ \A e \in Deployment : RowEnded(row'[e])
      /\ \/ target'[d][s] = target[d][s] /\ steps'[d][s] = steps[d][s]
         \/ target'[d][s] = "FAILED"
      /\ \A e \in Deployment : \A u \in Targets(e) : e # d \/ u # s =>
           target'[e][u] = target[e][u] /\ steps'[e][u] = steps[e][u]
  <2>1. CASE UNCHANGED <<row, target, steps>>
    BY <2>1
  <2>2. CASE step \in Step /\ Persist(d, s, "FAILED", step, 1)
    <3>1. "FAILED" \in TargetState /\ "FAILED" \notin Step
      BY FiveSteps DEF TargetState, Settled
    <3> QED BY <2>2, <3>1, WritesAreOpen
  <2> QED BY <1>1, <2>1, <2>2
<1>3. /\ runner'[k][d][s] = NoRun
      /\ \A j \in Slot : \A e \in Deployment : \A u \in Targets(e) :
           j # k \/ e # d \/ u # s => runner'[j][e][u] = runner[j][e][u]
  BY <1>1 DEF MachineSet, IsSet
<1>4. \A j \in Slot : MachineLaunches(j, d, s)' /\ ~Inside(j, d, s)'
  BY <1>3 DEF LaunchIsSound, MachineLaunches, Inside, Executing, NoRun
<1>5. LaunchIsSound(d, s)'
  BY <1>2, <1>4, FiveSteps DEF LaunchIsSound, OpenAt, Open
<1> QED BY <1>2, <1>3, <1>5

LEMMA RunsLaunch ==
  ASSUME DeploymentTyped, RowsEnded, LaunchesAreSound,
         NEW k \in Slot, NEW d \in Deployment, NEW s \in Targets(d),
         \/ Precheck(k, d, s) \/ PrepareNothing(k, d, s) \/ Wipe(k, d, s) \/ Resume(k, d, s)
         \/ Wiped(k, d, s) \/ Performed(k, d, s)
  PROVE  LaunchesAreSound' /\ RowsEnded'
<1> DEFINE m == runner[k][d][s]
           Launched ==
             /\ LaunchIsSound(d, s)' /\ \A e \in Deployment : RowEnded(row'[e])
             /\ \A e \in Deployment : \A u \in Targets(e) : e # d \/ u # s =>
                  /\ target'[e][u] = target[e][u] /\ steps'[e][u] = steps[e][u]
                  /\ \A j \in Slot : runner'[j][e][u] = runner[j][e][u]
<1>1. LaunchIsSound(d, s) /\ (\A e \in Deployment : RowEnded(row[e])) /\ m \in Machine
      /\ DOMAIN done = Deployment /\ DOMAIN done[d] = Targets(d)
  BY MachinesOfTargets DEF LaunchesAreSound, RowsEnded, DeploymentTyped, Tabled
<1>2. \A j \in Slot : j # k => ~Inside(j, d, s)
  <2>1. CASE Inside(k, d, s)
    BY <1>1, <2>1 DEF LaunchIsSound
  <2>2. CASE Quiet
    BY <2>2 DEF Quiet, Targets
  <2> QED BY <2>1, <2>2 DEF Precheck, PrepareNothing, Wipe, Resume, Wiped, Performed, Turn, DeviceAnswered
<1>3. \A e \in Deployment : \A u \in Targets(e) : e # d \/ u # s => done'[e][u] = done[e][u]
  BY DEF Precheck, PrepareNothing, Wipe, Resume, Wiped, Performed, DeploymentTyped, Tabled
<1>4. SUFFICES Launched
  <2>1. ASSUME NEW e \in Deployment, NEW u \in Targets(e), e # d \/ u # s
        PROVE  LaunchIsSound(e, u)'
    BY <1>3, <1>4, <2>1, LaunchStays DEF LaunchesAreSound
  <2> QED BY <1>4, <2>1 DEF LaunchesAreSound, RowsEnded
<1>5. ASSUME Advance(k, d, s), m.state = "LAUNCH" => "LAUNCH" \in done'[d][s],
             m.state = "QUEUED" \/ m.state \in Step
      PROVE  Launched
  BY <1>1, <1>2, <1>5, LaunchAdvances
<1>6. ASSUME Fail(k, d, s), done'[d][s] = done[d][s]
      PROVE  Launched
  BY <1>1, <1>2, <1>6, LaunchFails
<1>7. ASSUME Wipe(k, d, s) \/ Resume(k, d, s)
      PROVE  Launched
  <2>1. PICK id \in Nat : MachineSet(k, d, s, Waits(k, d, s, id))
    BY <1>7, WaitingIs
  <2>2. /\ runner'[k][d][s] = Waits(k, d, s, id)
        /\ \A j \in Slot : \A e \in Deployment : \A u \in Targets(e) :
             j # k \/ e # d \/ u # s => runner'[j][e][u] = runner[j][e][u]
    BY <2>1 DEF MachineSet, IsSet
  <2>3. UNCHANGED <<row, target, steps>> /\ Inside(k, d, s)
        /\ m.state \in {"PREPARE", "INSTALL", "VERIFY", "LAUNCH"}
    BY <1>7 DEF Wipe, Resume, Turn, database, AwaitsDevice
  <2>4. target'[d][s] # "COMPLETED"
    BY <1>1, <2>3 DEF LaunchIsSound, MachineLaunches
  <2>5. runner'[k][d][s].waiting /\ runner'[k][d][s].state = m.state /\ runner'[k][d][s].step = m.step
    BY <1>1, <2>2 DEF Waits, Machine
  <2>6. \A j \in Slot : MachineLaunches(j, d, s)' /\ ~Inside(j, d, s)'
    BY <1>1, <1>2, <2>2, <2>5 DEF LaunchIsSound, MachineLaunches, Inside, Executing
  <2>7. LaunchIsSound(d, s)'
    BY <1>1, <2>3, <2>4, <2>6 DEF LaunchIsSound
  <2> QED BY <1>1, <2>2, <2>3, <2>7
<1> HIDE DEF Launched
<1>8. CASE Precheck(k, d, s)
  <2>1. CASE Advance(k, d, s)
    BY <1>5, <1>8, <2>1, FiveSteps DEF Precheck
  <2>2. CASE Fail(k, d, s)
    <3>1. runner'[k][d][s] = NoRun
      BY <2>2, FailIs DEF MachineSet, IsSet
    <3>2. done'[d][s] = done[d][s]
      BY <1>1, <1>8, <3>1 DEF Precheck, NoRun
    <3> QED BY <1>6, <2>2, <3>2
  <2> QED BY <1>8, <2>1, <2>2 DEF Precheck
<1>9. CASE PrepareNothing(k, d, s)
  BY <1>5, <1>9, FiveSteps DEF PrepareNothing
<1>10. CASE Wiped(k, d, s)
  <2>1. m.state = "PREPARE" /\ (Advance(k, d, s) \/ (Fail(k, d, s) /\ done' = done))
    BY <1>10 DEF Wiped
  <2> QED BY <1>5, <1>6, <2>1, FiveSteps
<1>11. CASE Performed(k, d, s)
  <2>1. /\ m.state \in {"INSTALL", "VERIFY", "LAUNCH"}
        /\ \/ Advance(k, d, s) /\ done' = [done EXCEPT ![d][s] = @ \cup {m.state}]
           \/ Fail(k, d, s) /\ done' = done
    BY <1>11 DEF Performed, AwaitsDevice
  <2>2. m.state \in Step
    BY <2>1, FiveSteps
  <2>3. done' = [done EXCEPT ![d][s] = @ \cup {m.state}] => m.state \in done'[d][s]
    BY <1>1
  <2> QED BY <1>5, <1>6, <2>1, <2>2, <2>3
<1> QED BY <1>7, <1>8, <1>9, <1>10, <1>11

\* Nobody is inside while the items of a request are taken.
LEMMA ItemsLaunch ==
  ASSUME DeploymentTyped, DeploymentSound, RowsEnded, LaunchesAreSound,
         DispatchRetry \/ DispatchCancel \/ RecoverTarget
  PROVE  LaunchesAreSound' /\ RowsEnded'
<1>1. PICK w \in work :
        LET d == w.d  s == w.s
        IN  /\ UNCHANGED <<runner, done>>
            /\ \/ UNCHANGED <<row, target, steps>>
               \/ LastIn(steps[d][s], "FAILED") # "none"
                  /\ Persist(d, s, LastIn(steps[d][s], "FAILED"), LastIn(steps[d][s], "FAILED"), 2)
               \/ Persist(d, s, "CANCELLED", LastIn(steps[d][s], "RUNNING"), 1)
               \/ Persist(d, s, "FAILED", LastIn(steps[d][s], "RUNNING"), 1)
  BY DEF DispatchRetry, DispatchCancel, RecoverTarget, Loaded
<1> DEFINE d == w.d
           s == w.s
           rows == steps[d][s]
<1>2. d \in Deployment /\ s \in Targets(d)
  BY DEF DeploymentTyped
<1>3. rows \in Seq(StepRow)
  BY <1>2 DEF DeploymentTyped, Tabled
<1>4. LastIn(rows, "FAILED") \in Step \cup {"none"} /\ LastIn(rows, "RUNNING") \in Step \cup {"none"}
  <2> HIDE DEF rows
  <2> QED BY <1>3, LastInIs
<1>5. \A e \in Deployment : RowEnded(row[e])
  BY DEF RowsEnded
<1>6. \A k \in Slot : ~Inside(k, d, s) /\ ~Inside(k, d, s)'
  <2>1. \A k \in Slot : ~Inside(k, d, s)
    BY <1>2 DEF DeploymentSound, ServerIsSound, NobodyInside
  <2> QED BY <1>1, <2>1 DEF Inside, Executing
<1>7. CASE UNCHANGED <<row, target, steps>>
  BY <1>1, <1>7, LaunchStays DEF LaunchesAreSound, RowsEnded
<1>8. ASSUME NEW state \in TargetState \ {"COMPLETED"}, NEW step \in Step \cup {"none"},
             NEW attempt \in 1..2, state \in Step => step = state, Persist(d, s, state, step, attempt)
      PROVE  LaunchesAreSound' /\ RowsEnded'
  <2> HIDE DEF d, s
  <2>1. /\ \A e \in Deployment : RowEnded(row'[e])
        /\ target'[d][s] = state
        /\ state \in Step => OpenAt(steps'[d][s], state)
        /\ \A e \in Deployment : \A u \in Targets(e) : e # d \/ u # s =>
             target'[e][u] = target[e][u] /\ steps'[e][u] = steps[e][u]
    BY <1>2, <1>5, <1>8, WritesAreOpen
  <2>2. \A k \in Slot : MachineLaunches(k, d, s)'
    BY <1>1, <1>2, <1>6 DEF LaunchesAreSound, LaunchIsSound, MachineLaunches
  <2>3. LaunchIsSound(d, s)'
    BY <1>6, <2>1, <2>2 DEF LaunchIsSound, OpenAt, Open
  <2>4. ASSUME NEW e \in Deployment, NEW u \in Targets(e), e # d \/ u # s
        PROVE  LaunchIsSound(e, u)'
    BY <1>1, <2>1, <2>4, LaunchStays DEF LaunchesAreSound
  <2> QED BY <2>1, <2>3, <2>4 DEF LaunchesAreSound, RowsEnded
<1>9. /\ {"CANCELLED", "FAILED"} \subseteq TargetState \ {"COMPLETED"} /\ 1 \in 1..2 /\ 2 \in 1..2
      /\ "CANCELLED" \notin Step /\ "FAILED" \notin Step
      /\ \A step \in Step : step \in TargetState \ {"COMPLETED"}
  BY FiveSteps DEF TargetState, Settled, Ended
<1>10. CASE LastIn(rows, "FAILED") # "none"
            /\ Persist(d, s, LastIn(rows, "FAILED"), LastIn(rows, "FAILED"), 2)
  <2> HIDE DEF d, s, rows
  <2> QED BY <1>4, <1>8, <1>9, <1>10
<1>11. CASE \/ Persist(d, s, "CANCELLED", LastIn(rows, "RUNNING"), 1)
            \/ Persist(d, s, "FAILED", LastIn(rows, "RUNNING"), 1)
  <2> HIDE DEF d, s, rows
  <2> QED BY <1>4, <1>8, <1>9, <1>11
<1> QED BY <1>1, <1>7, <1>10, <1>11

LEMMA RecoveringLaunches ==
  ASSUME DeploymentTyped, DeploymentSound, RowsEnded, LaunchesAreSound, CompletedWasLaunched,
         \A w \in work : w.op = "RECOVER" => RowEnded(w.row), RecoverFromRow
  PROVE  CompletedWasLaunched' /\ RowsEnded' /\ (server' # "refused" => LaunchesAreSound')
<1>1. PICK w \in work : RecoversFromRow(w)
  BY RecoverFromRowIs
<1> DEFINE d == w.d
           s == w.s
<1>2. /\ d \in Deployment /\ s \in Targets(d) /\ UNCHANGED <<runner, done>>
      /\ w.row.state # "COMPLETED" /\ w.row.state \in TargetState \cup {"none"}
  BY <1>1 DEF DeploymentTyped, RecoversFromRow, RowEnded, DeploymentRow
<1>3. \/ /\ target' = [target EXCEPT ![d][s] = "FAILED"]
         /\ \E step : row' = [row EXCEPT ![d] = [state |-> "FAILED", step |-> step]]
         /\ \E new : steps' = [steps EXCEPT ![d][s] = new]
      \/ server' = "refused" /\ row' = row /\ target' = [target EXCEPT ![d][s] = w.row.state]
  <2> HIDE DEF d, s
  <2> QED BY <1>1 DEF RecoversFromRow, d, s
<1> HIDE DEF d, s
<1>4. RowsEnded'
  <2>1. DOMAIN row = Deployment
    BY DEF DeploymentTyped
  <2>2. CASE row' = row
    BY <2>2 DEF RowsEnded
  <2>3. ASSUME NEW step, row' = [row EXCEPT ![d] = [state |-> "FAILED", step |-> step]]
        PROVE  RowsEnded'
    BY <1>2, <2>1, <2>3 DEF RowsEnded, RowEnded
  <2> QED BY <1>3, <2>2, <2>3
<1>5. CASE server' = "refused" /\ row' = row /\ target' = [target EXCEPT ![d][s] = w.row.state]
  <2>1. \A e \in Deployment : \A u \in Targets(e) :
          target'[e][u] = "COMPLETED" => target[e][u] = "COMPLETED"
    BY <1>2, <1>5 DEF DeploymentTyped, Tabled
  <2> QED BY <1>2, <1>4, <1>5, <2>1 DEF CompletedWasLaunched, Targets
<1>6. CASE /\ target' = [target EXCEPT ![d][s] = "FAILED"]
           /\ \E new : steps' = [steps EXCEPT ![d][s] = new]
  <2>1. /\ target'[d][s] = "FAILED"
        /\ \A e \in Deployment : \A u \in Targets(e) : e # d \/ u # s =>
             target'[e][u] = target[e][u] /\ steps'[e][u] = steps[e][u]
    BY <1>2, <1>6 DEF DeploymentTyped, Tabled
  <2>2. \A k \in Slot : ~Inside(k, d, s) /\ ~Inside(k, d, s)'
    <3>1. \A k \in Slot : ~Inside(k, d, s)
      BY <1>2 DEF DeploymentSound, ServerIsSound, NobodyInside
    <3> QED BY <1>2, <3>1 DEF Inside, Executing
  <2>3. \A k \in Slot : MachineLaunches(k, d, s)'
    BY <1>2, <2>2 DEF LaunchesAreSound, LaunchIsSound, MachineLaunches
  <2>4. LaunchIsSound(d, s)'
    BY <2>1, <2>2, <2>3, FiveSteps DEF LaunchIsSound
  <2>5. ASSUME NEW e \in Deployment, NEW u \in Targets(e), e # d \/ u # s
        PROVE  LaunchIsSound(e, u)'
    BY <1>2, <2>1, <2>5, LaunchStays DEF LaunchesAreSound
  <2>6. LaunchesAreSound'
    BY <2>4, <2>5 DEF LaunchesAreSound
  <2> QED BY <1>4, <2>6, LaunchesHold DEF LaunchesAreSound
<1> QED BY <1>3, <1>5, <1>6

\* A run that begins reads its machines, while nobody is inside.
LEMMA LoadLaunches ==
  ASSUME DeploymentTyped, RowsEnded, LaunchesAreSound, NobodyInside,
         NEW d \in Deployment, Load(d), UNCHANGED <<row, target, steps, done>>
  PROVE  LaunchesAreSound' /\ RowsEnded'
<1>1. PICK k \in Slot :
        /\ \A j \in Slot : j # k => runner'[j] = runner[j]
        /\ \A e \in Deployment : e # d => runner'[k][e] = runner[k][e]
        /\ \A s \in Targets(d) : runner'[k][d][s] =
             IF target[d][s] \in Settled THEN NoRun ELSE Loaded(d, s)
  BY LoadIs
<1>2. ASSUME NEW s \in Targets(d) PROVE LaunchIsSound(d, s)'
  <2> DEFINE rows == steps[d][s]
             t == target[d][s]
             last == LastIn(rows, "RUNNING")
  <2>1. LaunchIsSound(d, s) /\ rows \in Seq(StepRow) /\ t \in TargetState
    BY DEF LaunchesAreSound, DeploymentTyped, Tabled
  <2>2. \A j \in Slot : ~Inside(j, d, s)
    BY DEF NobodyInside
  <2>3. \A j \in Slot : j # k => MachineLaunches(j, d, s)' /\ ~Inside(j, d, s)'
    BY <1>1, <2>1, <2>2 DEF LaunchIsSound, MachineLaunches, Inside, Executing
  <2>4. MachineLaunches(k, d, s)'
    <3>1. CASE t \in Settled
      BY <1>1, <3>1 DEF MachineLaunches, Inside, Executing, NoRun
    <3>2. CASE t \notin Settled
      <4>0. runner'[k][d][s] = [state |-> t, step |-> last, waiting |-> FALSE, wipe |-> 0]
        BY <1>1, <3>2 DEF Loaded
      <4>1. runner'[k][d][s].state = t /\ runner'[k][d][s].step = last
        BY <4>0
      <4>2. t \in Step \cup {"QUEUED"}
        BY <2>1, <3>2 DEF TargetState
      <4>3. t \in Step => last \in {"none", t}
        <5> SUFFICES ASSUME t \in Step PROVE last \in {"none", t}
          OBVIOUS
        <5>1. OpenAt(rows, t)
          BY <2>1 DEF LaunchIsSound
        <5> HIDE DEF t, rows
        <5>2. last = "none" \/ \E i \in DOMAIN rows : rows[i].state = "RUNNING" /\ rows[i].step = last
          BY <2>1, LastInIs
        <5> QED BY <5>1, <5>2 DEF OpenAt, Open
      <4> HIDE DEF last
      <4> QED BY <4>1, <4>2, <4>3 DEF MachineLaunches
    <3> QED BY <3>1, <3>2
  <2> QED BY <2>1, <2>3, <2>4 DEF LaunchIsSound, OpenAt, Open
<1>3. ASSUME NEW e \in Deployment, NEW u \in Targets(e), e # d PROVE LaunchIsSound(e, u)'
  <2>1. \A j \in Slot : runner'[j][e][u] = runner[j][e][u]
    BY <1>1, <1>3
  <2> QED BY <2>1, LaunchStays DEF LaunchesAreSound
<1> QED BY <1>2, <1>3 DEF LaunchesAreSound, RowsEnded, RowEnded

\* An item of a restart carries the row it read.
LEMMA ItemsRecover ==
  ASSUME [Next]_vars
  PROVE  \A w \in work' : w.op = "RECOVER" => w \in work \/ \E d \in Deployment : w.row = row[d]
<1>1. CASE work' \subseteq work
  BY <1>1
<1>2. CASE \E d \in Deployment : Retry(d) \/ Cancel(d)
  BY <1>2 DEF Retry, Cancel, Items
<1>3. CASE Restart
  BY <1>3 DEF Restart
<1>4. \/ work' \subseteq work
      \/ \E d \in Deployment : Retry(d) \/ Cancel(d)
      \/ Restart
  <2>1. RecoverFromRow => work' \subseteq work
    BY RecoverFromRowIs DEF RecoversFromRow
  <2>2. DispatchRetry \/ DispatchCancel \/ RecoverTarget \/ RunAfterRetry => work' \subseteq work
    BY DEF DispatchRetry, DispatchCancel, RecoverTarget, RunAfterRetry
  <2>3. ASSUME NEW k, NEW d, NEW s,
               \/ Precheck(k, d, s) \/ PrepareNothing(k, d, s) \/ Wipe(k, d, s) \/ Resume(k, d, s)
               \/ DeviceAnswers(k, d, s)
        PROVE  work' \subseteq work
    BY <2>3 DEF Precheck, PrepareNothing, Wipe, Resume, DeviceAnswers, Wiped, Performed
  <2>4. ASSUME NEW d, NEW n, IssueConfirmation(d) \/ Create(d) \/ Start(d)
                             \/ CreateDestructive(d, n) \/ ConfirmationExpires(n) \/ TypeUid(n) \/ Crash
        PROVE  work' \subseteq work
    BY <2>4 DEF IssueConfirmation, Create, CreateDestructive, Insert, Start,
                ConfirmationExpires, TypeUid, Crash
  <2>5. Tick => work' \subseteq work
    BY <2>1, <2>2, <2>3 DEF Tick
  <2> QED BY <2>3, <2>4, <2>5 DEF Next, vars
<1> QED BY <1>1, <1>2, <1>3, <1>4

\* A crash leaves no machines.
LEMMA CrashLaunches ==
  ASSUME Crash, LaunchesAreSound
  PROVE  LaunchesAreSound'
<1>1. \A k \in Slot : \A d \in Deployment : \A s \in Targets(d) : runner'[k][d][s] = NoRun
  BY DEF Crash, Targets
<1>2. UNCHANGED <<target, steps, done>>
  BY DEF Crash, database
<1>3. ASSUME NEW d \in Deployment, NEW s \in Targets(d) PROVE LaunchIsSound(d, s)'
  BY <1>1, <1>2 DEF LaunchesAreSound, LaunchIsSound, MachineLaunches, Inside, Executing, NoRun,
                    OpenAt, Open
<1> QED BY <1>3 DEF LaunchesAreSound

LEMMA LaunchInvStep ==
  ASSUME DeploymentInv, LaunchInv, [Next]_vars
  PROVE  LaunchInv'
<1>1. DeploymentTyped /\ RowsEnded
  BY DEF DeploymentInv, LaunchInv
<1>2. server = "up" => DeploymentSound /\ LaunchesAreSound
  BY DEF DeploymentInv, LaunchInv
<1>3. \A w \in work' : w.op = "RECOVER" => RowEnded(w.row)
  BY <1>1, ItemsRecover DEF LaunchInv, RowsEnded
<1>4. LaunchesAreSound' => CompletedWasLaunched'
  BY LaunchesHold DEF LaunchesAreSound
<1> DEFINE Sound == CompletedWasLaunched' /\ RowsEnded' /\ (server' # "refused" => LaunchesAreSound')
<1>5. SUFFICES Sound
  BY <1>3, <1>5 DEF LaunchInv
<1>6. ASSUME LaunchesAreSound' /\ RowsEnded'
      PROVE  Sound
  BY <1>4, <1>6
<1>7. ASSUME UNCHANGED <<row, target, steps, runner, done>>, server' # "refused" => server # "refused"
      PROVE  Sound
  <2>1. server' # "refused" => LaunchesAreSound
    BY <1>7 DEF LaunchInv
  <2>2. LaunchesAreSound => LaunchesAreSound'
    BY <1>7, LaunchStays DEF LaunchesAreSound
  <2>3. RowsEnded' /\ CompletedWasLaunched'
    BY <1>1, <1>7 DEF RowsEnded, CompletedWasLaunched, LaunchInv
  <2> QED BY <2>1, <2>2, <2>3
<1> HIDE DEF Sound
<1>8. ASSUME NEW k \in Slot, NEW d \in Deployment, NEW s \in Targets(d),
             \/ Precheck(k, d, s) \/ PrepareNothing(k, d, s) \/ Wipe(k, d, s) \/ Resume(k, d, s)
             \/ Wiped(k, d, s) \/ Performed(k, d, s)
      PROVE  Sound
  <2>1. server = "up"
    BY <1>8 DEF Precheck, PrepareNothing, Wipe, Resume, Turn, Wiped, Performed, DeviceAnswered, Quiet
  <2> QED BY <1>1, <1>2, <1>6, <1>8, <2>1, RunsLaunch
<1>9. CASE DispatchRetry \/ DispatchCancel \/ RecoverTarget
  <2>1. server = "up"
    BY <1>9 DEF DispatchRetry, DispatchCancel, RecoverTarget, Requested
  <2> QED BY <1>1, <1>2, <1>6, <1>9, <2>1, ItemsLaunch
<1>10. CASE RecoverFromRow
  <2>1. server = "up"
    BY <1>10 DEF RecoverFromRow, Requested
  <2>2. CompletedWasLaunched /\ \A w \in work : w.op = "RECOVER" => RowEnded(w.row)
    BY DEF LaunchInv
  <2> QED BY <1>1, <1>2, <1>10, <2>1, <2>2, RecoveringLaunches DEF Sound
<1>11. CASE RunAfterRetry
  <2>1. PICK w \in work : Load(w.d) /\ server = "up" /\ UNCHANGED <<row, target, steps, done>>
    BY <1>11 DEF RunAfterRetry, Requested, database
  <2>2. w.d \in Deployment /\ NobodyInside
    BY <1>1, <1>2, <2>1 DEF DeploymentTyped, DeploymentSound, ServerIsSound
  <2> QED BY <1>1, <1>2, <1>6, <2>1, <2>2, LoadLaunches
<1>12. ASSUME NEW d \in Deployment, Start(d)
       PROVE  Sound
  <2>1. Quiet /\ Load(d) /\ UNCHANGED <<row, target, steps, done>>
    BY <1>12 DEF Start, MayRun, database
  <2>2. server = "up" /\ NobodyInside
    BY <2>1 DEF Quiet, NobodyInside, Targets
  <2> QED BY <1>1, <1>2, <1>6, <2>1, <2>2, LoadLaunches
<1>13. ASSUME NEW d \in Deployment, Insert(d)
       PROVE  Sound
  <2>1. /\ server = "up" /\ UNCHANGED <<target, steps, runner, done>>
        /\ row' = [row EXCEPT ![d].state = "QUEUED"]
    BY <1>13 DEF Insert, Quiet
  <2>2. LaunchesAreSound'
    BY <1>2, <2>1, LaunchStays DEF LaunchesAreSound
  <2>3. RowsEnded'
    BY <1>1, <2>1 DEF RowsEnded, RowEnded, DeploymentTyped, DeploymentRow
  <2> QED BY <1>6, <2>2, <2>3
<1>14. CASE Crash
  <2>1. server = "up" /\ row' = row
    BY <1>14 DEF Crash, database
  <2>2. LaunchesAreSound'
    BY <1>2, <1>14, <2>1, CrashLaunches
  <2>3. RowsEnded'
    BY <1>1, <2>1 DEF RowsEnded
  <2> QED BY <1>6, <2>2, <2>3
<1>15. CASE Restart
  BY <1>7, <1>15 DEF Restart, database
<1>16. ASSUME NEW d, NEW n, IssueConfirmation(d) \/ Retry(d) \/ Cancel(d) \/ ConfirmationExpires(n) \/ TypeUid(n)
       PROVE  Sound
  BY <1>7, <1>16 DEF IssueConfirmation, Retry, Cancel, ConfirmationExpires, TypeUid, database
<1>17. CASE UNCHANGED vars
  BY <1>7, <1>17 DEF vars, database
<1>18. CASE Tick
  BY <1>8, <1>9, <1>10, <1>11, <1>18 DEF Tick, Targets
<1>19. CASE \E k \in Slot : \E d \in Deployment : \E s \in Targets(d) : DeviceAnswers(k, d, s)
  BY <1>8, <1>19 DEF DeviceAnswers
<1> QED
  BY <1>12, <1>13, <1>14, <1>15, <1>16, <1>17, <1>18, <1>19
  DEF Next, Create, CreateDestructive, Targets

(* What is recorded as done the devices carried out, over any number of    *)
(* retries, cancellations, wipes, crashes and restarts, of each deployment *)
(* whose runs came one after the other and which no wide crash met; and no *)
(* target of any deployment reads COMPLETED that was not launched, however *)
(* runs overlap and whenever the server crashes                            *)
(* (deployment-orchestrator.ts:248-371, deployment-repository.ts:71-131).  *)
THEOREM StepsHold == Spec => []StepsAreTrue
<1>1. Init => DeploymentInv /\ LaunchInv
  BY DeploymentInvInit, LaunchInvInit
<1>2. DeploymentInv /\ LaunchInv => StepsAreTrue
  BY DeploymentIsTrue DEF LaunchInv
<1>3. DeploymentInv /\ LaunchInv /\ [Next]_vars => (DeploymentInv /\ LaunchInv)'
  BY DeploymentInvStep, LaunchInvStep
<1> QED BY <1>1, <1>2, <1>3, PTL DEF Spec
-----------------------------------------------------------------------------
(* Registering an installed package.  Installs are numbered as they come,  *)
(* and a request reads the directory first, the version then, the files    *)
(* last: if those are the files of the directory, and not other bytes that *)
(* came in their place, no install was between, and the version is of the  *)
(* same one.                                                               *)
RegRecord == [step : IdentitySteps, path : Nat, details : Nat, stream : Nat,
              answer : {"none", "CREATED", "DEDUPLICATED", "FAILED"}]

ReadInOrder(r) ==
  /\ reg[r].step \in {"details", "signer", "activity", "stream", "store"} =>
       reg[r].path \in 1..installs
  /\ reg[r].step \in {"signer", "activity", "stream", "store"} =>
       reg[r].path <= reg[r].details /\ reg[r].details <= installs
  /\ reg[r].step = "store" => reg[r].stream \in {Absent, reg[r].details}

IdentityInv ==
  /\ installs \in 0..MaxInstalls /\ installed \in {Absent, installs}
  /\ reg \in [Registration -> RegRecord]
  /\ \A r \in Registration : ReadInOrder(r)
  /\ NeverTwoBuilds

LEMMA IdentityInvInit ==
  ASSUME IdentityInit, MaxInstalls \in Nat
  PROVE  IdentityInv
<1>1. NewRegistration \in RegRecord
  BY DEF NewRegistration, RegRecord, IdentitySteps, Absent
<1>2. reg \in [Registration -> RegRecord]
  BY <1>1 DEF IdentityInit
<1>3. \A r \in Registration : ReadInOrder(r)
  BY DEF IdentityInit, ReadInOrder, NewRegistration
<1> QED BY <1>2, <1>3 DEF IdentityInit, IdentityInv, NeverTwoBuilds

\* What one request does leaves the others' order alone, and so does the device.
LEMMA OthersReadInOrder ==
  ASSUME IdentityInv, NEW r \in Registration, installs' = installs,
         \E record : reg' = [reg EXCEPT ![r] = record],
         reg'[r] \in RegRecord, ReadInOrder(r)',
         registered' = registered, installed' = installed
  PROVE  IdentityInv'
<1>1. reg' \in [Registration -> RegRecord]
  BY DEF IdentityInv
<1>2. \A s \in Registration \ {r} : reg'[s] = reg[s]
  BY DEF IdentityInv
<1>3. \A s \in Registration : ReadInOrder(s)'
  BY <1>2 DEF IdentityInv, ReadInOrder
<1> QED BY <1>1, <1>3 DEF IdentityInv, NeverTwoBuilds

LEMMA IdentityInvStep ==
  ASSUME IdentityInv, MaxInstalls \in Nat, IdentityNext
  PROVE  IdentityInv'
<1> USE DEF Absent
<1>1. CASE DeviceInstalls
  <2>1. installs' = installs + 1 /\ installs' \in 0..MaxInstalls /\ installed' = installs'
        /\ installs \in Nat /\ reg' = reg /\ registered' = registered
    BY <1>1 DEF DeviceInstalls, IdentityInv
  <2>2. ASSUME NEW r \in Registration
        PROVE  ReadInOrder(r)'
    <3>1. ReadInOrder(r) /\ reg[r] \in RegRecord
      BY DEF IdentityInv
    <3>2. \A n \in Nat : n <= installs => n <= installs + 1
      BY <2>1
    <3> QED BY <2>1, <3>1, <3>2 DEF ReadInOrder, RegRecord
  <2> QED BY <2>1, <2>2 DEF IdentityInv, NeverTwoBuilds
<1>2. CASE DeviceRemoves
  BY <1>2 DEF DeviceRemoves, IdentityInv, ReadInOrder, NeverTwoBuilds
<1>3. ASSUME NEW r \in Registration, \/ PackagePaths(r) \/ PackageDetails(r) \/ HostSigner(r)
                                     \/ ResolveActivity(r) \/ StreamFiles(r)
      PROVE  IdentityInv'
  <2> DEFINE old == reg[r]
  <2>1. /\ old \in RegRecord /\ ReadInOrder(r) /\ installs \in Nat
        /\ installed \in {Absent, installs}
        /\ installs' = installs /\ registered' = registered /\ installed' = installed
    BY <1>3 DEF IdentityInv, PackagePaths, PackageDetails, HostSigner, ResolveActivity, StreamFiles
  <2>2. CASE Fails(r)
    <3>1. reg' = [reg EXCEPT ![r] = [old EXCEPT !.answer = "FAILED", !.step = "done"]]
      BY <2>2 DEF Fails
    <3>2. reg'[r] = [old EXCEPT !.answer = "FAILED", !.step = "done"]
      BY <3>1 DEF IdentityInv
    <3>3. reg'[r] \in RegRecord /\ reg'[r].step = "done"
      BY <2>1, <3>2 DEF RegRecord, IdentitySteps
    <3> QED BY <2>1, <3>1, <3>3, OthersReadInOrder DEF ReadInOrder
  <2>3. CASE PackagePaths(r) /\ ~ Fails(r)
    <3>1. installed # Absent /\ reg' = [reg EXCEPT ![r] = [NewRegistration EXCEPT
                     !.path = installed, !.step = "details"]]
      BY <2>3 DEF PackagePaths
    <3>2. reg'[r] = [NewRegistration EXCEPT !.path = installed, !.step = "details"]
      BY <3>1 DEF IdentityInv
    <3>3. installed = installs /\ installs # 0
      BY <2>1, <3>1
    <3>4. reg'[r] = [step |-> "details", path |-> installs, details |-> Absent,
                     stream |-> Absent, answer |-> "none"]
      BY <3>2, <3>3 DEF NewRegistration
    <3>5. reg'[r] \in RegRecord
      BY <2>1, <3>4 DEF RegRecord, IdentitySteps
    <3>6. ReadInOrder(r)'
      BY <2>1, <3>3, <3>4 DEF ReadInOrder
    <3> QED BY <2>1, <3>1, <3>5, <3>6, OthersReadInOrder
  <2>4. CASE PackageDetails(r) /\ ~ Fails(r)
    <3>1. PICK next \in {"signer", "activity"} :
            reg' = [reg EXCEPT ![r] = [old EXCEPT !.details = installed, !.step = next]]
      BY <2>4 DEF PackageDetails
    <3>2. reg'[r] = [old EXCEPT !.details = installed, !.step = next]
      BY <3>1 DEF IdentityInv
    <3>3. installed = installs /\ old.step = "details"
      BY <2>1, <2>4 DEF PackageDetails
    <3>4. reg'[r] \in RegRecord /\ reg'[r].step = next /\ reg'[r].details = installs
          /\ reg'[r].path = old.path
      BY <2>1, <3>2, <3>3 DEF RegRecord, IdentitySteps
    <3>5. old.path \in 1..installs
      BY <2>1, <3>3 DEF ReadInOrder
    <3>6. ReadInOrder(r)'
      BY <2>1, <3>4, <3>5 DEF ReadInOrder
    <3> QED BY <2>1, <3>1, <3>4, <3>6, OthersReadInOrder
  <2>5. CASE (HostSigner(r) \/ ResolveActivity(r)) /\ ~ Fails(r)
    <3>1. PICK next \in {"activity", "stream"} :
            /\ reg' = [reg EXCEPT ![r] = [old EXCEPT !.step = next]]
            /\ old.step \in {"signer", "activity"}
      BY <2>5 DEF HostSigner, ResolveActivity
    <3>2. reg'[r] = [old EXCEPT !.step = next]
      BY <3>1 DEF IdentityInv
    <3>3. reg'[r] \in RegRecord /\ reg'[r].step = next
          /\ reg'[r].path = old.path /\ reg'[r].details = old.details
      BY <2>1, <3>2 DEF RegRecord, IdentitySteps
    <3>4. ReadInOrder(r)'
      BY <2>1, <3>1, <3>3 DEF ReadInOrder
    <3> QED BY <2>1, <3>1, <3>3, <3>4, OthersReadInOrder
  <2>6. CASE StreamFiles(r) /\ ~ Fails(r)
    <3>1. PICK bytes \in {Absent, installed} :
            /\ reg' = [reg EXCEPT ![r] = [old EXCEPT !.stream = bytes, !.step = "store"]]
            /\ old.step = "stream" /\ (bytes # Absent => installed = old.path)
      BY <2>6 DEF StreamFiles, FileIsThere
    <3>2. reg'[r] = [old EXCEPT !.stream = bytes, !.step = "store"]
      BY <3>1 DEF IdentityInv
    <3>3. reg'[r] \in RegRecord /\ reg'[r].step = "store" /\ reg'[r].stream = bytes
          /\ reg'[r].path = old.path /\ reg'[r].details = old.details
      <4>1. bytes \in Nat
        BY <2>1, <3>1
      <4> QED BY <2>1, <3>2, <4>1 DEF RegRecord, IdentitySteps
    <3>4. old.path \in 1..installs /\ old.path <= old.details /\ old.details <= installs
      BY <2>1, <3>1 DEF ReadInOrder
    <3>5. bytes # Absent => bytes = old.details
      <4>1. old.details \in Nat
        BY <2>1 DEF RegRecord
      <4> QED BY <2>1, <3>1, <3>4, <4>1
    <3>6. ReadInOrder(r)'
      BY <2>1, <3>1, <3>3, <3>4, <3>5 DEF ReadInOrder
    <3> QED BY <2>1, <3>1, <3>3, <3>6, OthersReadInOrder
  <2> QED BY <1>3, <2>2, <2>3, <2>4, <2>5, <2>6
<1>4. ASSUME NEW r \in Registration, RegisterInstalled(r)
      PROVE  IdentityInv'
  <2> DEFINE old == reg[r]
  <2>1. old \in RegRecord /\ ReadInOrder(r) /\ old.step = "store"
    BY <1>4 DEF IdentityInv, RegisterInstalled
  <2>2. PICK answer \in {"DEDUPLICATED", "CREATED"} :
          reg' = [reg EXCEPT ![r] = [old EXCEPT !.answer = answer, !.step = "done"]]
    BY <1>4 DEF RegisterInstalled
  <2>3. reg'[r] = [old EXCEPT !.answer = answer, !.step = "done"]
    BY <2>2 DEF IdentityInv
  <2>4. reg'[r] \in RegRecord /\ reg'[r].step = "done"
    BY <2>1, <2>3 DEF RegRecord, IdentitySteps
  <2>5. \A s \in Registration \ {r} : reg'[s] = reg[s]
    BY <2>2 DEF IdentityInv
  <2>6. reg' \in [Registration -> RegRecord]
    BY <2>2, <2>4 DEF IdentityInv
  <2>7. \A s \in Registration : ReadInOrder(s)'
    BY <1>4, <2>4, <2>5 DEF IdentityInv, ReadInOrder, RegisterInstalled
  <2>8. Identity(r)[2] \in {Identity(r)[1], NoBuild}
    BY <2>1 DEF Identity, ReadInOrder, DigestOf
  <2>9. NeverTwoBuilds'
    BY <1>4, <2>8 DEF RegisterInstalled, NeverTwoBuilds, IdentityInv
  <2> QED BY <1>4, <2>6, <2>7, <2>9 DEF IdentityInv, RegisterInstalled
<1> QED BY <1>1, <1>2, <1>3, <1>4 DEF IdentityNext

LEMMA IdentityIsTrue ==
  ASSUME IdentityInv, MaxInstalls \in Nat
  PROVE  IdentityTypeOK /\ NeverTwoBuilds
<1>1. \A r \in Registration : reg[r] \in RegRecord
  BY DEF IdentityInv
<1>2. installed \in Install \cup {Absent}
  BY DEF IdentityInv, Install, Absent
<1> QED BY <1>1, <1>2 DEF IdentityInv, IdentityTypeOK, RegRecord
-----------------------------------------------------------------------------
(* One run of an external tool.  The time limit cannot fire once "close"   *)
(* has come, the killer only runs after it fired, and nothing is started   *)
(* by a tool that has ended.                                               *)
OutputIsTrue ==
  /\ output \in [written : 0..MaxChunks, kept : 0..OutputLimit, truncated : BOOLEAN]
  /\ ~output.truncated => output.kept = output.written

ProcessInv ==
  /\ tool \in {"none", "running", "ended"}
  /\ grandchild \in BOOLEAN /\ timedOutFlag \in BOOLEAN
  /\ clock \in {"off", "set", "fired", "cleared"}
  /\ killer \in {"none", "running", "ok", "failed"}
  /\ settled \in {"no", "spawnFailed", "closing", "resolved", "unkillable"}
  /\ clock = "fired" <=> timedOutFlag
  /\ timedOutFlag <=> killer # "none"
  /\ tool # "none" => clock \in {"set", "fired", "cleared"}
  /\ tool = "none" => settled \in {"no", "spawnFailed"} /\ clock \in {"off", "cleared"} /\ ~grandchild
  /\ settled \in {"closing", "resolved", "unkillable"} =>
       tool = "ended" /\ ~grandchild /\ clock # "set"
  /\ settled \in {"resolved", "unkillable"} => killer # "running"
  /\ settled = "resolved" => killer \in {"none", "ok"}
  /\ OutputIsTrue

LEMMA ProcessInvStep ==
  ASSUME ProcessInv, ProcessNext
  PROVE  ProcessInv'
<1> USE ToolProcessAssumption
<1>1. output' = output => OutputIsTrue'
  BY DEF ProcessInv, OutputIsTrue
<1>2. CASE ProcessSpawn
  BY <1>1, <1>2 DEF ProcessSpawn, ProcessInv
<1>3. CASE ProcessForks
  BY <1>1, <1>3 DEF ProcessForks, ProcessInv
<1>4. CASE ProcessWrites
  <2>1. OutputIsTrue /\ output \in [written : 0..MaxChunks, kept : 0..OutputLimit, truncated : BOOLEAN]
    BY DEF ProcessInv, OutputIsTrue
  <2>2. output.written + 1 \in 0..MaxChunks
    BY <1>4, <2>1 DEF ProcessWrites
  <2>3. output' = Capped(output)
    BY <1>4 DEF ProcessWrites
  <2>4. CASE output.kept >= OutputLimit
    <3>1. output' = [output EXCEPT !.written = @ + 1, !.truncated = TRUE]
      BY <2>3, <2>4 DEF Capped
    <3>2. output' = [written |-> output.written + 1, kept |-> output.kept, truncated |-> TRUE]
      BY <2>1, <3>1
    <3>3. output' \in [written : 0..MaxChunks, kept : 0..OutputLimit, truncated : BOOLEAN]
          /\ output'.truncated
      BY <2>1, <2>2, <3>2
    <3>4. OutputIsTrue'
      BY <3>3 DEF OutputIsTrue
    <3> QED BY <1>4, <3>4 DEF ProcessWrites, ProcessInv
  <2>5. CASE ~ (output.kept >= OutputLimit)
    <3>1. output' = [output EXCEPT !.written = @ + 1, !.kept = @ + 1]
      BY <2>3, <2>5 DEF Capped
    <3>2. output' = [written |-> output.written + 1, kept |-> output.kept + 1,
                     truncated |-> output.truncated]
      BY <2>1, <3>1
    <3>3. output.kept + 1 \in 0..OutputLimit
      BY <2>1, <2>5
    <3>4. output' \in [written : 0..MaxChunks, kept : 0..OutputLimit, truncated : BOOLEAN]
      BY <2>1, <2>2, <3>2, <3>3
    <3>5. ~output'.truncated => output'.kept = output'.written
      BY <2>1, <3>2 DEF OutputIsTrue
    <3>6. OutputIsTrue'
      BY <3>4, <3>5 DEF OutputIsTrue
    <3> QED BY <1>4, <3>6 DEF ProcessWrites, ProcessInv
  <2> QED BY <2>4, <2>5
<1>5. CASE ToolEnds
  BY <1>1, <1>5 DEF ToolEnds, ProcessInv
<1>6. CASE GrandchildEnds
  BY <1>1, <1>6 DEF GrandchildEnds, ProcessInv
<1>7. CASE ProcessTimeout
  BY <1>1, <1>7 DEF ProcessTimeout, ProcessInv
<1>8. CASE KillerEnds
  <2>1. /\ killer = "running" /\ timedOutFlag /\ clock = "fired" /\ tool # "none"
        /\ settled \in {"no", "spawnFailed", "closing"}
        /\ settled = "closing" => tool = "ended" /\ ~grandchild
    BY <1>8 DEF KillerEnds, ProcessInv
  <2>2. /\ UNCHANGED <<clock, settled, timedOutFlag>> /\ OutputIsTrue'
        /\ killer' \in {"ok", "failed"} /\ tool' = "ended"
        /\ grandchild' \in {FALSE, grandchild}
    BY <1>1, <1>8 DEF KillerEnds
  <2>3. settled = "closing" => ~grandchild'
    BY <2>1, <2>2
  <2>4. grandchild' \in BOOLEAN
    BY <2>2 DEF ProcessInv
  <2> QED BY <2>1, <2>2, <2>3, <2>4 DEF ProcessInv
<1>9. CASE ProcessCloses
  BY <1>1, <1>9 DEF ProcessCloses, ProcessInv
<1>10. CASE ProcessSettles
  BY <1>1, <1>10 DEF ProcessSettles, ProcessInv
<1> QED BY <1>2, <1>3, <1>4, <1>5, <1>7, <1>8, <1>9, <1>10, <1>6 DEF ProcessNext

LEMMA ProcessInvInit ==
  ASSUME ProcessInit
  PROVE  ProcessInv
<1>1. output \in [written : 0..MaxChunks, kept : 0..OutputLimit, truncated : BOOLEAN]
  BY ToolProcessAssumption DEF ProcessInit
<1> QED BY <1>1 DEF ProcessInit, ProcessInv, OutputIsTrue

LEMMA ProcessIsTrue ==
  ASSUME ProcessInv
  PROVE  ProcessTypeOK /\ ResultIsTheWholeRun
BY DEF ProcessInv, OutputIsTrue, ProcessTypeOK, ResultIsTheWholeRun, Alive
-----------------------------------------------------------------------------
(* The self-check.  The probes judge the machine right, each in its own    *)
(* terms; the worst of their severities is the exit code; and the files    *)
(* on the disk are those of the step the publication is at.                *)
AnyMachine ==
  [drive : [exists : BOOLEAN, free : Nat, writable : BOOLEAN],
   unity : [exists : BOOLEAN, does : Behaviour, modules : BOOLEAN],
   portFree : BOOLEAN,
   devices : SUBSET {"device", "UNAUTHORIZED", "OFFLINE", "NO_PERMISSIONS", "recovery"},
   broken : SUBSET Probe,
   tool : [Tool -> Deviation]]

Severity == {"HEALTHY", "DEGRADED", "FATAL"}

Judged == diagnostic = [p \in Probe |-> SeverityOf(p, ErrorsOf(p))]

FilesOfStep ==
  /\ report = "json" => files = {}
  /\ report = "html" => files = {"json.partial"}
  /\ report = "jsonDone" => files = {"json.partial", "html.partial"}
  /\ report = "done" => files = {"json", "html.partial"}
  /\ report = "published" => files = {"json", "html"}
  /\ report = "undo" => files \subseteq CleanedUp
  /\ report = "failed" => files = {}

SelfCheckInv ==
  /\ machine \in AnyMachine
  /\ report \in {"none", "json", "html", "jsonDone", "done", "undo", "published",
                 "failed", "failedDirty"}
  /\ report = "none" => files = {}
  /\ report # "none" => Judged
  /\ FilesOfStep
  /\ exitCode \in 0..3
  /\ exitCode # 1 => report \in {"published", "failed", "failedDirty"}
  /\ exitCode \in {0, 2} => report = "published"
  /\ exitCode = 0 => Overall = "HEALTHY"
  /\ exitCode = 2 => Overall = "DEGRADED"
  /\ exitCode = 3 /\ report = "published" => Overall = "FATAL"

LEMMA CommandOf ==
  ASSUME NEW b \in Behaviour
  PROVE  /\ Command(b).version = "same" <=> b = "expected"
         /\ b = "expected" => Command(b).exit = "zero" /\ ~Command(b).timedOut
         /\ Command(b).version = "differs" <=> b = "other"
         /\ Command(b).version \in {"same", "differs", "none"}
BY DEF Command, Behaviour

LEMMA PackageVersionOf ==
  ASSUME NEW b \in Behaviour
  PROVE  /\ PackageVersion(b).version = "same" <=> b = "expected"
         /\ b = "expected" => PackageVersion(b).exit = "zero" /\ ~PackageVersion(b).timedOut
         /\ PackageVersion(b).version \in {"same", "differs", "none"}
BY CommandOf DEF PackageVersion

\* A snapshot shows the version asked for exactly when the tool works and what
\* runs it was found.
LEMMA SnapshotOf ==
  ASSUME machine \in AnyMachine, NEW t \in Tool
  PROVE  /\ Snapshot(t).version = "same" => machine.tool[t].does = "expected"
         /\ Snapshot(t).version \in {"same", "differs", "none"}
         /\ machine.tool[t].does = "expected" /\ (t \in DOMAIN RunBy => Resolved(RunBy[t])) =>
              /\ Snapshot(t).version = "same" /\ Snapshot(t).exit = "zero"
              /\ ~Snapshot(t).timedOut
<1>1. machine.tool[t].does \in Behaviour
  BY DEF AnyMachine, Deviation
<1>2. t = "uiautomator2" => t \notin DOMAIN RunBy
  BY DEF RunBy
<1>3. CASE t = "uiautomator2"
  BY <1>1, <1>3, PackageVersionOf DEF Snapshot
<1>4. CASE t # "uiautomator2" /\ t \in DOMAIN RunBy /\ ~Resolved(RunBy[t])
  BY <1>4 DEF Snapshot
<1>5. CASE t # "uiautomator2" /\ ~ (t \in DOMAIN RunBy /\ ~Resolved(RunBy[t]))
  <2>1. Snapshot(t) = Command(machine.tool[t].does)
    BY <1>5 DEF Snapshot
  <2> QED BY <1>1, <2>1, CommandOf
<1> QED BY <1>3, <1>4, <1>5

LEMMA NoErrorMeansReady ==
  ASSUME machine \in AnyMachine, \A p \in Probe : ErrorsOf(p) = {}
  PROVE  MachineIsReady
<1>1. \A p \in Probe : p \notin machine.broken
  BY DEF ErrorsOf
<1>2. machine.broken = {}
  BY <1>1 DEF AnyMachine
<1>3. ASSUME NEW t \in Tool \ {"adb"}  PROVE  ToolWorks(t)
  <2>1. FirstError(t) = {}
    BY <1>1, <1>3 DEF ErrorsOf, Tool, Probe
  <2>2. Resolved(t) /\ Snapshot(t).version = "same"
    BY <2>1, <1>3, SnapshotOf DEF FirstError
  <2> QED BY <2>2, <1>3, SnapshotOf DEF ToolWorks, Resolved
<1>4. AdbErrors = {} /\ DriveErrors = {} /\ UnityErrors = {} /\ PortErrors = {}
  BY <1>1 DEF ErrorsOf, Probe, Tool
<1>5. Resolved("adb") /\ AdbVersionErrors(Snapshot("adb")) = {}
      /\ DeviceStateErrors(ListedStates) = {}
  BY <1>4 DEF AdbErrors
<1>6. Snapshot("adb").exit = "zero" /\ Snapshot("adb").version = "same"
  BY <1>5, SnapshotOf DEF AdbVersionErrors, Tool
<1>7. ToolWorks("adb")
  BY <1>5, <1>6, SnapshotOf DEF ToolWorks, Resolved, Tool
<1>8. machine.devices = {"device"}
  <2>1. ListedStates = machine.devices
    BY <1>6 DEF ListedStates
  <2>2. machine.devices # {} /\ "device" \in machine.devices
        /\ "UNAUTHORIZED" \notin machine.devices /\ "OFFLINE" \notin machine.devices
        /\ "NO_PERMISSIONS" \notin machine.devices /\ "recovery" \notin machine.devices
    BY <1>5, <2>1 DEF DeviceStateErrors
  <2> QED BY <2>2 DEF AnyMachine
<1>9. machine.drive.exists /\ machine.drive.free >= 20 /\ machine.drive.writable
  <2>1. machine.drive.free \in Nat
    BY DEF AnyMachine
  <2> QED BY <1>4, <2>1 DEF DriveErrors
<1>10. machine.unity.exists /\ machine.unity.modules /\ machine.unity.does = "expected"
  <2>1. machine.unity.does \in Behaviour
    BY DEF AnyMachine
  <2> QED BY <1>4, <2>1, CommandOf DEF UnityErrors
<1>11. machine.portFree
  BY <1>4 DEF PortErrors
<1> QED BY <1>2, <1>3, <1>7, <1>8, <1>9, <1>10, <1>11 DEF MachineIsReady

LEMMA ReadyMeansNoError ==
  ASSUME machine \in AnyMachine, MachineIsReady, NEW p \in Probe
  PROVE  ErrorsOf(p) = {}
<1>1. p \notin machine.broken
  BY DEF MachineIsReady
<1>2. \A t \in Tool : Resolved(t) /\ machine.tool[t].does = "expected"
  BY DEF MachineIsReady, ToolWorks, Resolved
<1>3. ASSUME NEW t \in Tool
      PROVE  Snapshot(t).version = "same" /\ Snapshot(t).exit = "zero" /\ ~Snapshot(t).timedOut
  <2>1. t \in DOMAIN RunBy => RunBy[t] \in Tool
    BY DEF RunBy, Tool
  <2> QED BY <1>2, <2>1, SnapshotOf
<1>4. CASE p \in Tool \ {"adb"}
  <2>1. FirstError(p) = {}
    BY <1>2, <1>3, <1>4 DEF FirstError
  <2> QED BY <1>1, <1>4, <2>1 DEF ErrorsOf, Tool
<1>5. CASE p = "adb"
  <2>1. AdbVersionErrors(Snapshot("adb")) = {} /\ ListedStates = {"device"}
    BY <1>3 DEF AdbVersionErrors, ListedStates, MachineIsReady, Tool
  <2>2. DeviceStateErrors({"device"}) = {}
    BY DEF DeviceStateErrors
  <2>3. AdbErrors = {}
    BY <1>2, <2>1, <2>2 DEF AdbErrors, Tool
  <2> QED BY <1>1, <1>5, <2>3 DEF ErrorsOf
<1>6. CASE p = "drive"
  <2>1. machine.drive.free \in Nat
    BY DEF AnyMachine
  <2>2. DriveErrors = {}
    BY <2>1 DEF DriveErrors, MachineIsReady
  <2> QED BY <1>1, <1>6, <2>2 DEF ErrorsOf
<1>7. CASE p = "unity"
  <2>1. "expected" \in Behaviour
    BY DEF Behaviour
  <2>2. UnityErrors = {}
    BY <2>1, CommandOf DEF UnityErrors, MachineIsReady
  <2> QED BY <1>1, <1>7, <2>2 DEF ErrorsOf
<1>8. CASE p = "ports"
  BY <1>1, <1>8 DEF ErrorsOf, PortErrors, MachineIsReady
<1> QED BY <1>4, <1>5, <1>6, <1>7, <1>8 DEF Probe

LEMMA SeverityTypes ==
  ASSUME NEW p, NEW errors
  PROVE  SeverityOf(p, errors) \in Severity
BY DEF SeverityOf, Severity

LEMMA OverallIsWorst ==
  ASSUME Judged
  PROVE  /\ \E p \in Probe : Overall = SeverityOf(p, ErrorsOf(p))
         /\ Overall = "HEALTHY" => \A p \in Probe : SeverityOf(p, ErrorsOf(p)) = "HEALTHY"
         /\ Overall = "DEGRADED" => \A p \in Probe : SeverityOf(p, ErrorsOf(p)) # "FATAL"
<1> DEFINE all == {diagnostic[p] : p \in Probe}
<1>1. all \subseteq Severity /\ all # {}
  BY SeverityTypes DEF Judged, Probe, Tool
<1>2. Rank["HEALTHY"] = 0 /\ Rank["DEGRADED"] = 1 /\ Rank["FATAL"] = 2
  BY DEF Rank
<1>3. \E s \in all : \A o \in all : Rank[o] <= Rank[s]
  <2> HIDE DEF all
  <2>1. \A o \in all : o \in {"HEALTHY", "DEGRADED", "FATAL"} /\ Rank[o] \in 0..2
    BY <1>1, <1>2 DEF Severity
  <2>2. CASE "FATAL" \in all
    BY <1>2, <2>1, <2>2
  <2>3. CASE "FATAL" \notin all /\ "DEGRADED" \in all
    <3>1. \A o \in all : Rank[o] <= 1
      BY <1>2, <2>1, <2>3
    <3> QED BY <1>2, <2>3, <3>1
  <2>4. CASE "FATAL" \notin all /\ "DEGRADED" \notin all
    <3>1. \A o \in all : Rank[o] = 0
      BY <1>2, <2>1, <2>4
    <3> QED BY <1>1, <3>1
  <2> QED BY <2>2, <2>3, <2>4
<1>4. Overall \in all /\ \A o \in all : Rank[o] <= Rank[Overall]
  <2>1. Overall = CHOOSE s \in all : \A o \in all : Rank[o] <= Rank[s]
    BY DEF Overall, Worst
  <2> HIDE DEF all
  <2> QED BY <1>3, <2>1
<1>5. \A p \in Probe : diagnostic[p] = SeverityOf(p, ErrorsOf(p))
  BY DEF Judged
<1>6. \A p \in Probe : diagnostic[p] \in all /\ diagnostic[p] \in Severity
  BY <1>1
<1>7. \E p \in Probe : Overall = diagnostic[p]
  BY <1>4
<1> HIDE DEF all
<1>8. Overall = "HEALTHY" => \A p \in Probe : diagnostic[p] = "HEALTHY"
  BY <1>2, <1>4, <1>6 DEF Severity
<1>9. Overall = "DEGRADED" => \A p \in Probe : diagnostic[p] # "FATAL"
  BY <1>2, <1>4, <1>6 DEF Severity
<1> QED BY <1>5, <1>7, <1>8, <1>9

LEMMA SelfCheckIsTrue ==
  ASSUME SelfCheckInv
  PROVE  ExitCodeTellsTheMachine /\ ReportIsAPair
<1>1. ReportIsAPair
  BY DEF SelfCheckInv, FilesOfStep, ReportIsAPair
<1>2. ASSUME exitCode = 0  PROVE  MachineIsReady
  <2>1. Overall = "HEALTHY" /\ Judged
    BY <1>2 DEF SelfCheckInv
  <2>2. \A p \in Probe : SeverityOf(p, ErrorsOf(p)) = "HEALTHY"
    BY <2>1, OverallIsWorst
  <2>3. \A p \in Probe : ErrorsOf(p) = {}
    BY <2>2 DEF SeverityOf
  <2> QED BY <2>3, NoErrorMeansReady DEF SelfCheckInv
<1>3. exitCode \in {0, 2} => {"json", "html"} \subseteq files
  BY DEF SelfCheckInv, FilesOfStep
<1>4. ASSUME exitCode = 2  PROVE  ToolWorks("node") /\ machine.drive.writable
  <2>1. Overall = "DEGRADED" /\ Judged /\ machine \in AnyMachine
    BY <1>4 DEF SelfCheckInv
  <2>2. \A p \in Probe : SeverityOf(p, ErrorsOf(p)) # "FATAL"
    BY <2>1, OverallIsWorst
  <2>3. ErrorsOf("node") = {} /\ "node" \notin machine.broken /\ "drive" \notin machine.broken
        /\ ErrorsOf("drive") \in {{}, {"FREE_SPACE_LOW"}}
    <3>1. {"node", "drive"} \subseteq Probe
      BY DEF Probe, Tool
    <3>2. "node" \notin machine.broken /\ "drive" \notin machine.broken
      BY <2>2, <3>1 DEF SeverityOf, ErrorsOf
    <3> QED BY <2>2, <3>1, <3>2 DEF SeverityOf
  <2>4. FirstError("node") = {} /\ DriveErrors \in {{}, {"FREE_SPACE_LOW"}}
    BY <2>3 DEF ErrorsOf
  <2>5. Resolved("node") /\ Snapshot("node").version = "same"
    BY <2>1, <2>4, SnapshotOf DEF FirstError, Tool
  <2>6. ToolWorks("node")
    BY <2>1, <2>5, SnapshotOf DEF ToolWorks, Resolved, Tool
  <2>7. machine.drive.writable
    BY <2>4 DEF DriveErrors
  <2> QED BY <2>6, <2>7
<1>5. ASSUME exitCode = 3, report = "published"  PROVE  ~MachineIsReady
  <2>1. Overall = "FATAL" /\ Judged /\ machine \in AnyMachine
    BY <1>5 DEF SelfCheckInv
  <2>2. PICK p \in Probe : SeverityOf(p, ErrorsOf(p)) = "FATAL"
    BY <2>1, OverallIsWorst
  <2>3. ErrorsOf(p) # {}
    BY <2>2 DEF SeverityOf
  <2> QED BY <2>1, <2>3, ReadyMeansNoError
<1> QED BY <1>1, <1>2, <1>3, <1>4, <1>5 DEF ExitCodeTellsTheMachine

\* The judgement is of the machine alone.
LEMMA JudgementStays ==
  ASSUME machine' = machine
  PROVE  /\ \A p : ErrorsOf(p)' = ErrorsOf(p)
         /\ \A p, errors : SeverityOf(p, errors)' = SeverityOf(p, errors)
<1>1. \A t : Resolved(t)' <=> Resolved(t)
  BY DEF Resolved, Eligible
<1>2. \A t : Missing(t)' = Missing(t)
  BY DEF Missing, SeenOnPath
<1>3. \A t : Snapshot(t)' = Snapshot(t)
  <2> TAKE t
  <2>1. Snapshot(t) = IF t = "uiautomator2" THEN PackageVersion(machine.tool[t].does)
                      ELSE IF t \in DOMAIN RunBy /\ ~Resolved(RunBy[t])
                      THEN [exit |-> "none", timedOut |-> FALSE, version |-> "none"]
                      ELSE Command(machine.tool[t].does)
    BY DEF Snapshot
  <2>2. Snapshot(t)' = IF t = "uiautomator2" THEN PackageVersion(machine.tool[t].does)
                      ELSE IF t \in DOMAIN RunBy /\ ~Resolved(RunBy[t])'
                      THEN [exit |-> "none", timedOut |-> FALSE, version |-> "none"]
                      ELSE Command(machine.tool[t].does)
    BY DEF Snapshot
  <2>3. Resolved(RunBy[t])' <=> Resolved(RunBy[t])
    BY DEF Resolved, Eligible
  <2> QED BY <2>1, <2>2, <2>3
<1>4. \A t : FirstError(t)' = FirstError(t)
  <2> TAKE t
  <2>1. /\ Resolved(t)' <=> Resolved(t)
        /\ Missing(t)' = Missing(t) /\ Snapshot(t)' = Snapshot(t)
    BY <1>1, <1>2, <1>3
  <2> QED BY <2>1 DEF FirstError
<1>5. AdbErrors' = AdbErrors
  <2>1. /\ Resolved("adb")' <=> Resolved("adb")
        /\ Missing("adb")' = Missing("adb") /\ Snapshot("adb")' = Snapshot("adb")
    BY <1>1, <1>2, <1>3
  <2>2. ListedStates' = ListedStates
    BY <2>1 DEF ListedStates
  <2> QED BY <2>1, <2>2 DEF AdbErrors
<1>6. DriveErrors' = DriveErrors /\ UnityErrors' = UnityErrors /\ PortErrors' = PortErrors
  BY DEF DriveErrors, UnityErrors, PortErrors
<1>7. ASSUME NEW p
      PROVE  ErrorsOf(p)' = ErrorsOf(p)
  BY <1>4, <1>5, <1>6 DEF ErrorsOf
<1> QED BY <1>7 DEF SeverityOf

LEMMA JudgedStays ==
  ASSUME machine' = machine
  PROVE  Judged' <=> diagnostic' = [p \in Probe |-> SeverityOf(p, ErrorsOf(p))]
<1>1. \A p \in Probe : SeverityOf(p, ErrorsOf(p))' = SeverityOf(p, ErrorsOf(p))
  <2> TAKE p \in Probe
  <2>1. ErrorsOf(p)' = ErrorsOf(p)
    BY JudgementStays
  <2>2. SeverityOf(p, ErrorsOf(p)') = SeverityOf(p, ErrorsOf(p))
    BY <2>1
  <2> QED BY <2>1 DEF SeverityOf
<1> QED BY <1>1 DEF Judged

LEMMA SelfCheckInvStep ==
  ASSUME SelfCheckInv, SelfCheckNext
  PROVE  SelfCheckInv'
<1>1. CASE RunDiagnostic
  <2>1. /\ report = "none" /\ report' = "json" /\ files' = {} /\ exitCode' = 1
        /\ machine' = machine /\ machine \in AnyMachine
    BY <1>1 DEF RunDiagnostic, SelfCheckInv
  <2>2. Judged'
    BY <1>1, <2>1, JudgedStays DEF RunDiagnostic
  <2>3. FilesOfStep'
    BY <2>1 DEF FilesOfStep
  <2> QED BY <2>1, <2>2, <2>3 DEF SelfCheckInv
<1>2. ASSUME UNCHANGED <<machine, diagnostic, exitCode>>
      PROVE  (Judged => Judged') /\ Overall' = Overall
  BY <1>2, JudgedStays DEF Judged, Overall
<1>3. CASE PublishStep
  <2>1. PICK k \in 1..4 :
          /\ report = PublishSteps[k]
          /\ \/ /\ files' = Written(report)
                /\ report' = IF k = 4 THEN "published" ELSE PublishSteps[k + 1]
             \/ report' = "undo" /\ UNCHANGED files
          /\ UNCHANGED <<machine, diagnostic, exitCode>>
    BY <1>3 DEF PublishStep
  <2>2. report \in {"json", "html", "jsonDone", "done"} /\ exitCode = 1
    BY <2>1 DEF SelfCheckInv, PublishSteps
  <2>3. /\ report' \in {"html", "jsonDone", "done", "published", "undo"}
        /\ FilesOfStep'
    <3>1. CASE report' = "undo" /\ UNCHANGED files
      BY <2>2, <3>1 DEF SelfCheckInv, FilesOfStep, CleanedUp
    <3>2. CASE /\ files' = Written(report)
               /\ report' = IF k = 4 THEN "published" ELSE PublishSteps[k + 1]
      <4>1. CASE k = 1
        BY <2>1, <3>2, <4>1 DEF SelfCheckInv, FilesOfStep, PublishSteps, Written
      <4>2. CASE k = 2
        BY <2>1, <3>2, <4>2 DEF SelfCheckInv, FilesOfStep, PublishSteps, Written
      <4>3. CASE k = 3
        BY <2>1, <3>2, <4>3 DEF SelfCheckInv, FilesOfStep, PublishSteps, Written
      <4>4. CASE k = 4
        BY <2>1, <3>2, <4>4 DEF SelfCheckInv, FilesOfStep, PublishSteps, Written
      <4> QED BY <4>1, <4>2, <4>3, <4>4
    <3> QED BY <2>1, <3>1, <3>2
  <2> QED BY <1>2, <2>1, <2>2, <2>3 DEF SelfCheckInv
<1>4. CASE PublishUndo
  <2>1. PICK stuck \in SUBSET (files \cap CleanedUp) :
          /\ files' = (files \ CleanedUp) \cup stuck
          /\ report' = IF stuck = {} THEN "failed" ELSE "failedDirty"
    BY <1>4 DEF PublishUndo
  <2>2. report = "undo" /\ UNCHANGED <<machine, diagnostic, exitCode>>
    BY <1>4 DEF PublishUndo
  <2>3. report' \in {"failed", "failedDirty"} /\ exitCode = 1 /\ exitCode' = 1
    BY <2>1, <2>2 DEF SelfCheckInv
  <2>4. FilesOfStep'
    BY <2>1, <2>2, <2>3 DEF SelfCheckInv, FilesOfStep
  <2> QED BY <1>2, <2>2, <2>3, <2>4 DEF SelfCheckInv
<1>5. CASE SelfCheckExit
  <2>1. /\ report \in {"published", "failed", "failedDirty"} /\ UNCHANGED <<machine, diagnostic, files, report>>
        /\ exitCode' = IF report # "published" THEN 3
                       ELSE [HEALTHY |-> 0, DEGRADED |-> 2, FATAL |-> 3][Overall]
    BY <1>5 DEF SelfCheckExit
  <2>2. Judged' /\ Judged /\ Overall' = Overall
    BY <1>5, JudgedStays DEF SelfCheckInv, SelfCheckExit, Judged, Overall
  <2>3. Overall \in Severity
    BY <2>2, OverallIsWorst, SeverityTypes
  <2>4. FilesOfStep'
    BY <2>1 DEF SelfCheckInv, FilesOfStep
  <2>5. \/ report # "published" /\ exitCode' = 3
        \/ report = "published" /\ Overall = "HEALTHY" /\ exitCode' = 0
        \/ report = "published" /\ Overall = "DEGRADED" /\ exitCode' = 2
        \/ report = "published" /\ Overall = "FATAL" /\ exitCode' = 3
    BY <2>1, <2>3 DEF Severity
  <2> QED BY <2>1, <2>2, <2>4, <2>5 DEF SelfCheckInv
<1> QED BY <1>1, <1>3, <1>4, <1>5 DEF SelfCheckNext

\* A machine put together from a part and its tools is one of those.
LEMMA MachineOfParts ==
  ASSUME NEW part_,
         part_.drive \in [exists : BOOLEAN, free : Nat, writable : BOOLEAN],
         part_.unity \in [exists : BOOLEAN, does : Behaviour, modules : BOOLEAN],
         part_.portFree \in BOOLEAN,
         part_.devices \in SUBSET {"device", "UNAUTHORIZED", "OFFLINE", "NO_PERMISSIONS", "recovery"},
         part_.broken \in SUBSET Probe,
         NEW tools \in [Tool -> Deviation]
  PROVE  WithTools(part_, tools) \in AnyMachine
BY DEF WithTools, AnyMachine

LEMMA PlainParts ==
  /\ Plain.drive \in [exists : BOOLEAN, free : Nat, writable : BOOLEAN]
  /\ Plain.unity \in [exists : BOOLEAN, does : Behaviour, modules : BOOLEAN]
  /\ Plain.portFree \in BOOLEAN
  /\ Plain.devices \in SUBSET {"device", "UNAUTHORIZED", "OFFLINE", "NO_PERMISSIONS", "recovery"}
  /\ Plain.broken \in SUBSET Probe
BY DEF Plain, Behaviour

LEMMA InOrderDeviates ==
  InOrder \in Deviation
BY DEF InOrder, Deviation, Place, Behaviour

LEMMA PlainMachine ==
  WithTools(Plain, [t \in Tool |-> InOrder]) \in AnyMachine
<1>1. [t \in Tool |-> InOrder] \in [Tool -> Deviation]
  BY InOrderDeviates
<1> QED BY <1>1, PlainParts, MachineOfParts

LEMMA OddMachine ==
  ASSUME NEW part_ \in OddPart
  PROVE  WithTools(part_, [t \in Tool |-> InOrder]) \in AnyMachine
<1>1. [t \in Tool |-> InOrder] \in [Tool -> Deviation]
  BY InOrderDeviates
<1>2. ASSUME NEW drive \in [exists : BOOLEAN, free : {4, 5, 19, 20}, writable : BOOLEAN],
             part_ = [Plain EXCEPT !.drive = drive]
      PROVE  WithTools(part_, [t \in Tool |-> InOrder]) \in AnyMachine
  <2>1. drive \in [exists : BOOLEAN, free : Nat, writable : BOOLEAN]
    OBVIOUS
  <2>2. /\ part_.drive = drive /\ part_.unity = Plain.unity /\ part_.portFree = Plain.portFree
        /\ part_.devices = Plain.devices /\ part_.broken = Plain.broken
    BY <1>2 DEF Plain
  <2> QED BY <1>1, <2>1, <2>2, PlainParts, MachineOfParts
<1>3. ASSUME NEW unity \in [exists : BOOLEAN, does : Behaviour, modules : BOOLEAN],
             part_ = [Plain EXCEPT !.unity = unity]
      PROVE  WithTools(part_, [t \in Tool |-> InOrder]) \in AnyMachine
  <2>1. /\ part_.drive = Plain.drive /\ part_.unity = unity /\ part_.portFree = Plain.portFree
        /\ part_.devices = Plain.devices /\ part_.broken = Plain.broken
    BY <1>3 DEF Plain
  <2> QED BY <1>1, <2>1, PlainParts, MachineOfParts
<1>4. ASSUME NEW devices \in SUBSET {"device", "UNAUTHORIZED", "OFFLINE", "NO_PERMISSIONS", "recovery"},
             part_ = [Plain EXCEPT !.devices = devices]
      PROVE  WithTools(part_, [t \in Tool |-> InOrder]) \in AnyMachine
  <2>1. /\ part_.drive = Plain.drive /\ part_.unity = Plain.unity /\ part_.portFree = Plain.portFree
        /\ part_.devices = devices /\ part_.broken = Plain.broken
    BY <1>4 DEF Plain
  <2> QED BY <1>1, <2>1, PlainParts, MachineOfParts
<1>5. ASSUME part_ = [Plain EXCEPT !.portFree = FALSE]
      PROVE  WithTools(part_, [t \in Tool |-> InOrder]) \in AnyMachine
  <2>1. /\ part_.drive = Plain.drive /\ part_.unity = Plain.unity /\ part_.portFree = FALSE
        /\ part_.devices = Plain.devices /\ part_.broken = Plain.broken
    BY <1>5 DEF Plain
  <2>2. part_.portFree \in BOOLEAN
    BY <2>1
  <2> QED BY <1>1, <2>1, <2>2, PlainParts, MachineOfParts
<1>6. ASSUME NEW p \in Probe, part_ = [Plain EXCEPT !.broken = {p}]
      PROVE  WithTools(part_, [t \in Tool |-> InOrder]) \in AnyMachine
  <2>1. /\ part_.drive = Plain.drive /\ part_.unity = Plain.unity /\ part_.portFree = Plain.portFree
        /\ part_.devices = Plain.devices /\ part_.broken = {p}
    BY <1>6 DEF Plain
  <2>2. part_.broken \in SUBSET Probe
    BY <2>1
  <2> QED BY <1>1, <2>1, <2>2, PlainParts, MachineOfParts
<1> QED BY <1>2, <1>3, <1>4, <1>5, <1>6 DEF OddPart

LEMMA SelfCheckInvInit ==
  ASSUME \/ SelfCheckInit
         \/ /\ machine = WithTools(Plain, [t \in Tool |-> InOrder])
            /\ diagnostic = [p \in Probe |-> "HEALTHY"]
            /\ files = {} /\ report = "none" /\ exitCode = 1
  PROVE  SelfCheckInv
<1>1. machine \in AnyMachine
  <2>1. ASSUME NEW odd \in OddTools, NEW how \in [odd -> Deviation],
               machine = WithTools(Plain, [t \in Tool |-> IF t \in odd THEN how[t] ELSE InOrder])
        PROVE  machine \in AnyMachine
    <3>1. [t \in Tool |-> IF t \in odd THEN how[t] ELSE InOrder] \in [Tool -> Deviation]
      BY InOrderDeviates
    <3> QED BY <2>1, <3>1, PlainParts, MachineOfParts
  <2> QED BY <2>1, PlainMachine, OddMachine DEF SelfCheckInit
<1>2. files = {} /\ report = "none" /\ exitCode = 1
  BY DEF SelfCheckInit
<1>3. FilesOfStep
  BY <1>2 DEF FilesOfStep
<1> QED BY <1>1, <1>2, <1>3 DEF SelfCheckInv
-----------------------------------------------------------------------------
(* Whose uid a device shows.  A generation is counted up before its data   *)
(* is wiped, so data are never of a later generation than the row's, and   *)
(* those a wipe is under way of are of an earlier one: a report that names *)
(* the generation of the row is a report of the data that are there.       *)
DataRecord == [uid : Nat \ {0}, key : Nat, boot : Nat, seq : Nat]
InstallRow == [generation : 1..(MaxWipes + 1), uid : Nat,
               status : {"none", "PENDING", "SUCCEEDED", "FAILED"}]

UidTyped ==
  /\ data \in DataRecord /\ install \in InstallRow
  /\ wiping \in {"no", "asked", "cleared", "kept"}
  /\ health.status \in {"UNAVAILABLE", "DEGRADED", "READY"}
  /\ DOMAIN nonces \subseteq Browser

DataAreCounted ==
  /\ data.uid <= install.generation /\ data.key <= install.generation
  /\ wiping = "asked" => data.uid < install.generation
  /\ wiping # "no" => data.key < install.generation
  /\ \A u \in destroyed : u \in Nat /\ u < data.uid
  /\ \A b \in DOMAIN nonces : nonces[b] \in 1..data.uid

ReportsAreCounted ==
  \A m \in wires :
    /\ m.key \in Nat /\ m.key <= install.generation
    /\ wiping # "no" => m.key < install.generation
    /\ m.key = install.generation => m.uid \in {NoUid, data.uid}

ShownIsPresent ==
  /\ install.uid <= data.uid
  /\ install.uid # NoUid /\ ~UidFrom("MANUAL") => wiping = "no" /\ install.uid = data.uid

UidInv == UidTyped /\ DataAreCounted /\ ReportsAreCounted /\ ShownIsPresent

LEMMA UidInvInit == UidInit => UidInv
<1> SUFFICES ASSUME UidInit PROVE UidInv
  OBVIOUS
<1>1. data = [uid |-> 1, key |-> 1, boot |-> 1, seq |-> 0]
      /\ install = [generation |-> 1, uid |-> NoUid, status |-> "none"]
  BY DEF UidInit
<1>2. data \in DataRecord /\ install \in InstallRow
  BY <1>1, UidAssumption DEF DataRecord, InstallRow, NoUid
<1>3. UidTyped
  BY <1>2 DEF UidTyped, UidInit
<1>4. DataAreCounted /\ ReportsAreCounted /\ ShownIsPresent
  BY <1>1 DEF UidInit, DataAreCounted, ReportsAreCounted, ShownIsPresent, NoUid
<1> QED BY <1>3, <1>4 DEF UidInv

LEMMA UidFields ==
  ASSUME UidTyped
  PROVE  /\ data.uid \in Nat /\ data.uid >= 1 /\ data.key \in Nat /\ data.boot \in Nat
         /\ data.seq \in Nat /\ install.generation \in Nat /\ install.uid \in Nat
         /\ install.generation \in 1..(MaxWipes + 1) /\ MaxWipes \in Nat
BY UidAssumption DEF UidTyped, DataRecord, InstallRow

\* A uid is recorded with the generation of the row.
LEMMA RecordedUid ==
  ASSUME UidTyped, NEW uid, NEW source, Record(uid, source), uid \in Nat
  PROVE  /\ install' \in InstallRow /\ install'.uid = uid
         /\ install'.generation = install.generation
         /\ <<install.generation, uid, source>> \in observations'
         /\ \A o \in observations : o \in observations'
<1>1. install' = [install EXCEPT !.uid = uid, !.status = "none"]
  BY DEF Record
<1>2. install \in InstallRow
  BY DEF UidTyped
<1>3. install' \in InstallRow /\ install'.uid = uid
      /\ install'.generation = install.generation
  BY <1>1, <1>2 DEF InstallRow
<1> QED BY <1>3 DEF Record

LEMMA ReportKeeps == UidInv /\ Report => UidInv'
<1> SUFFICES ASSUME UidInv, Report PROVE UidInv'
  OBVIOUS
<1>1. data' = [data EXCEPT !.seq = @ + 1]
      /\ UNCHANGED <<install, wiping, destroyed, observations, health, nonces>>
  BY DEF Report
<1>2. data \in DataRecord
  BY DEF UidInv, UidTyped
<1>3. /\ data' \in DataRecord /\ data'.uid = data.uid /\ data'.key = data.key
  BY <1>1, <1>2 DEF DataRecord
<1>4. PICK uid \in {data.uid, NoUid} :
        wires' = wires \cup {[uid |-> uid, key |-> data.key, boot |-> data.boot,
                              seq |-> data.seq + 1]}
  BY DEF Report
<1>5. ReportsAreCounted'
  BY <1>1, <1>2, <1>3, <1>4 DEF UidInv, ReportsAreCounted, DataAreCounted, DataRecord
<1> QED BY <1>1, <1>3, <1>5 DEF UidInv, UidTyped, DataAreCounted, ShownIsPresent, UidFrom

LEMMA WritePreferenceKeeps == UidInv /\ WritePreference => UidInv'
<1> SUFFICES ASSUME UidInv, WritePreference PROVE UidInv'
  OBVIOUS
<1>1. /\ data' = [data EXCEPT !.key = install.generation] /\ wiping = "no"
      /\ UNCHANGED <<wires, install, wiping, destroyed, observations, health, nonces>>
  BY DEF WritePreference
<1>2. data \in DataRecord /\ install.generation \in Nat
  BY UidFields DEF UidInv, UidTyped
<1>3. /\ data' \in DataRecord /\ data'.uid = data.uid /\ data'.key = install.generation
  BY <1>1, <1>2 DEF DataRecord
<1>4. DataAreCounted'
  BY <1>1, <1>2, <1>3 DEF UidInv, DataAreCounted
<1> QED BY <1>1, <1>3, <1>4 DEF UidInv, UidTyped, ReportsAreCounted, ShownIsPresent, UidFrom

LEMMA ObserveKeeps == UidInv /\ ObserveBridgeState => UidInv'
<1> SUFFICES ASSUME UidInv, ObserveBridgeState PROVE UidInv'
  OBVIOUS
<1>1. PICK m \in wires :
        /\ wires' = wires \ {m}
        /\ \/ UNCHANGED <<install, observations, health>>
           \/ /\ m.key = install.generation /\ m.uid # NoUid
              /\ Record(m.uid, "BRIDGE_AUTO") /\ health' = Health("READY", m)
           \/ health' = Health("DEGRADED", m) /\ UNCHANGED <<install, observations>>
        /\ UNCHANGED <<data, reports, wiping, destroyed, nonces>>
  BY DEF ObserveBridgeState
<1>2. health'.status \in {"UNAVAILABLE", "DEGRADED", "READY"}
  BY <1>1 DEF UidInv, UidTyped, Health
<1>3. CASE UNCHANGED <<install, observations>>
  BY <1>1, <1>2, <1>3 DEF UidInv, UidTyped, DataAreCounted, ReportsAreCounted,
                          ShownIsPresent, UidFrom
<1>4. CASE m.key = install.generation /\ m.uid # NoUid /\ Record(m.uid, "BRIDGE_AUTO")
  <2>1. m.uid = data.uid /\ wiping = "no" /\ m.uid \in Nat
    BY <1>4, UidFields DEF UidInv, ReportsAreCounted
  <2>2. /\ install' \in InstallRow /\ install'.uid = data.uid
        /\ install'.generation = install.generation
    BY <1>4, <2>1, RecordedUid DEF UidInv
  <2>3. UidTyped' /\ DataAreCounted' /\ ReportsAreCounted'
    BY <1>1, <1>2, <2>2 DEF UidInv, UidTyped, DataAreCounted, ReportsAreCounted
  <2>4. ShownIsPresent'
    BY <1>1, <2>1, <2>2, UidFields DEF ShownIsPresent, UidInv
  <2> QED BY <2>3, <2>4 DEF UidInv
<1> QED BY <1>1, <1>3, <1>4

LEMMA UnavailableKeeps == UidInv /\ MarkBridgeUnavailable => UidInv'
<1> SUFFICES ASSUME UidInv, MarkBridgeUnavailable PROVE UidInv'
  OBVIOUS
<1>1. /\ health' = [health EXCEPT !.status = "UNAVAILABLE"]
      /\ UNCHANGED <<data, wires, install, wiping, destroyed, observations, nonces>>
  BY DEF MarkBridgeUnavailable
<1>2. health'.status \in {health.status, "UNAVAILABLE"}
  BY <1>1
<1> QED BY <1>1, <1>2 DEF UidInv, UidTyped, DataAreCounted, ReportsAreCounted,
                          ShownIsPresent, UidFrom

LEMMA NonceKeeps ==
  ASSUME UidInv, NEW b \in Browser, IssueManualUidConfirmation(b) \/ SetManualUid(b)
  PROVE  UidInv'
<1>1. CASE IssueManualUidConfirmation(b)
  <2>1. /\ nonces' = [c \in DOMAIN nonces \cup {b} |->
                        IF c = b THEN data.uid ELSE nonces[c]]
        /\ UNCHANGED <<data, wires, install, wiping, destroyed, observations, health>>
    BY <1>1 DEF IssueManualUidConfirmation
  <2>2. DataAreCounted'
    BY <2>1, UidFields DEF UidInv, DataAreCounted
  <2>3. DOMAIN nonces' \subseteq Browser
    BY <2>1 DEF UidInv, UidTyped
  <2> QED BY <2>1, <2>2, <2>3 DEF UidInv, UidTyped, ReportsAreCounted, ShownIsPresent, UidFrom
<1>2. CASE SetManualUid(b)
  <2>1. /\ b \in DOMAIN nonces
        /\ nonces' = [c \in DOMAIN nonces \ {b} |-> nonces[c]]
        /\ Record(nonces[b], "MANUAL") \/ UNCHANGED <<install, observations>>
        /\ UNCHANGED <<data, wires, wiping, destroyed, health>>
    BY <1>2 DEF SetManualUid
  <2>2. DOMAIN nonces' \subseteq Browser /\ \A c \in DOMAIN nonces' : nonces'[c] = nonces[c]
                                                               /\ c \in DOMAIN nonces
    BY <2>1 DEF UidInv, UidTyped
  <2>3. CASE UNCHANGED <<install, observations>>
    BY <2>1, <2>2, <2>3 DEF UidInv, UidTyped, DataAreCounted, ReportsAreCounted,
                            ShownIsPresent, UidFrom
  <2>4. CASE Record(nonces[b], "MANUAL")
    <3>1. nonces[b] \in Nat /\ nonces[b] <= data.uid
      BY <2>1, UidFields DEF UidInv, DataAreCounted
    <3>2. /\ install' \in InstallRow /\ install'.uid = nonces[b]
          /\ install'.generation = install.generation
          /\ <<install.generation, nonces[b], "MANUAL">> \in observations'
      BY <2>4, <3>1, RecordedUid DEF UidInv
    <3>3. UidTyped' /\ DataAreCounted' /\ ReportsAreCounted'
      BY <2>1, <2>2, <3>2 DEF UidInv, UidTyped, DataAreCounted, ReportsAreCounted
    <3>4. ShownIsPresent'
      BY <2>1, <3>1, <3>2 DEF ShownIsPresent, UidFrom
    <3> QED BY <3>3, <3>4 DEF UidInv
  <2> QED BY <2>1, <2>3, <2>4
<1> QED BY <1>1, <1>2

LEMMA RecordDataMutationKeeps == UidInv /\ RecordDataMutation => UidInv'
<1> SUFFICES ASSUME UidInv, RecordDataMutation PROVE UidInv'
  OBVIOUS
<1>1. /\ wiping = "no" /\ install.generation <= MaxWipes
      /\ install' = [generation |-> install.generation + 1, uid |-> NoUid,
                     status |-> "PENDING"]
      /\ wiping' = "asked" /\ destroyed' = {}
      /\ UNCHANGED <<data, wires, observations, health, nonces>>
  BY DEF RecordDataMutation
<1>2. /\ data.uid \in Nat /\ data.key \in Nat /\ install.generation \in Nat
      /\ install.generation + 1 \in 1..(MaxWipes + 1)
  BY <1>1, UidFields DEF UidInv
<1>3. install' \in InstallRow /\ install'.generation = install.generation + 1
      /\ install'.uid = 0
  BY <1>1, <1>2 DEF InstallRow, NoUid
<1>4. data.uid < install'.generation /\ data.key < install'.generation
  BY <1>2, <1>3 DEF UidInv, DataAreCounted
<1>5. DataAreCounted'
  BY <1>1, <1>2, <1>3, <1>4 DEF UidInv, DataAreCounted
<1>6. ReportsAreCounted'
  BY <1>1, <1>2, <1>3 DEF UidInv, ReportsAreCounted
<1>7. ShownIsPresent' /\ UidTyped'
  BY <1>1, <1>2, <1>3 DEF UidInv, UidTyped, ShownIsPresent, NoUid
<1> QED BY <1>5, <1>6, <1>7 DEF UidInv

LEMMA AdbWipesKeeps == UidInv /\ AdbWipes => UidInv'
<1> SUFFICES ASSUME UidInv, AdbWipes PROVE UidInv'
  OBVIOUS
<1>1. wiping = "asked" /\ UNCHANGED <<wires, install, observations, health, nonces>>
  BY DEF AdbWipes
<1>2. /\ data.uid < install.generation /\ data.key < install.generation
      /\ install.uid # NoUid => UidFrom("MANUAL")
      /\ UidFrom("MANUAL")' <=> UidFrom("MANUAL")
  BY <1>1 DEF UidInv, DataAreCounted, ShownIsPresent, UidFrom
<1>3. CASE wiping' = "kept" /\ UNCHANGED <<data, destroyed>>
  BY <1>1, <1>2, <1>3 DEF UidInv, UidTyped, DataAreCounted, ReportsAreCounted, ShownIsPresent
<1>4. CASE /\ wiping' = "cleared"
           /\ data' = [uid |-> data.uid + 1, key |-> 1, boot |-> data.boot + 1, seq |-> 0]
           /\ destroyed' = destroyed \cup {data.uid}
  <2>1. data' \in DataRecord /\ data'.uid = data.uid + 1 /\ data'.key = 1
        /\ data.uid \in Nat /\ data.uid >= 1 /\ install.generation \in Nat
        /\ install.uid \in Nat
    BY <1>4, UidFields DEF UidInv, DataRecord
  <2>2. DataAreCounted'
    BY <1>1, <1>2, <1>4, <2>1 DEF UidInv, DataAreCounted
  <2>3. ReportsAreCounted'
    BY <1>1, <1>4, <2>1 DEF UidInv, ReportsAreCounted
  <2>4. ShownIsPresent'
    BY <1>1, <1>2, <2>1 DEF UidInv, ShownIsPresent
  <2>5. UidTyped'
    BY <1>1, <1>4, <2>1 DEF UidInv, UidTyped
  <2> QED BY <2>2, <2>3, <2>4, <2>5 DEF UidInv
<1> QED BY <1>3, <1>4 DEF AdbWipes

LEMMA MutationResultKeeps == UidInv /\ RecordMutationResult => UidInv'
<1> SUFFICES ASSUME UidInv, RecordMutationResult PROVE UidInv'
  OBVIOUS
<1>1. /\ wiping \in {"cleared", "kept"} /\ wiping' = "no"
      /\ UNCHANGED <<data, wires, destroyed, observations, health, nonces>>
  BY DEF RecordMutationResult
<1>2. \/ install' = install
      \/ \E status \in {"SUCCEEDED", "FAILED"} : install' = [install EXCEPT !.status = status]
  BY DEF RecordMutationResult
<1>3. install \in InstallRow
  BY DEF UidInv, UidTyped
<1>4. install' \in InstallRow /\ install'.uid = install.uid
      /\ install'.generation = install.generation
  BY <1>2, <1>3 DEF InstallRow
<1>5. UidFrom("MANUAL")' <=> UidFrom("MANUAL")
  BY <1>1, <1>4 DEF UidFrom
<1>6. ShownIsPresent'
  BY <1>1, <1>4, <1>5 DEF UidInv, ShownIsPresent
<1> QED BY <1>1, <1>4, <1>6 DEF UidInv, UidTyped, DataAreCounted, ReportsAreCounted

LEMMA UidInvStep == UidInv /\ UidNext => UidInv'
BY ReportKeeps, WritePreferenceKeeps, ObserveKeeps, UnavailableKeeps, NonceKeeps,
   RecordDataMutationKeeps, AdbWipesKeeps, MutationResultKeeps DEF UidNext

LEMMA UidIsTrue ==
  ASSUME UidInv
  PROVE  UidTypeOK /\ BridgeUidIsOfThisData
<1>1. /\ install.generation \in 1..(MaxWipes + 1)
      /\ install.status \in {"none", "PENDING", "SUCCEEDED", "FAILED"}
      /\ install.uid \in Nat /\ data.uid \in Nat
  BY UidFields DEF UidInv, UidTyped, InstallRow
<1>2. install.uid \in 0..(MaxWipes + 1)
  BY <1>1, UidAssumption DEF UidInv, DataAreCounted, ShownIsPresent
<1>3. \A u \in destroyed : u # data.uid
  BY <1>1 DEF UidInv, DataAreCounted
<1>4. BridgeUidIsOfThisData
  BY <1>3 DEF UidInv, ShownIsPresent, BridgeUidIsOfThisData
<1> QED BY <1>1, <1>2, <1>4 DEF UidInv, UidTyped, UidTypeOK
-----------------------------------------------------------------------------
(* Importing packages.  A file that a request is about to catalogue, or    *)
(* that is catalogued, is only missing if a request withdrew it that had   *)
(* put it there; a request that has withdrawn it never gets to catalogue   *)
(* it, and what it answers says so.                                        *)
Answers == {"none", "CREATED", "DEDUPLICATED", "REJECTED", "FAILED", "CANCELLED"}

ImportRecord == [step : ImportSteps, route : ImportRoute, kind : ImportKind,
                 name : ImportName \cup {NoName}, sum : ImportDigest \cup {NoName},
                 file : ImportName \cup {NoName}, created : BOOLEAN, outer : BOOLEAN,
                 inner : BOOLEAN, answer : Answers]

AtItsEnd == {"answering", "cleaning", "listing", "emptying", "done", "crashed"}
Published == {"cataloguing", "withdrawing", "removing", "discarding"} \cup AtItsEnd
WithPartial == {"staging", "parsing", "looking", "renaming", "discarding", "crashed"}

ImportIsSound(i) ==
  /\ imp[i].step \notin {"idle", "done"} =>
       imp[i].sum \in ImportDigest /\ imp[i].name \in ImportName
  /\ imp[i].step = "cataloguing" => imp[i].file \in ImportName
  /\ i \in partials => imp[i].step \in WithPartial
  /\ imp[i].created => imp[i].step \in Published
  /\ imp[i].answer \in {"CREATED", "DEDUPLICATED"} => imp[i].step \in AtItsEnd
  /\ <<i, "PUBLISHED">> \in attempts =>
       /\ imp[i].step \in AtItsEnd
       /\ imp[i].answer = "CREATED" \/ (imp[i].route = "unity" /\ imp[i].answer = "CANCELLED")

Withdrew(i, d) ==
  /\ imp[i].sum = d /\ imp[i].created
  /\ imp[i].answer \notin {"CREATED", "DEDUPLICATED"}
  /\ imp[i].step \notin {"cataloguing", "withdrawing"}

There(d, n) == <<d, n>> \in onDisk \/ \E i \in Importer : Withdrew(i, d)

ImportInv ==
  /\ imp \in [Importer -> ImportRecord]
  /\ onDisk \subseteq ImportDigest \X ImportName
  /\ hashDirs \subseteq ImportDigest /\ partials \subseteq Importer
  /\ storedName \in [ImportDigest -> ImportName \cup {NoName}]
  /\ artifacts \subseteq ImportKind \X ImportDigest
  /\ \A i \in Importer : ImportIsSound(i)
  /\ \A i \in Importer : imp[i].step = "cataloguing" => There(imp[i].sum, imp[i].file)
  /\ \A d \in ImportDigest : storedName[d] # NoName => There(d, storedName[d])

LEMMA ImportInvInit == ImportInit => ImportInv
<1> SUFFICES ASSUME ImportInit PROVE ImportInv
  OBVIOUS
<1>1. NoImport \in ImportRecord
  BY DEF NoImport, ImportRecord, ImportSteps, ImportRoute, ImportKind, Answers
<1>2. imp = [i \in Importer |-> NoImport]
  BY DEF ImportInit
<1>3. imp \in [Importer -> ImportRecord]
  <2> HIDE DEF ImportRecord
  <2> QED BY <1>1, <1>2
<1>4. \A i \in Importer : ImportIsSound(i) /\ imp[i].step # "cataloguing"
  BY <1>2 DEF ImportInit, ImportIsSound, NoImport
<1>5. \A d \in ImportDigest : storedName[d] = NoName
  BY DEF ImportInit
<1> QED BY <1>3, <1>4, <1>5 DEF ImportInit, ImportInv

\* What the catalogue and the store keep of a step that takes no file away:
\* only the request that moves can lose what it is about to catalogue, or
\* what it has withdrawn.
MovesSoundly(i) ==
  /\ \E record : imp' = [imp EXCEPT ![i] = record]
  /\ imp'[i] \in ImportRecord
  /\ ImportIsSound(i)'
  /\ partials' \subseteq partials \cup {i} /\ hashDirs' \subseteq hashDirs \cup ImportDigest
  /\ \A d : Withdrew(i, d) => Withdrew(i, d)'

LEMMA OthersMove ==
  ASSUME ImportInv, NEW i \in Importer, MovesSoundly(i),
         \A d, n : <<d, n>> \in onDisk => <<d, n>> \in onDisk' \/ Withdrew(i, d)',
         onDisk' \subseteq ImportDigest \X ImportName,
         \A k \in Importer \ {i} : <<k, "PUBLISHED">> \in attempts' => <<k, "PUBLISHED">> \in attempts
  PROVE  /\ imp' \in [Importer -> ImportRecord] /\ hashDirs' \subseteq ImportDigest
         /\ partials' \subseteq Importer
         /\ \A k \in Importer : ImportIsSound(k)'
         /\ \A k \in Importer \ {i} : imp'[k] = imp[k]
         /\ \A d, n : There(d, n) => There(d, n)'
         /\ \A k \in Importer \ {i} :
              imp'[k].step = "cataloguing" => There(imp[k].sum, imp[k].file)'
<1>1. PICK record : imp' = [imp EXCEPT ![i] = record]
  BY DEF MovesSoundly
<1>2. imp \in [Importer -> ImportRecord]
  BY DEF ImportInv
<1>3. imp'[i] = record /\ record \in ImportRecord
  <2> HIDE DEF ImportRecord
  <2> QED BY <1>1, <1>2 DEF MovesSoundly
<1>4. imp' \in [Importer -> ImportRecord] /\ \A k \in Importer \ {i} : imp'[k] = imp[k]
  <2> HIDE DEF ImportRecord
  <2> QED BY <1>1, <1>2, <1>3
<1>5. hashDirs' \subseteq ImportDigest /\ partials' \subseteq Importer
  BY DEF ImportInv, MovesSoundly
<1>6. ASSUME NEW k \in Importer PROVE ImportIsSound(k)'
  <2>1. CASE k = i
    BY <2>1 DEF MovesSoundly
  <2>2. CASE k # i
    <3>1. imp'[k] = imp[k] /\ ImportIsSound(k) /\ (k \in partials' => k \in partials)
          /\ (<<k, "PUBLISHED">> \in attempts' => <<k, "PUBLISHED">> \in attempts)
      BY <1>4, <2>2 DEF ImportInv, MovesSoundly
    <3> QED BY <3>1 DEF ImportIsSound
  <2> QED BY <2>1, <2>2
<1>7. ASSUME NEW d, NEW n, There(d, n) PROVE There(d, n)'
  <2>1. CASE <<d, n>> \in onDisk
    <3>1. <<d, n>> \in onDisk' \/ Withdrew(i, d)'
      BY <2>1
    <3> QED BY <3>1 DEF There
  <2>2. ASSUME NEW j \in Importer, Withdrew(j, d) PROVE There(d, n)'
    <3>1. CASE j = i
      BY <2>2, <3>1 DEF MovesSoundly, There
    <3>2. CASE j # i
      <4>1. imp'[j] = imp[j]
        BY <1>4, <3>2
      <4>2. Withdrew(j, d)'
        BY <2>2, <4>1 DEF Withdrew
      <4> QED BY <4>2 DEF There
    <3> QED BY <3>1, <3>2
  <2> QED BY <1>7, <2>1, <2>2 DEF There
<1>8. ASSUME NEW k \in Importer \ {i}, imp'[k].step = "cataloguing"
      PROVE  There(imp[k].sum, imp[k].file)'
  <2>1. There(imp[k].sum, imp[k].file) /\ imp'[k] = imp[k]
    BY <1>4, <1>8 DEF ImportInv
  <2>2. \A d, n : d = imp[k].sum /\ n = imp[k].file => There(d, n)'
    BY <1>7, <2>1
  <2> QED BY <2>1, <2>2 DEF There, Withdrew
<1> QED BY <1>4, <1>5, <1>6, <1>7, <1>8

LEMMA RequestKeeps ==
  ASSUME ImportInv, NEW i \in Importer, MovesSoundly(i),
         \A d, n : <<d, n>> \in onDisk => <<d, n>> \in onDisk' \/ Withdrew(i, d)',
         onDisk' \subseteq ImportDigest \X ImportName,
         imp'[i].step = "cataloguing" => <<imp'[i].sum, imp'[i].file>> \in onDisk',
         <<i, "PUBLISHED">> \in attempts \/ <<i, "PUBLISHED">> \notin attempts',
         \A k \in Importer \ {i} : <<k, "PUBLISHED">> \in attempts' => <<k, "PUBLISHED">> \in attempts,
         UNCHANGED <<storedName, artifacts>>
  PROVE  ImportInv'
<1>1. /\ imp' \in [Importer -> ImportRecord] /\ hashDirs' \subseteq ImportDigest
      /\ partials' \subseteq Importer
      /\ \A k \in Importer : ImportIsSound(k)'
      /\ \A d, n : There(d, n) => There(d, n)'
      /\ \A k \in Importer \ {i} :
           imp'[k].step = "cataloguing" => There(imp[k].sum, imp[k].file)'
  BY OthersMove
<1>2. imp'[i].step = "cataloguing" => There(imp[i].sum, imp[i].file)'
  BY DEF There
<1>3. ASSUME NEW d \in ImportDigest, storedName'[d] # NoName
      PROVE  There(d, storedName[d])'
  <2>1. There(d, storedName[d]) /\ storedName' = storedName
    BY <1>3 DEF ImportInv
  <2>2. \A n : n = storedName[d] => There(d, n)'
    BY <1>1, <2>1
  <2> QED BY <2>1, <2>2 DEF There, Withdrew
<1> QED BY <1>1, <1>2, <1>3 DEF ImportInv

\* Most steps write a new step, and perhaps an answer, and nothing else of the
\* request.
MovedOn(old, step, answer) == [old EXCEPT !.answer = answer, !.step = step]

LEMMA RecordMoves ==
  ASSUME NEW old \in ImportRecord, NEW step \in ImportSteps, NEW answer \in Answers
  PROVE  LET new == MovedOn(old, step, answer) IN
         /\ new \in ImportRecord /\ new.step = step /\ new.answer = answer
         /\ new.route = old.route /\ new.sum = old.sum /\ new.name = old.name
         /\ new.file = old.file /\ new.created = old.created
         /\ answer = old.answer => new = [old EXCEPT !.step = step]
<1> DEFINE new == MovedOn(old, step, answer)
<1>1. new \in ImportRecord
  BY DEF ImportRecord, MovedOn
<1>2. /\ new.step = step /\ new.answer = answer
      /\ new.route = old.route /\ new.sum = old.sum /\ new.name = old.name
      /\ new.file = old.file /\ new.created = old.created
  BY DEF ImportRecord, MovedOn
<1>3. answer = old.answer => new = [old EXCEPT !.step = step]
  BY DEF ImportRecord, MovedOn
<1> QED BY <1>1, <1>2, <1>3

LEMMA RequestMoves ==
  ASSUME ImportInv, NEW i \in Importer, NEW step \in ImportSteps, NEW answer \in Answers,
         imp' = [imp EXCEPT ![i] = MovedOn(imp[i], step, answer)]
  PROVE  /\ imp[i] \in ImportRecord
         /\ imp'[i] \in ImportRecord /\ imp'[i].step = step /\ imp'[i].answer = answer
         /\ imp'[i].route = imp[i].route /\ imp'[i].sum = imp[i].sum /\ imp'[i].name = imp[i].name
         /\ imp'[i].file = imp[i].file /\ imp'[i].created = imp[i].created
<1> HIDE DEF ImportRecord
<1>1. imp \in [Importer -> ImportRecord] /\ imp[i] \in ImportRecord
  BY DEF ImportInv
<1> DEFINE new == MovedOn(imp[i], step, answer)
<1>2. /\ new \in ImportRecord /\ new.step = step /\ new.answer = answer
      /\ new.route = imp[i].route /\ new.sum = imp[i].sum /\ new.name = imp[i].name
      /\ new.file = imp[i].file /\ new.created = imp[i].created
  BY <1>1, RecordMoves
<1>3. imp'[i] = new
  BY <1>1
<1> HIDE DEF new
<1> QED BY <1>1, <1>2, <1>3

LEMMA Moving ==
  ASSUME ImportInv, NEW i \in Importer, NEW step \in ImportSteps,
         imp' = [imp EXCEPT ![i].step = step]
  PROVE  imp' = [imp EXCEPT ![i] = MovedOn(imp[i], step, imp[i].answer)]
         /\ imp[i].answer \in Answers
<1>1. imp[i] \in ImportRecord
  <2> HIDE DEF ImportRecord
  <2> QED BY DEF ImportInv
<1>2. imp[i].answer \in Answers
  BY <1>1 DEF ImportRecord
<1>3. MovedOn(imp[i], step, imp[i].answer) = [imp[i] EXCEPT !.step = step]
  BY <1>1, <1>2, RecordMoves
<1> QED BY <1>2, <1>3

BeforePublishing == {"uploaded", "sourced", "executing", "validating", "opening", "staging", "parsing",
           "looking", "renaming"}

\* A request that moves from a step of the first part, or answers.
LEMMA StepMoves ==
  ASSUME ImportInv, NEW i \in Importer, NEW step \in ImportSteps, NEW answer \in Answers,
         imp' = [imp EXCEPT ![i] = MovedOn(imp[i], step, answer)],
         \/ imp[i].step \notin {"idle", "done", "cataloguing", "withdrawing"}
         \/ answer = "REJECTED" /\ step = "done" /\ imp[i].step = "idle",
         step \notin {"idle", "cataloguing", "withdrawing"},
         step \notin Published => imp[i].step \in BeforePublishing,
         step \notin AtItsEnd => imp[i].step \in BeforePublishing \cup {"removing"},
         step = "removing" => imp[i].step = "removing",
         step = "discarding" => imp[i].step \in BeforePublishing \cup {"removing"},
         \/ answer = imp[i].answer
         \/ imp[i].step \notin AtItsEnd /\ answer \in {"FAILED", "CANCELLED", "REJECTED"}
         \/ imp[i].step = "answering" /\ imp[i].route = "unity" /\ answer = "CANCELLED",
         partials' \subseteq partials \cup {i},
         i \in partials' => step \in WithPartial,
         hashDirs' \subseteq hashDirs \cup ImportDigest,
         UNCHANGED <<onDisk, storedName, artifacts, attempts>>
  PROVE  ImportInv'
<1>1. /\ imp[i] \in ImportRecord
      /\ imp'[i] \in ImportRecord /\ imp'[i].step = step /\ imp'[i].answer = answer
      /\ imp'[i].route = imp[i].route /\ imp'[i].sum = imp[i].sum /\ imp'[i].name = imp[i].name
      /\ imp'[i].file = imp[i].file /\ imp'[i].created = imp[i].created
  BY RequestMoves
<1>2. ImportIsSound(i)
  BY DEF ImportInv
<1>3. imp[i].step \in BeforePublishing \cup {"idle"} =>
        ~imp[i].created /\ imp[i].answer \notin {"CREATED", "DEDUPLICATED"}
        /\ <<i, "PUBLISHED">> \notin attempts
  BY <1>2 DEF ImportIsSound, Published, AtItsEnd, BeforePublishing
<1>4. ImportIsSound(i)'
  <2>1. step \notin {"idle", "done"} => imp[i].sum \in ImportDigest /\ imp[i].name \in ImportName
    BY <1>2 DEF ImportIsSound
  <2>2. imp[i].created => step \in Published
    BY <1>3
  <2>3. answer \in {"CREATED", "DEDUPLICATED"} => step \in AtItsEnd
    BY <1>2, <1>3 DEF ImportIsSound, AtItsEnd, BeforePublishing
  <2>4. <<i, "PUBLISHED">> \in attempts =>
          step \in AtItsEnd /\ (answer = "CREATED" \/ (imp[i].route = "unity" /\ answer = "CANCELLED"))
    BY <1>2, <1>3 DEF ImportIsSound, AtItsEnd, BeforePublishing
  <2> HIDE DEF ImportRecord, WithPartial, Published, AtItsEnd
  <2> QED BY <1>1, <2>1, <2>2, <2>3, <2>4 DEF ImportIsSound
<1>5. \A d : Withdrew(i, d) => Withdrew(i, d)'
  <2> HIDE DEF ImportRecord
  <2> QED BY <1>1, <1>3 DEF Withdrew
<1>6. MovesSoundly(i)
  <2> HIDE DEF ImportRecord
  <2> QED BY <1>1, <1>4, <1>5 DEF MovesSoundly
<1> QED BY <1>1, <1>6, RequestKeeps DEF ImportInv

\* What every request keeps to, in the form the steps below use.
LEMMA RequestFacts ==
  ASSUME ImportInv, NEW i \in Importer
  PROVE  /\ imp[i] \in ImportRecord /\ imp[i].answer \in Answers /\ imp[i].step \in ImportSteps
         /\ ImportIsSound(i) /\ Failure(i) \in {"FAILED", "CANCELLED"}
         /\ (i \in partials => imp[i].step \in WithPartial)
<1>1. imp[i] \in ImportRecord /\ ImportIsSound(i)
  <2> HIDE DEF ImportRecord
  <2> QED BY DEF ImportInv
<1> QED BY <1>1 DEF ImportRecord, ImportIsSound, Failure


LEMMA MakeSourceKeeps ==
  ASSUME ImportInv, NEW i \in Importer, ImportMakeSource(i)
  PROVE  ImportInv'
<1> USE DEF ImportSteps, Published, AtItsEnd, BeforePublishing, WithPartial
<1>1. imp[i].step = "uploaded" /\ UNCHANGED <<onDisk, storedName, artifacts, attempts>>
  BY DEF ImportMakeSource, At
<1>2. /\ imp[i].answer \in Answers /\ Failure(i) \in {"FAILED", "CANCELLED"}
      /\ (i \in partials => imp[i].step \in WithPartial)
  BY RequestFacts
<1>3. CASE imp' = [imp EXCEPT ![i].step = "sourced"]
  <2>1. partials' \subseteq partials \cup {i} /\ (i \in partials' => "sourced" \in WithPartial)
        /\ hashDirs' \subseteq hashDirs \cup ImportDigest
    BY <1>1, <1>2, <1>3 DEF ImportMakeSource, Moved, Answered, At
  <2>2. imp' = [imp EXCEPT ![i] = MovedOn(imp[i], "sourced", imp[i].answer)]
    BY <1>3, Moving
  <2> QED BY <1>1, <1>2, <2>1, <2>2, StepMoves DEF Answers
<1> QED BY <1>1, <1>2, <1>3 DEF ImportMakeSource, Moved, Answered, At


LEMMA MoveUploadKeeps ==
  ASSUME ImportInv, NEW i \in Importer, ImportMoveUpload(i)
  PROVE  ImportInv'
<1> USE DEF ImportSteps, Published, AtItsEnd, BeforePublishing, WithPartial
<1>1. imp[i].step = "sourced" /\ UNCHANGED <<onDisk, storedName, artifacts, attempts>>
  BY DEF ImportMoveUpload, At
<1>2. /\ imp[i].answer \in Answers /\ Failure(i) \in {"FAILED", "CANCELLED"}
      /\ (i \in partials => imp[i].step \in WithPartial)
  BY RequestFacts
<1>3. CASE imp' = [imp EXCEPT ![i].step = "validating"]
  <2>1. partials' \subseteq partials \cup {i} /\ (i \in partials' => "validating" \in WithPartial)
        /\ hashDirs' \subseteq hashDirs \cup ImportDigest
    BY <1>1, <1>2, <1>3 DEF ImportMoveUpload, Moved, Answered, At
  <2>2. imp' = [imp EXCEPT ![i] = MovedOn(imp[i], "validating", imp[i].answer)]
    BY <1>3, Moving
  <2> QED BY <1>1, <1>2, <2>1, <2>2, StepMoves DEF Answers
<1>4. CASE imp' = [imp EXCEPT ![i].answer = "REJECTED", ![i].step = "cleaning"]
                /\ partials' \subseteq partials /\ i \notin partials'
  <2>1. "REJECTED" \in Answers /\ "REJECTED" \in {"FAILED", "CANCELLED", "REJECTED"}
        /\ hashDirs' \subseteq hashDirs \cup ImportDigest
    BY <1>1, <1>2 DEF ImportMoveUpload, Answers
  <2>2. imp' = [imp EXCEPT ![i] = MovedOn(imp[i], "cleaning", "REJECTED")]
    BY <1>4 DEF MovedOn
  <2> QED BY <1>1, <1>2, <1>4, <2>1, <2>2, StepMoves
<1> QED BY <1>1, <1>2, <1>3, <1>4 DEF ImportMoveUpload, Moved, Answered, At


LEMMA CleanKeeps ==
  ASSUME ImportInv, NEW i \in Importer, ImportClean(i)
  PROVE  ImportInv'
<1> USE DEF ImportSteps, Published, AtItsEnd, BeforePublishing, WithPartial
<1>1. imp[i].step = "cleaning" /\ UNCHANGED <<onDisk, storedName, artifacts, attempts>>
  BY DEF ImportClean, At
<1>2. /\ imp[i].answer \in Answers /\ Failure(i) \in {"FAILED", "CANCELLED"}
      /\ (i \in partials => imp[i].step \in WithPartial)
  BY RequestFacts
<1>3. CASE imp' = [imp EXCEPT ![i].step = "listing"]
  <2>1. partials' \subseteq partials \cup {i} /\ (i \in partials' => "listing" \in WithPartial)
        /\ hashDirs' \subseteq hashDirs \cup ImportDigest
    BY <1>1, <1>2, <1>3 DEF ImportClean, Moved, Answered, At
  <2>2. imp' = [imp EXCEPT ![i] = MovedOn(imp[i], "listing", imp[i].answer)]
    BY <1>3, Moving
  <2> QED BY <1>1, <1>2, <2>1, <2>2, StepMoves DEF Answers
<1> QED BY <1>1, <1>2, <1>3 DEF ImportClean, Moved, Answered, At


LEMMA ListSourceKeeps ==
  ASSUME ImportInv, NEW i \in Importer, ImportListSource(i)
  PROVE  ImportInv'
<1> USE DEF ImportSteps, Published, AtItsEnd, BeforePublishing, WithPartial
<1>1. imp[i].step = "listing" /\ UNCHANGED <<onDisk, storedName, artifacts, attempts>>
  BY DEF ImportListSource, At
<1>2. /\ imp[i].answer \in Answers /\ Failure(i) \in {"FAILED", "CANCELLED"}
      /\ (i \in partials => imp[i].step \in WithPartial)
  BY RequestFacts
<1>3. CASE imp' = [imp EXCEPT ![i].step = "emptying"]
  <2>1. partials' \subseteq partials \cup {i} /\ (i \in partials' => "emptying" \in WithPartial)
        /\ hashDirs' \subseteq hashDirs \cup ImportDigest
    BY <1>1, <1>2, <1>3 DEF ImportListSource, Moved, Answered, At
  <2>2. imp' = [imp EXCEPT ![i] = MovedOn(imp[i], "emptying", imp[i].answer)]
    BY <1>3, Moving
  <2> QED BY <1>1, <1>2, <2>1, <2>2, StepMoves DEF Answers
<1>4. CASE imp' = [imp EXCEPT ![i].step = "done"]
  <2>1. partials' \subseteq partials \cup {i} /\ (i \in partials' => "done" \in WithPartial)
        /\ hashDirs' \subseteq hashDirs \cup ImportDigest
    BY <1>1, <1>2, <1>4 DEF ImportListSource, Moved, Answered, At
  <2>2. imp' = [imp EXCEPT ![i] = MovedOn(imp[i], "done", imp[i].answer)]
    BY <1>4, Moving
  <2> QED BY <1>1, <1>2, <2>1, <2>2, StepMoves DEF Answers
<1> QED BY <1>1, <1>2, <1>3, <1>4 DEF ImportListSource, Moved, Answered, At


LEMMA RemoveSourceKeeps ==
  ASSUME ImportInv, NEW i \in Importer, ImportRemoveSource(i)
  PROVE  ImportInv'
<1> USE DEF ImportSteps, Published, AtItsEnd, BeforePublishing, WithPartial
<1>1. imp[i].step = "emptying" /\ UNCHANGED <<onDisk, storedName, artifacts, attempts>>
  BY DEF ImportRemoveSource, At
<1>2. /\ imp[i].answer \in Answers /\ Failure(i) \in {"FAILED", "CANCELLED"}
      /\ (i \in partials => imp[i].step \in WithPartial)
  BY RequestFacts
<1>3. CASE imp' = [imp EXCEPT ![i].step = "done"]
  <2>1. partials' \subseteq partials \cup {i} /\ (i \in partials' => "done" \in WithPartial)
        /\ hashDirs' \subseteq hashDirs \cup ImportDigest
    BY <1>1, <1>2, <1>3 DEF ImportRemoveSource, Moved, Answered, At
  <2>2. imp' = [imp EXCEPT ![i] = MovedOn(imp[i], "done", imp[i].answer)]
    BY <1>3, Moving
  <2> QED BY <1>1, <1>2, <2>1, <2>2, StepMoves DEF Answers
<1> QED BY <1>1, <1>2, <1>3 DEF ImportRemoveSource, Moved, Answered, At


LEMMA ExecuteKeeps ==
  ASSUME ImportInv, NEW i \in Importer, ImportExecute(i)
  PROVE  ImportInv'
<1> USE DEF ImportSteps, Published, AtItsEnd, BeforePublishing, WithPartial
<1>1. imp[i].step = "executing" /\ UNCHANGED <<onDisk, storedName, artifacts, attempts>>
  BY DEF ImportExecute, At
<1>2. /\ imp[i].answer \in Answers /\ Failure(i) \in {"FAILED", "CANCELLED"}
      /\ (i \in partials => imp[i].step \in WithPartial)
  BY RequestFacts
<1>3. CASE imp' = [imp EXCEPT ![i].step = "validating"]
  <2>1. partials' \subseteq partials \cup {i} /\ (i \in partials' => "validating" \in WithPartial)
        /\ hashDirs' \subseteq hashDirs \cup ImportDigest
    BY <1>1, <1>2, <1>3 DEF ImportExecute, Moved, Answered, At
  <2>2. imp' = [imp EXCEPT ![i] = MovedOn(imp[i], "validating", imp[i].answer)]
    BY <1>3, Moving
  <2> QED BY <1>1, <1>2, <2>1, <2>2, StepMoves DEF Answers
<1>4. CASE imp' = [imp EXCEPT ![i].answer = Failure(i), ![i].step = "answering"]
                /\ partials' \subseteq partials /\ i \notin partials'
  <2>1. Failure(i) \in Answers /\ Failure(i) \in {"FAILED", "CANCELLED", "REJECTED"}
        /\ hashDirs' \subseteq hashDirs \cup ImportDigest
    BY <1>1, <1>2 DEF ImportExecute, Answers
  <2>2. imp' = [imp EXCEPT ![i] = MovedOn(imp[i], "answering", Failure(i))]
    BY <1>4 DEF MovedOn
  <2> QED BY <1>1, <1>2, <1>4, <2>1, <2>2, StepMoves
<1> QED BY <1>1, <1>2, <1>3, <1>4 DEF ImportExecute, Moved, Answered, At


LEMMA ValidateKeeps ==
  ASSUME ImportInv, NEW i \in Importer, ImportValidate(i)
  PROVE  ImportInv'
<1> USE DEF ImportSteps, Published, AtItsEnd, BeforePublishing, WithPartial
<1>1. imp[i].step = "validating" /\ UNCHANGED <<onDisk, storedName, artifacts, attempts>>
  BY DEF ImportValidate, At
<1>2. /\ imp[i].answer \in Answers /\ Failure(i) \in {"FAILED", "CANCELLED"}
      /\ (i \in partials => imp[i].step \in WithPartial)
  BY RequestFacts
<1>3. CASE imp' = [imp EXCEPT ![i].step = "opening"]
  <2>1. partials' \subseteq partials \cup {i} /\ (i \in partials' => "opening" \in WithPartial)
        /\ hashDirs' \subseteq hashDirs \cup ImportDigest
    BY <1>1, <1>2, <1>3 DEF ImportValidate, Moved, Answered, At
  <2>2. imp' = [imp EXCEPT ![i] = MovedOn(imp[i], "opening", imp[i].answer)]
    BY <1>3, Moving
  <2> QED BY <1>1, <1>2, <2>1, <2>2, StepMoves DEF Answers
<1>4. CASE imp' = [imp EXCEPT ![i].answer = Failure(i), ![i].step = "answering"]
                /\ partials' \subseteq partials /\ i \notin partials'
  <2>1. Failure(i) \in Answers /\ Failure(i) \in {"FAILED", "CANCELLED", "REJECTED"}
        /\ hashDirs' \subseteq hashDirs \cup ImportDigest
    BY <1>1, <1>2 DEF ImportValidate, Answers
  <2>2. imp' = [imp EXCEPT ![i] = MovedOn(imp[i], "answering", Failure(i))]
    BY <1>4 DEF MovedOn
  <2> QED BY <1>1, <1>2, <1>4, <2>1, <2>2, StepMoves
<1> QED BY <1>1, <1>2, <1>3, <1>4 DEF ImportValidate, Moved, Answered, At


LEMMA OpenKeeps ==
  ASSUME ImportInv, NEW i \in Importer, ImportOpen(i)
  PROVE  ImportInv'
<1> USE DEF ImportSteps, Published, AtItsEnd, BeforePublishing, WithPartial
<1>1. imp[i].step = "opening" /\ UNCHANGED <<onDisk, storedName, artifacts, attempts>>
  BY DEF ImportOpen, At
<1>2. /\ imp[i].answer \in Answers /\ Failure(i) \in {"FAILED", "CANCELLED"}
      /\ (i \in partials => imp[i].step \in WithPartial)
  BY RequestFacts
<1>3. CASE imp' = [imp EXCEPT ![i].step = "staging"]
  <2>1. partials' \subseteq partials \cup {i} /\ (i \in partials' => "staging" \in WithPartial)
        /\ hashDirs' \subseteq hashDirs \cup ImportDigest
    BY <1>1, <1>2, <1>3 DEF ImportOpen, Moved, Answered, At
  <2>2. imp' = [imp EXCEPT ![i] = MovedOn(imp[i], "staging", imp[i].answer)]
    BY <1>3, Moving
  <2> QED BY <1>1, <1>2, <2>1, <2>2, StepMoves DEF Answers
<1> QED BY <1>1, <1>2, <1>3 DEF ImportOpen, Moved, Answered, At


LEMMA StageKeeps ==
  ASSUME ImportInv, NEW i \in Importer, ImportStage(i)
  PROVE  ImportInv'
<1> USE DEF ImportSteps, Published, AtItsEnd, BeforePublishing, WithPartial
<1>1. imp[i].step = "staging" /\ UNCHANGED <<onDisk, storedName, artifacts, attempts>>
  BY DEF ImportStage, At
<1>2. /\ imp[i].answer \in Answers /\ Failure(i) \in {"FAILED", "CANCELLED"}
      /\ (i \in partials => imp[i].step \in WithPartial)
  BY RequestFacts
<1>3. CASE imp' = [imp EXCEPT ![i].step = "parsing"]
  <2>1. partials' \subseteq partials \cup {i} /\ (i \in partials' => "parsing" \in WithPartial)
        /\ hashDirs' \subseteq hashDirs \cup ImportDigest
    BY <1>1, <1>2, <1>3 DEF ImportStage, Moved, Answered, At
  <2>2. imp' = [imp EXCEPT ![i] = MovedOn(imp[i], "parsing", imp[i].answer)]
    BY <1>3, Moving
  <2> QED BY <1>1, <1>2, <2>1, <2>2, StepMoves DEF Answers
<1>4. CASE imp' = [imp EXCEPT ![i].step = "discarding"]
  <2>1. partials' \subseteq partials \cup {i} /\ (i \in partials' => "discarding" \in WithPartial)
        /\ hashDirs' \subseteq hashDirs \cup ImportDigest
    BY <1>1, <1>2, <1>4 DEF ImportStage, Moved, Answered, At
  <2>2. imp' = [imp EXCEPT ![i] = MovedOn(imp[i], "discarding", imp[i].answer)]
    BY <1>4, Moving
  <2> QED BY <1>1, <1>2, <2>1, <2>2, StepMoves DEF Answers
<1>5. CASE imp' = [imp EXCEPT ![i].answer = Failure(i), ![i].step = "answering"]
                /\ partials' \subseteq partials /\ i \notin partials'
  <2>1. Failure(i) \in Answers /\ Failure(i) \in {"FAILED", "CANCELLED", "REJECTED"}
        /\ hashDirs' \subseteq hashDirs \cup ImportDigest
    BY <1>1, <1>2 DEF ImportStage, Answers
  <2>2. imp' = [imp EXCEPT ![i] = MovedOn(imp[i], "answering", Failure(i))]
    BY <1>5 DEF MovedOn
  <2> QED BY <1>1, <1>2, <1>5, <2>1, <2>2, StepMoves
<1> QED BY <1>1, <1>2, <1>3, <1>4, <1>5 DEF ImportStage, Moved, Answered, At


LEMMA ParseKeeps ==
  ASSUME ImportInv, NEW i \in Importer, ImportParse(i)
  PROVE  ImportInv'
<1> USE DEF ImportSteps, Published, AtItsEnd, BeforePublishing, WithPartial
<1>1. imp[i].step = "parsing" /\ UNCHANGED <<onDisk, storedName, artifacts, attempts>>
  BY DEF ImportParse, At
<1>2. /\ imp[i].answer \in Answers /\ Failure(i) \in {"FAILED", "CANCELLED"}
      /\ (i \in partials => imp[i].step \in WithPartial)
  BY RequestFacts
<1>3. CASE imp' = [imp EXCEPT ![i].step = "looking"]
  <2>1. partials' \subseteq partials \cup {i} /\ (i \in partials' => "looking" \in WithPartial)
        /\ hashDirs' \subseteq hashDirs \cup ImportDigest
    BY <1>1, <1>2, <1>3 DEF ImportParse, Moved, Answered, At
  <2>2. imp' = [imp EXCEPT ![i] = MovedOn(imp[i], "looking", imp[i].answer)]
    BY <1>3, Moving
  <2> QED BY <1>1, <1>2, <2>1, <2>2, StepMoves DEF Answers
<1>4. CASE imp' = [imp EXCEPT ![i].step = "discarding"]
  <2>1. partials' \subseteq partials \cup {i} /\ (i \in partials' => "discarding" \in WithPartial)
        /\ hashDirs' \subseteq hashDirs \cup ImportDigest
    BY <1>1, <1>2, <1>4 DEF ImportParse, Moved, Answered, At
  <2>2. imp' = [imp EXCEPT ![i] = MovedOn(imp[i], "discarding", imp[i].answer)]
    BY <1>4, Moving
  <2> QED BY <1>1, <1>2, <2>1, <2>2, StepMoves DEF Answers
<1> QED BY <1>1, <1>2, <1>3, <1>4 DEF ImportParse, Moved, Answered, At


LEMMA DiscardKeeps ==
  ASSUME ImportInv, NEW i \in Importer, ImportDiscard(i)
  PROVE  ImportInv'
<1> USE DEF ImportSteps, Published, AtItsEnd, BeforePublishing, WithPartial
<1>1. imp[i].step = "discarding" /\ UNCHANGED <<onDisk, storedName, artifacts, attempts>>
  BY DEF ImportDiscard, At
<1>2. /\ imp[i].answer \in Answers /\ Failure(i) \in {"FAILED", "CANCELLED"}
      /\ (i \in partials => imp[i].step \in WithPartial)
  BY RequestFacts
<1>3. CASE imp' = [imp EXCEPT ![i].answer = Failure(i), ![i].step = "answering"]
                /\ partials' \subseteq partials /\ i \notin partials'
  <2>1. Failure(i) \in Answers /\ Failure(i) \in {"FAILED", "CANCELLED", "REJECTED"}
        /\ hashDirs' \subseteq hashDirs \cup ImportDigest
    BY <1>1, <1>2 DEF ImportDiscard, Answers
  <2>2. imp' = [imp EXCEPT ![i] = MovedOn(imp[i], "answering", Failure(i))]
    BY <1>3 DEF MovedOn
  <2> QED BY <1>1, <1>2, <1>3, <2>1, <2>2, StepMoves
<1> QED BY <1>1, <1>2, <1>3 DEF ImportDiscard, Moved, Answered, At


LEMMA RemoveDirKeeps ==
  ASSUME ImportInv, NEW i \in Importer, ImportRemoveDir(i)
  PROVE  ImportInv'
<1> USE DEF ImportSteps, Published, AtItsEnd, BeforePublishing, WithPartial
<1>1. imp[i].step = "removing" /\ UNCHANGED <<onDisk, storedName, artifacts, attempts>>
  BY DEF ImportRemoveDir, At
<1>2. /\ imp[i].answer \in Answers /\ Failure(i) \in {"FAILED", "CANCELLED"}
      /\ (i \in partials => imp[i].step \in WithPartial)
  BY RequestFacts
<1>3. CASE imp' = [imp EXCEPT ![i].step = "discarding"]
  <2>1. partials' \subseteq partials \cup {i} /\ (i \in partials' => "discarding" \in WithPartial)
        /\ hashDirs' \subseteq hashDirs \cup ImportDigest
    BY <1>1, <1>2, <1>3 DEF ImportRemoveDir, Moved, Answered, At
  <2>2. imp' = [imp EXCEPT ![i] = MovedOn(imp[i], "discarding", imp[i].answer)]
    BY <1>3, Moving
  <2> QED BY <1>1, <1>2, <2>1, <2>2, StepMoves DEF Answers
<1> QED BY <1>1, <1>2, <1>3 DEF ImportRemoveDir, Moved, Answered, At

LEMMA AnswerKeeps ==
  ASSUME ImportInv, NEW i \in Importer, ImportAnswer(i)
  PROVE  ImportInv'
<1> DEFINE step == IF imp[i].route = "import" THEN "cleaning" ELSE "done"
           answer == IF imp[i].route = "unity" /\ imp[i].outer THEN "CANCELLED" ELSE imp[i].answer
<1>1. /\ imp[i].step = "answering" /\ imp[i].answer \in Answers
      /\ (i \in partials => imp[i].step \in WithPartial)
      /\ UNCHANGED <<onDisk, hashDirs, partials, storedName, artifacts, attempts>>
      /\ imp' = [imp EXCEPT ![i].answer = answer, ![i].step = step]
  BY RequestFacts DEF ImportAnswer, At
<1>2. /\ step \in ImportSteps /\ step \in {"cleaning", "done"} /\ answer \in Answers
      /\ i \notin partials
      /\ answer = imp[i].answer \/ (imp[i].route = "unity" /\ answer = "CANCELLED")
  BY <1>1 DEF ImportSteps, Answers, WithPartial
<1>3. imp' = [imp EXCEPT ![i] = MovedOn(imp[i], step, answer)]
  BY <1>1 DEF MovedOn
<1> HIDE DEF step, answer
<1> QED BY <1>1, <1>2, <1>3, StepMoves DEF Published, AtItsEnd

Begun(step, r, k, n, d) ==
  [NoImport EXCEPT !.step = step, !.route = r, !.kind = k, !.name = n, !.sum = d]

LEMMA BegunFields ==
  ASSUME NEW step \in {"uploaded", "executing", "validating"}, NEW r \in ImportRoute,
         NEW k \in ImportKind, NEW n \in ImportName, NEW d \in ImportDigest
  PROVE  LET new == Begun(step, r, k, n, d) IN
         /\ new \in ImportRecord /\ new.step = step /\ new.sum = d /\ new.name = n
         /\ ~new.created /\ new.answer = "none"
<1> DEFINE new == Begun(step, r, k, n, d)
<1>1. /\ new.step = step /\ new.sum = d /\ new.name = n
      /\ ~new.created /\ new.answer = "none"
  BY DEF Begun, NoImport
<1>2. /\ step \in ImportSteps /\ NoName \in ImportName \cup {NoName} /\ "none" \in Answers
  BY DEF ImportSteps, Answers
<1>3. new \in ImportRecord
  BY <1>2 DEF Begun, NoImport, ImportRecord
<1> QED BY <1>1, <1>3

\* A request begins with what it was given, and nothing of it is anywhere yet.
LEMMA BeginsSoundly ==
  ASSUME ImportInv, NEW i \in Importer, imp[i].step = "idle",
         NEW step \in {"uploaded", "executing", "validating"}, NEW r \in ImportRoute,
         NEW k \in ImportKind, NEW n \in ImportName, NEW d \in ImportDigest,
         imp' = [imp EXCEPT ![i] = Begun(step, r, k, n, d)],
         UNCHANGED <<onDisk, hashDirs, partials, storedName, artifacts, attempts>>
  PROVE  ImportInv'
<1> DEFINE new == Begun(step, r, k, n, d)
<1>2. new \in ImportRecord /\ new.step = step /\ new.sum = d /\ new.name = n /\ ~new.created
      /\ new.answer = "none"
  BY BegunFields
<1>3. imp' = [imp EXCEPT ![i] = new] /\ imp'[i] = new
  <2> HIDE DEF ImportRecord
  <2> QED BY DEF ImportInv
<1>4. ImportIsSound(i) /\ i \notin partials /\ <<i, "PUBLISHED">> \notin attempts
  BY RequestFacts DEF ImportIsSound, WithPartial, AtItsEnd
<1>5. ImportIsSound(i)'
  <2> HIDE DEF ImportRecord, new
  <2> QED BY <1>2, <1>3, <1>4 DEF ImportIsSound, Published, AtItsEnd
<1>6. ~imp[i].created
  BY <1>4 DEF ImportIsSound, Published, AtItsEnd
<1>7. MovesSoundly(i)
  <2> HIDE DEF ImportRecord
  <2> QED BY <1>2, <1>3, <1>5, <1>6 DEF MovesSoundly, Withdrew
<1> HIDE DEF ImportRecord, new
<1> QED BY <1>2, <1>3, <1>4, <1>7, RequestKeeps DEF ImportInv

LEMMA BeginKeeps ==
  ASSUME ImportInv, NEW i \in Importer, ImportUpload(i) \/ ImportBuild(i)
  PROVE  ImportInv'
<1>1. imp[i].step = "idle"
      /\ UNCHANGED <<onDisk, hashDirs, partials, storedName, artifacts, attempts>>
  BY DEF ImportUpload, ImportBuild, At
<1>2. CASE \E k \in ImportKind, n \in ImportName, d \in ImportDigest :
             imp' = [imp EXCEPT ![i] = Begun("uploaded", "import", k, n, d)]
  <2>1. PICK k \in ImportKind, n \in ImportName, d \in ImportDigest :
             imp' = [imp EXCEPT ![i] = Begun("uploaded", "import", k, n, d)]
    BY <1>2
  <2>2. "import" \in ImportRoute
    BY DEF ImportRoute
  <2> QED BY <1>1, <2>1, <2>2, BeginsSoundly
<1>3. CASE imp' = [imp EXCEPT ![i].answer = "REJECTED", ![i].step = "done"]
  <2>1. i \notin partials
    BY <1>1, RequestFacts DEF WithPartial
  <2>2. imp' = [imp EXCEPT ![i] = MovedOn(imp[i], "done", "REJECTED")]
    BY <1>3 DEF MovedOn
  <2> QED BY <1>1, <2>1, <2>2, StepMoves DEF Answers, ImportSteps, Published, AtItsEnd
<1>4. CASE ImportBuild(i)
  <2>1. PICK k \in ImportKind, n \in ImportName, d \in ImportDigest, r \in {"build", "unity"} :
          imp' = [imp EXCEPT ![i] =
                    Begun(IF r = "unity" THEN "executing" ELSE "validating", r, k, n, d)]
    BY <1>4 DEF ImportBuild, Begun
  <2> DEFINE step == IF r = "unity" THEN "executing" ELSE "validating"
  <2>2. r \in ImportRoute /\ step \in {"uploaded", "executing", "validating"}
    BY DEF ImportRoute
  <2>3. imp' = [imp EXCEPT ![i] = Begun(step, r, k, n, d)]
    BY <2>1
  <2> HIDE DEF step
  <2> QED BY <1>1, <2>2, <2>3, BeginsSoundly
<1>5. ASSUME ImportUpload(i) PROVE ImportInv'
  <2>1. PICK k \in ImportKind, n \in ImportName, d \in ImportDigest :
          \/ imp' = [imp EXCEPT ![i] =
                       [NoImport EXCEPT !.step = "uploaded", !.route = "import",
                                        !.kind = k, !.name = n, !.sum = d]]
          \/ Answered(i, "REJECTED", "done")
    BY <1>5 DEF ImportUpload
  <2>2. \/ imp' = [imp EXCEPT ![i] = Begun("uploaded", "import", k, n, d)]
        \/ imp' = [imp EXCEPT ![i].answer = "REJECTED", ![i].step = "done"]
    BY <2>1 DEF Answered, Begun
  <2> QED BY <1>2, <1>3, <2>2
<1> QED BY <1>4, <1>5

LEMMA CancelKeeps ==
  ASSUME ImportInv, NEW i \in Importer, ImportCancel(i)
  PROVE  ImportInv'
<1> DEFINE outer == imp[i].route = "unity"
           inner == \/ imp[i].route # "unity"
                    \/ imp[i].step \notin {"executing", "validating"}
           old == imp[i]
           new == [old EXCEPT !.outer = outer, !.inner = inner]
<1>1. /\ imp' = [imp EXCEPT ![i].outer = outer, ![i].inner = inner]
      /\ UNCHANGED <<onDisk, hashDirs, partials, storedName, artifacts, attempts>>
  BY DEF ImportCancel
<1>2. outer \in BOOLEAN /\ inner \in BOOLEAN /\ old \in ImportRecord /\ ImportIsSound(i)
  BY RequestFacts
<1>3. /\ new \in ImportRecord
      /\ new.step = old.step /\ new.answer = old.answer /\ new.route = old.route
      /\ new.sum = old.sum /\ new.name = old.name /\ new.file = old.file
      /\ new.created = old.created
  <2> HIDE DEF outer, inner, old
  <2> QED BY <1>2 DEF ImportRecord
<1>4. imp' = [imp EXCEPT ![i] = new] /\ imp'[i] = new
  <2>1. imp' = [imp EXCEPT ![i] = new]
    BY <1>1
  <2> HIDE DEF ImportRecord, new
  <2> QED BY <1>3, <2>1 DEF ImportInv
<1> HIDE DEF new, outer, inner, ImportRecord
<1>5. ImportIsSound(i)'
  BY <1>1, <1>2, <1>3, <1>4 DEF ImportIsSound
<1>6. MovesSoundly(i)
  BY <1>1, <1>3, <1>4, <1>5 DEF MovesSoundly, Withdrew
<1>7. imp'[i].step = "cataloguing" => There(imp[i].sum, imp[i].file)
  BY <1>3, <1>4 DEF ImportInv
<1>8. /\ imp' \in [Importer -> ImportRecord] /\ hashDirs' \subseteq ImportDigest
      /\ partials' \subseteq Importer
      /\ \A k \in Importer : ImportIsSound(k)'
      /\ \A d, n : There(d, n) => There(d, n)'
      /\ \A k \in Importer \ {i} :
           imp'[k].step = "cataloguing" => There(imp[k].sum, imp[k].file)'
  BY <1>1, <1>6, OthersMove DEF ImportInv
<1>9. imp'[i].step = "cataloguing" => There(imp[i].sum, imp[i].file)'
  <2>1. \A d, n : d = imp[i].sum /\ n = imp[i].file /\ There(d, n) => There(d, n)'
    BY <1>8
  <2>2. imp'[i].sum = imp[i].sum /\ imp'[i].file = imp[i].file
    BY <1>3, <1>4
  <2> QED BY <1>7, <2>1, <2>2 DEF There, Withdrew
<1>10. ASSUME NEW d \in ImportDigest, storedName'[d] # NoName
       PROVE  There(d, storedName[d])'
  <2>1. There(d, storedName[d]) /\ storedName' = storedName
    BY <1>1, <1>10 DEF ImportInv
  <2>2. \A n : n = storedName[d] => There(d, n)'
    BY <1>8, <2>1
  <2> QED BY <2>1, <2>2 DEF There, Withdrew
<1> QED BY <1>1, <1>8, <1>9, <1>10 DEF ImportInv

\* A file of the request's digest becomes the one it is about to catalogue.
FiledAs(old, n, c) == [old EXCEPT !.file = n, !.created = c, !.step = "cataloguing"]

LEMMA FileKeeps ==
  ASSUME ImportInv, NEW i \in Importer, NEW n \in ImportName, NEW c \in BOOLEAN,
         imp[i].step \in {"looking", "renaming"},
         imp' = [imp EXCEPT ![i] = FiledAs(imp[i], n, c)],
         partials' = partials \ {i}, <<imp[i].sum, n>> \in onDisk',
         onDisk \subseteq onDisk', onDisk' \subseteq ImportDigest \X ImportName,
         hashDirs' \subseteq hashDirs \cup ImportDigest,
         UNCHANGED <<storedName, artifacts, attempts>>
  PROVE  ImportInv'
<1> DEFINE old == imp[i]
           new == FiledAs(old, n, c)
<1>1. old \in ImportRecord /\ ImportIsSound(i)
  BY RequestFacts
<1>2. /\ new \in ImportRecord /\ new.step = "cataloguing" /\ new.sum = old.sum
      /\ new.name = old.name /\ new.file = n /\ new.answer = old.answer
  <2> HIDE DEF old
  <2> QED BY <1>1 DEF ImportRecord, ImportSteps, FiledAs
<1>3. imp' = [imp EXCEPT ![i] = new] /\ imp'[i] = new
  <2>1. imp' = [imp EXCEPT ![i] = new]
    OBVIOUS
  <2> HIDE DEF ImportRecord, new
  <2> QED BY <1>2, <2>1 DEF ImportInv
<1> HIDE DEF new
<1>4. /\ old.sum \in ImportDigest /\ old.name \in ImportName
      /\ old.answer \notin {"CREATED", "DEDUPLICATED"} /\ ~old.created
      /\ <<i, "PUBLISHED">> \notin attempts
  BY <1>1 DEF ImportIsSound, Published, AtItsEnd
<1>5. ImportIsSound(i)'
  <2> HIDE DEF ImportRecord
  <2> QED BY <1>2, <1>3, <1>4 DEF ImportIsSound, Published
<1>6. MovesSoundly(i)
  <2> HIDE DEF ImportRecord
  <2> QED BY <1>2, <1>3, <1>4, <1>5 DEF MovesSoundly, Withdrew
<1> HIDE DEF ImportRecord
<1> QED BY <1>2, <1>3, <1>4, <1>6, RequestKeeps

LEMMA ReuseKeeps ==
  ASSUME ImportInv, NEW i \in Importer, NEW f \in FilesOf(imp[i].sum), Reuse(i, f),
         imp[i].step \in {"looking", "renaming"}, hashDirs' \subseteq hashDirs \cup ImportDigest,
         UNCHANGED <<onDisk, storedName, artifacts, attempts>>
  PROVE  ImportInv'
<1>1. f \in onDisk /\ f[1] = imp[i].sum /\ onDisk \subseteq ImportDigest \X ImportName
  BY DEF FilesOf, ImportInv
<1>2. f = <<imp[i].sum, f[2]>> /\ f[2] \in ImportName
  BY <1>1
<1>3. imp' = [imp EXCEPT ![i] = FiledAs(imp[i], f[2], FALSE)] /\ partials' = partials \ {i}
  BY DEF Reuse, FiledAs
<1>4. <<imp[i].sum, f[2]>> \in onDisk' /\ onDisk \subseteq onDisk'
      /\ onDisk' \subseteq ImportDigest \X ImportName
  BY <1>1, <1>2
<1> QED BY <1>2, <1>3, <1>4, FileKeeps

LEMMA LookKeeps ==
  ASSUME ImportInv, NEW i \in Importer, ImportLook(i)
  PROVE  ImportInv'
<1>1. imp[i].step = "looking" /\ hashDirs' = hashDirs \cup {imp[i].sum}
      /\ UNCHANGED <<onDisk, storedName, artifacts, attempts>>
  BY DEF ImportLook, At
<1>2. imp[i].sum \in ImportDigest /\ imp[i].answer \in Answers
  BY <1>1, RequestFacts DEF ImportIsSound
<1>3. CASE imp' = [imp EXCEPT ![i].step = "renaming"] /\ UNCHANGED partials
  <2>1. "renaming" \in ImportSteps
    BY DEF ImportSteps
  <2>2. imp' = [imp EXCEPT ![i] = MovedOn(imp[i], "renaming", imp[i].answer)]
    BY <1>3, <2>1, Moving
  <2>3. hashDirs' \subseteq hashDirs \cup ImportDigest
        /\ partials' \subseteq partials \cup {i}
    BY <1>1, <1>2, <1>3
  <2> QED BY <1>1, <1>2, <2>1, <2>2, <2>3, StepMoves
          DEF Published, AtItsEnd, BeforePublishing, WithPartial
<1>4. CASE \E f \in FilesOf(imp[i].sum) : Reuse(i, f)
  BY <1>1, <1>2, <1>4, ReuseKeeps
<1> QED BY <1>3, <1>4 DEF ImportLook, Moved

LEMMA RenameKeeps ==
  ASSUME ImportInv, NEW i \in Importer, ImportRename(i)
  PROVE  ImportInv'
<1>1. imp[i].step = "renaming"
      /\ UNCHANGED <<hashDirs, storedName, artifacts, attempts>>
  BY DEF ImportRename, At
<1>2. imp[i].sum \in ImportDigest /\ imp[i].name \in ImportName /\ imp[i].answer \in Answers
      /\ onDisk \subseteq ImportDigest \X ImportName
  BY <1>1, RequestFacts DEF ImportIsSound, ImportInv
<1>3. CASE /\ onDisk' = onDisk \cup {<<imp[i].sum, imp[i].name>>}
           /\ partials' = partials \ {i}
           /\ imp' = [imp EXCEPT ![i].file = imp[i].name, ![i].created = TRUE,
                                 ![i].step = "cataloguing"]
  <2>1. hashDirs' \subseteq hashDirs \cup ImportDigest /\ TRUE \in BOOLEAN
        /\ onDisk \subseteq onDisk' /\ onDisk' \subseteq ImportDigest \X ImportName
        /\ <<imp[i].sum, imp[i].name>> \in onDisk'
    BY <1>1, <1>2, <1>3
  <2>2. imp' = [imp EXCEPT ![i] = FiledAs(imp[i], imp[i].name, TRUE)]
    BY <1>3 DEF FiledAs
  <2> QED BY <1>1, <1>2, <1>3, <2>1, <2>2, FileKeeps
<1>4. CASE UNCHANGED onDisk /\ \E f \in FilesOf(imp[i].sum) : Reuse(i, f)
  BY <1>1, <1>4, ReuseKeeps
<1>5. CASE /\ UNCHANGED onDisk /\ partials' = partials \ {i}
           /\ imp' = [imp EXCEPT ![i].step = "discarding"]
  <2>1. "discarding" \in ImportSteps
    BY DEF ImportSteps
  <2>2. imp' = [imp EXCEPT ![i] = MovedOn(imp[i], "discarding", imp[i].answer)]
    BY <1>5, <2>1, Moving
  <2>3. hashDirs' \subseteq hashDirs \cup ImportDigest
        /\ partials' \subseteq partials \cup {i} /\ i \notin partials'
        /\ UNCHANGED onDisk
    BY <1>1, <1>5
  <2> QED BY <1>1, <1>2, <2>1, <2>2, <2>3, StepMoves
          DEF Published, AtItsEnd, BeforePublishing, WithPartial
<1> QED BY <1>3, <1>4, <1>5 DEF ImportRename, Moved

\* The steps around the transaction.
LEMMA CataloguingFacts ==
  ASSUME ImportInv, NEW i \in Importer, imp[i].step \in {"cataloguing", "withdrawing"}
  PROVE  /\ imp[i].sum \in ImportDigest /\ imp[i].name \in ImportName /\ i \notin partials
         /\ imp[i].answer \in Answers /\ imp[i].answer \notin {"CREATED", "DEDUPLICATED"}
         /\ <<i, "PUBLISHED">> \notin attempts
         /\ \A d : ~Withdrew(i, d)
BY RequestFacts DEF ImportIsSound, AtItsEnd, WithPartial, Withdrew

LEMMA DeduplicateKeeps ==
  ASSUME ImportInv, NEW i \in Importer, ImportDeduplicate(i)
  PROVE  ImportInv'
<1>1. /\ imp[i].step = "cataloguing" /\ attempts' = attempts \cup {<<i, "DEDUPLICATED">>}
      /\ imp' = [imp EXCEPT ![i].answer = "DEDUPLICATED", ![i].step = "answering"]
      /\ UNCHANGED <<onDisk, hashDirs, partials, storedName, artifacts>>
  BY DEF ImportDeduplicate, At, Answered
<1>2. /\ imp[i].sum \in ImportDigest /\ imp[i].name \in ImportName /\ i \notin partials
      /\ <<i, "PUBLISHED">> \notin attempts /\ \A d : ~Withdrew(i, d)
  BY <1>1, CataloguingFacts
<1>3. /\ "answering" \in ImportSteps /\ "DEDUPLICATED" \in Answers
  BY DEF ImportSteps, Answers
<1>4. imp' = [imp EXCEPT ![i] = MovedOn(imp[i], "answering", "DEDUPLICATED")]
  BY <1>1 DEF MovedOn
<1>5. /\ \E record : imp' = [imp EXCEPT ![i] = record]
      /\ imp'[i] \in ImportRecord /\ imp'[i].step = "answering"
      /\ imp'[i].answer = "DEDUPLICATED"
      /\ imp'[i].sum = imp[i].sum /\ imp'[i].name = imp[i].name
  BY <1>3, <1>4, RequestMoves
<1> HIDE DEF ImportRecord
<1>6. \A k : <<k, "PUBLISHED">> \in attempts' => <<k, "PUBLISHED">> \in attempts
  BY <1>1
<1>7. ImportIsSound(i)'
  BY <1>1, <1>2, <1>5, <1>6 DEF ImportIsSound, Published, AtItsEnd
<1>8. MovesSoundly(i)
  BY <1>1, <1>2, <1>5, <1>7 DEF MovesSoundly
<1> QED BY <1>1, <1>2, <1>5, <1>6, <1>8, RequestKeeps DEF ImportInv

LEMMA InsertFailsKeeps ==
  ASSUME ImportInv, NEW i \in Importer, ImportInsertFails(i)
  PROVE  ImportInv'
<1>1. /\ imp[i].step = "cataloguing" /\ attempts' = attempts \cup {<<i, "FAILED">>}
      /\ imp' = [imp EXCEPT ![i].step = "withdrawing"]
      /\ UNCHANGED <<onDisk, hashDirs, partials, storedName, artifacts>>
  BY DEF ImportInsertFails, At, Moved
<1>2. /\ imp[i].sum \in ImportDigest /\ imp[i].name \in ImportName /\ i \notin partials
      /\ imp[i].answer \in Answers /\ imp[i].answer \notin {"CREATED", "DEDUPLICATED"}
      /\ <<i, "PUBLISHED">> \notin attempts /\ \A d : ~Withdrew(i, d)
  BY <1>1, CataloguingFacts
<1>3. "withdrawing" \in ImportSteps
  BY DEF ImportSteps
<1>4. imp' = [imp EXCEPT ![i] = MovedOn(imp[i], "withdrawing", imp[i].answer)]
  BY <1>1, <1>3, Moving
<1>5. /\ \E record : imp' = [imp EXCEPT ![i] = record]
      /\ imp'[i] \in ImportRecord /\ imp'[i].step = "withdrawing"
      /\ imp'[i].answer = imp[i].answer
      /\ imp'[i].sum = imp[i].sum /\ imp'[i].name = imp[i].name
  BY <1>2, <1>3, <1>4, RequestMoves
<1> HIDE DEF ImportRecord
<1>6. \A k : <<k, "PUBLISHED">> \in attempts' => <<k, "PUBLISHED">> \in attempts
  BY <1>1
<1>7. ImportIsSound(i)'
  BY <1>1, <1>2, <1>5, <1>6 DEF ImportIsSound, Published, AtItsEnd
<1>8. MovesSoundly(i)
  BY <1>1, <1>2, <1>5, <1>7 DEF MovesSoundly
<1> QED BY <1>1, <1>2, <1>5, <1>6, <1>8, RequestKeeps DEF ImportInv

LEMMA WithdrawKeeps ==
  ASSUME ImportInv, NEW i \in Importer, ImportWithdraw(i)
  PROVE  ImportInv'
<1> DEFINE step == IF imp[i].created THEN "removing" ELSE "discarding"
<1>1. /\ imp[i].step = "withdrawing" /\ onDisk' = onDisk \ Withdrawn(i)
      /\ imp' = [imp EXCEPT ![i].step = step]
      /\ UNCHANGED <<hashDirs, partials, storedName, artifacts, attempts>>
  BY DEF ImportWithdraw, At, Moved
<1>2. /\ imp[i].sum \in ImportDigest /\ imp[i].name \in ImportName /\ i \notin partials
      /\ imp[i].answer \in Answers /\ imp[i].answer \notin {"CREATED", "DEDUPLICATED"}
      /\ <<i, "PUBLISHED">> \notin attempts /\ \A d : ~Withdrew(i, d)
  BY <1>1, CataloguingFacts
<1>3. step \in ImportSteps /\ step \in {"removing", "discarding"}
  BY DEF ImportSteps
<1>4. imp' = [imp EXCEPT ![i] = MovedOn(imp[i], step, imp[i].answer)]
  BY <1>1, <1>3, Moving
<1>5. /\ \E record : imp' = [imp EXCEPT ![i] = record]
      /\ imp'[i] \in ImportRecord /\ imp'[i].step = step
      /\ imp'[i].answer = imp[i].answer /\ imp'[i].created = imp[i].created
      /\ imp'[i].sum = imp[i].sum /\ imp'[i].name = imp[i].name
  <2> HIDE DEF step
  <2> QED BY <1>2, <1>3, <1>4, RequestMoves
<1> HIDE DEF ImportRecord, step
<1>6. ImportIsSound(i)'
  BY <1>1, <1>2, <1>3, <1>5 DEF ImportIsSound, Published, AtItsEnd
<1>7. MovesSoundly(i)
  BY <1>1, <1>2, <1>5, <1>6 DEF MovesSoundly
<1>8. ASSUME NEW d, NEW n, <<d, n>> \in onDisk, <<d, n>> \notin onDisk'
      PROVE  Withdrew(i, d)'
  <2>1. imp[i].created /\ d = imp[i].sum
    BY <1>1, <1>8 DEF Withdrawn
  <2> QED BY <1>2, <1>3, <1>5, <2>1 DEF Withdrew
<1>9. onDisk' \subseteq ImportDigest \X ImportName
  BY <1>1 DEF ImportInv
<1>10. imp'[i].step # "cataloguing"
  BY <1>3, <1>5
<1> QED BY <1>1, <1>2, <1>7, <1>8, <1>9, <1>10, RequestKeeps

LEMMA InsertKeeps ==
  ASSUME ImportInv, NEW i \in Importer, ImportInsert(i)
  PROVE  ImportInv'
<1> DEFINE sum == imp[i].sum  file == imp[i].file
<1>1. /\ imp[i].step = "cataloguing" /\ attempts' = attempts \cup {<<i, "PUBLISHED">>}
      /\ imp' = [imp EXCEPT ![i].answer = "CREATED", ![i].step = "answering"]
      /\ storedName' = [storedName EXCEPT ![sum] = file]
      /\ artifacts' = artifacts \cup {<<imp[i].kind, sum>>}
      /\ UNCHANGED <<onDisk, hashDirs, partials>>
  BY DEF ImportInsert, At, Answered
<1>2. /\ sum \in ImportDigest /\ imp[i].name \in ImportName /\ i \notin partials
      /\ \A d : ~Withdrew(i, d)
  BY <1>1, CataloguingFacts
<1>3. /\ "answering" \in ImportSteps /\ "CREATED" \in Answers
  BY DEF ImportSteps, Answers
<1>4. imp' = [imp EXCEPT ![i] = MovedOn(imp[i], "answering", "CREATED")]
  BY <1>1 DEF MovedOn
<1>5. /\ \E record : imp' = [imp EXCEPT ![i] = record]
      /\ imp'[i] \in ImportRecord /\ imp'[i].step = "answering"
      /\ imp'[i].answer = "CREATED"
      /\ imp'[i].sum = imp[i].sum /\ imp'[i].name = imp[i].name
  BY <1>3, <1>4, RequestMoves
<1>6. /\ imp[i].kind \in ImportKind /\ file \in ImportName /\ There(sum, file)
  BY <1>1, RequestFacts DEF ImportIsSound, ImportRecord, ImportInv
<1> HIDE DEF ImportRecord
<1>7. \A k \in Importer \ {i} : <<k, "PUBLISHED">> \in attempts' => <<k, "PUBLISHED">> \in attempts
  BY <1>1
<1>8. ImportIsSound(i)'
  BY <1>1, <1>2, <1>5 DEF ImportIsSound, Published, AtItsEnd
<1>9. MovesSoundly(i)
  BY <1>1, <1>2, <1>5, <1>8 DEF MovesSoundly
<1>10. /\ imp' \in [Importer -> ImportRecord] /\ hashDirs' \subseteq ImportDigest
       /\ partials' \subseteq Importer
       /\ \A k \in Importer : ImportIsSound(k)'
       /\ \A d, n : There(d, n) => There(d, n)'
       /\ \A k \in Importer \ {i} :
            imp'[k].step = "cataloguing" => There(imp[k].sum, imp[k].file)'
  BY <1>1, <1>7, <1>9, OthersMove DEF ImportInv
<1>11. storedName' \in [ImportDigest -> ImportName \cup {NoName}]
       /\ artifacts' \subseteq ImportKind \X ImportDigest
  BY <1>1, <1>2, <1>6 DEF ImportInv
<1>12. ASSUME NEW d \in ImportDigest, storedName'[d] # NoName
       PROVE  There(d, storedName[d])'
  <2>1. There(d, storedName'[d])
    BY <1>1, <1>2, <1>6, <1>12 DEF ImportInv
  <2>2. \A n : n = storedName'[d] /\ There(d, n) => There(d, n)'
    BY <1>10
  <2> QED BY <2>1, <2>2 DEF There, Withdrew
<1>13. \A k \in Importer : imp'[k].step = "cataloguing" => There(imp[k].sum, imp[k].file)'
  BY <1>5, <1>10
<1> QED BY <1>1, <1>10, <1>11, <1>12, <1>13 DEF ImportInv

LEMMA ImportCrashKeeps == ImportInv /\ ImportCrash => ImportInv'
<1> SUFFICES ASSUME ImportInv, ImportCrash PROVE ImportInv'
  OBVIOUS
<1>1. /\ imp' = [i \in Importer |-> IF imp[i].step \in {"idle", "done"} THEN imp[i]
                                    ELSE [imp[i] EXCEPT !.step = "crashed"]]
      /\ UNCHANGED <<onDisk, hashDirs, partials, storedName, artifacts, attempts>>
  BY DEF ImportCrash
<1>2. ASSUME NEW i \in Importer
      PROVE  /\ imp'[i] \in ImportRecord /\ imp'[i].sum = imp[i].sum /\ imp'[i].name = imp[i].name
             /\ imp'[i].created = imp[i].created /\ imp'[i].answer = imp[i].answer
             /\ imp'[i].route = imp[i].route
             /\ \/ imp'[i].step \in {"idle", "done"} /\ imp'[i] = imp[i]
                \/ imp'[i].step = "crashed"
  <2>1. imp[i] \in ImportRecord
    BY RequestFacts
  <2>2. imp'[i] = IF imp[i].step \in {"idle", "done"} THEN imp[i]
                  ELSE [imp[i] EXCEPT !.step = "crashed"]
    BY <1>1
  <2> QED BY <2>1, <2>2 DEF ImportRecord, ImportSteps
<1> HIDE DEF ImportRecord
<1>3. imp' \in [Importer -> ImportRecord]
  BY <1>1, <1>2
<1>4. ASSUME NEW i \in Importer PROVE ImportIsSound(i)'
  <2>1. ImportIsSound(i)
    BY DEF ImportInv
  <2>2. CASE imp'[i] = imp[i]
    BY <1>1, <2>1, <2>2 DEF ImportIsSound
  <2>3. CASE imp'[i].step = "crashed" /\ imp'[i] # imp[i]
    <3>1. imp[i].step \notin {"idle", "done"}
      BY <1>1, <2>3
    <3> QED BY <1>1, <1>2, <2>1, <2>3, <3>1
            DEF ImportIsSound, AtItsEnd, WithPartial, Published
  <2> QED BY <1>2, <2>2, <2>3
<1>5. ASSUME NEW d, NEW n, There(d, n) PROVE There(d, n)'
  BY <1>1, <1>2, <1>5 DEF There, Withdrew
<1>6. ASSUME NEW d \in ImportDigest, storedName'[d] # NoName
      PROVE  There(d, storedName[d])'
  <2>1. There(d, storedName[d]) /\ storedName' = storedName
    BY <1>1, <1>6 DEF ImportInv
  <2>2. \A n : n = storedName[d] => There(d, n)'
    BY <1>5, <2>1
  <2> QED BY <2>1, <2>2 DEF There, Withdrew
<1>7. \A i \in Importer : imp'[i].step # "cataloguing"
  BY <1>2
<1> QED BY <1>1, <1>3, <1>4, <1>6, <1>7 DEF ImportInv

LEMMA ImportInvStep == ImportInv /\ ImportNext => ImportInv'
BY ImportCrashKeeps, BeginKeeps, MakeSourceKeeps, MoveUploadKeeps, CleanKeeps,
   ListSourceKeeps, RemoveSourceKeeps, AnswerKeeps, ExecuteKeeps, ValidateKeeps,
   OpenKeeps, StageKeeps, ParseKeeps, DiscardKeeps, CancelKeeps, LookKeeps,
   RenameKeeps, WithdrawKeeps, RemoveDirKeeps, DeduplicateKeeps, InsertKeeps,
   InsertFailsKeeps DEF ImportNext

LEMMA ImportIsTrue == ImportInv => ImportsAreClean
<1> SUFFICES ASSUME ImportInv PROVE ImportsAreClean
  OBVIOUS
<1>1. \A i \in Importer : imp[i] \in ImportRecord /\ ImportIsSound(i)
  BY RequestFacts
<1>2. ImportTypeOK
  BY <1>1 DEF ImportInv, ImportTypeOK, ImportRecord, Answers
<1>3. FilesAreLostOnlyByWithdrawal
  BY DEF ImportInv, There, Withdrew, FilesAreLostOnlyByWithdrawal
<1>4. AnsweredLeavesNoPartial /\ CancelledCataloguedNothing
  BY <1>1 DEF AnsweredLeavesNoPartial, CancelledCataloguedNothing, ImportIsSound, WithPartial
<1> QED BY <1>2, <1>3, <1>4 DEF ImportsAreClean
-----------------------------------------------------------------------------
(* The register of devices.  A row is written only with what differs from  *)
(* it, and history and listeners are told of the same changes.             *)
DeviceRow == [state : State \cup {Unlisted}, seq : Nat, fields : SUBSET Field]

HistoryIsTrue(s) ==
  /\ device[s].seq = Len(history[s])
  /\ history[s] # <<>> => history[s][Len(history[s])] = device[s].state
  /\ \A k \in 2..Len(history[s]) : history[s][k] # history[s][k - 1]
  /\ startedAt[s] \in 0..Len(history[s])
  /\ heard[s] = SubSeq(history[s], startedAt[s] + 1, Len(history[s]))

RegistryInv ==
  /\ plugged \in [Serial -> State \cup {Unlisted}] /\ upsets \in 0..MaxUpsets
  /\ overridden \subseteq Serial
  /\ listing \in [Serial -> State \cup {Unlisted}]
  /\ polling \in {"idle", "listed", "ended"}
  /\ device \in [Serial -> DeviceRow]
  /\ history \in [Serial -> Seq(State)] /\ heard \in [Serial -> Seq(State)]
  /\ startedAt \in [Serial -> Nat]
  /\ \A s \in Serial : HistoryIsTrue(s)

LEMMA RegistryInvInit ==
  ASSUME RegistryInit, MaxUpsets \in Nat
  PROVE  RegistryInv
<1>1. plugged \in [Serial -> State \cup {Unlisted}]
  BY DEF RegistryInit, State
<1>2. Unknown \in DeviceRow /\ Unknown.seq = 0
  BY DEF Unknown, DeviceRow
<1>3. device \in [Serial -> DeviceRow]
  <2> HIDE DEF DeviceRow
  <2> QED BY <1>2 DEF RegistryInit
<1>4. listing \in [Serial -> State \cup {Unlisted}]
  BY DEF RegistryInit, NoListing
<1>5. \A s \in Serial : HistoryIsTrue(s)
  <2> SUFFICES ASSUME NEW s \in Serial PROVE HistoryIsTrue(s)
    OBVIOUS
  <2>1. history[s] = <<>> /\ heard[s] = <<>> /\ startedAt[s] = 0 /\ device[s] = Unknown
    BY DEF RegistryInit
  <2>2. SubSeq(<<>>, 1, 0) = <<>>
    OBVIOUS
  <2> QED BY <1>2, <2>1, <2>2 DEF HistoryIsTrue
<1>6. history \in [Serial -> Seq(State)] /\ heard \in [Serial -> Seq(State)]
      /\ startedAt \in [Serial -> Nat]
  BY DEF RegistryInit
<1> QED BY <1>1, <1>3, <1>4, <1>5, <1>6 DEF RegistryInv, RegistryInit

\* A change is appended to the history and to what was heard of it.
LEMMA BothGrow ==
  ASSUME NEW h \in Seq(State), NEW m \in 0..Len(h), NEW e \in State
  PROVE  /\ SubSeq(h, m + 1, Len(h)) \in Seq(State)
         /\ Append(SubSeq(h, m + 1, Len(h)), e) = SubSeq(Append(h, e), m + 1, Len(h) + 1)
<1> DEFINE old == SubSeq(h, m + 1, Len(h))  new == SubSeq(Append(h, e), m + 1, Len(h) + 1)
<1>1. Len(h) \in Nat /\ m + 1 \in Int /\ Len(h) + 1 \in Int
  OBVIOUS
<1>2. \A i \in (m + 1)..Len(h) : h[i] \in State
  BY ElementOfSeq
<1>3. /\ old \in Seq(State)
      /\ Len(old) = IF m + 1 <= Len(h) THEN Len(h) - (m + 1) + 1 ELSE 0
      /\ \A i \in 1..(Len(h) - (m + 1) + 1) : old[i] = h[m + 1 + i - 1]
  BY <1>1, <1>2, SubSeqProperties
<1>4. Append(h, e) \in Seq(State) /\ Len(Append(h, e)) = Len(h) + 1
      /\ (\A i \in 1..Len(h) : Append(h, e)[i] = h[i]) /\ Append(h, e)[Len(h) + 1] = e
  BY AppendProperties
<1>5. \A i \in (m + 1)..(Len(h) + 1) : Append(h, e)[i] \in State
  BY <1>4, ElementOfSeq
<1>6. /\ new \in Seq(State)
      /\ Len(new) = IF m + 1 <= Len(h) + 1 THEN Len(h) + 1 - (m + 1) + 1 ELSE 0
      /\ \A i \in 1..(Len(h) + 1 - (m + 1) + 1) : new[i] = Append(h, e)[m + 1 + i - 1]
  BY <1>1, <1>5, SubSeqProperties
<1>7. Len(old) = Len(h) - m /\ Len(new) = Len(h) - m + 1
  BY <1>1, <1>3, <1>6
<1> HIDE DEF old, new
<1>8. /\ Append(old, e) \in Seq(State) /\ Len(Append(old, e)) = Len(old) + 1
      /\ \A i \in 1..Len(old) : Append(old, e)[i] = old[i]
      /\ Append(old, e)[Len(old) + 1] = e
  BY <1>3, AppendProperties
<1>9. ASSUME NEW i \in 1..Len(new)
      PROVE  Append(old, e)[i] = new[i]
  <2>1. new[i] = Append(h, e)[m + i]
    BY <1>1, <1>6, <1>7
  <2>2. CASE i <= Len(old)
    <3>1. i \in 1..Len(old) /\ old[i] = h[m + i]
      BY <1>1, <1>3, <1>7, <2>2
    <3>2. m + i \in 1..Len(h)
      BY <1>1, <1>7, <2>2
    <3> QED BY <1>4, <1>8, <2>1, <3>1, <3>2
  <2>3. CASE i = Len(old) + 1
    <3>1. m + i = Len(h) + 1
      BY <1>1, <1>7, <2>3
    <3> QED BY <1>4, <1>8, <2>1, <2>3, <3>1
  <2> QED BY <1>1, <1>7, <2>2, <2>3
<1>10. Append(old, e) = new
  BY <1>1, <1>6, <1>7, <1>8, <1>9, SeqEqual
<1> QED BY <1>3, <1>10 DEF old, new

\* What is written of one device keeps its history.
LEMMA RowsWritten ==
  ASSUME RegistryInv, NEW written \in SUBSET Serial, NEW got \in Gotten, WriteRows(written, got),
         UNCHANGED <<plugged, upsets, overridden, startedAt>>
  PROVE  /\ device' \in [Serial -> DeviceRow]
         /\ history' \in [Serial -> Seq(State)] /\ heard' \in [Serial -> Seq(State)]
         /\ \A s \in Serial : HistoryIsTrue(s)'
<1> DEFINE new == [s \in Serial |->
                IF s \in written /\ Observed(s) # Unlisted
                THEN Upserted(device[s], Observed(s), got[s]) ELSE device[s]]
           changed == {s \in written : Observed(s) # Unlisted
                                 /\ StateChanged(device[s], new[s])}
           Extended(log) == [s \in Serial |->
                          IF s \in changed THEN Append(log[s], new[s].state)
                                           ELSE log[s]]
<1>1. /\ device' = new /\ history' = Extended(history) /\ heard' = Extended(heard)
  BY DEF WriteRows
<1>2. ASSUME NEW s \in Serial
      PROVE  /\ device'[s] \in DeviceRow
             /\ history'[s] \in Seq(State) /\ heard'[s] \in Seq(State)
             /\ HistoryIsTrue(s)'
  <2>1. /\ device[s] \in DeviceRow /\ history[s] \in Seq(State) /\ heard[s] \in Seq(State)
        /\ HistoryIsTrue(s) /\ got[s] \in SUBSET Field /\ startedAt'[s] = startedAt[s]
        /\ startedAt[s] \in Nat /\ Len(history[s]) \in Nat
    <3> HIDE DEF DeviceRow
    <3> QED BY DEF RegistryInv, Gotten
  <2>2. Observed(s) \in State \cup {Unlisted}
    BY <2>1 DEF RegistryInv, Observed, DeviceRow, State
  <2>3. device'[s] = new[s] /\ history'[s] = Extended(history)[s]
        /\ heard'[s] = Extended(heard)[s]
    BY <1>1
  <2>4. CASE ~(s \in written /\ Observed(s) # Unlisted)
    <3>1. device'[s] = device[s] /\ history'[s] = history[s] /\ heard'[s] = heard[s]
      BY <2>3, <2>4
    <3> QED BY <2>1, <3>1 DEF HistoryIsTrue
  <2>5. CASE s \in written /\ Observed(s) # Unlisted /\ device[s].state = Observed(s)
    <3>1. device'[s] = Upserted(device[s], Observed(s), got[s])
      BY <2>3, <2>5
    <3>2. /\ device'[s] \in DeviceRow /\ device'[s].state = device[s].state
          /\ device'[s].seq = device[s].seq
      BY <2>1, <2>5, <3>1 DEF Upserted, DeviceRow
    <3>3. new[s].state = device[s].state
      BY <2>3, <3>2
    <3>4. s \notin changed
      BY <3>3 DEF StateChanged
    <3>5. history'[s] = history[s] /\ heard'[s] = heard[s]
      BY <2>3, <3>4
    <3> QED BY <2>1, <3>2, <3>5 DEF HistoryIsTrue
  <2>6. CASE s \in written /\ Observed(s) # Unlisted /\ device[s].state # Observed(s)
    <3> DEFINE e == Observed(s)
    <3>1. device'[s] = Upserted(device[s], e, got[s]) /\ e \in State
      BY <2>2, <2>3, <2>6
    <3>2. /\ device'[s] \in DeviceRow /\ device'[s].state = e
          /\ device'[s].seq = device[s].seq + 1
      BY <2>1, <2>6, <3>1 DEF Upserted, DeviceRow
    <3>3. new[s].state = e
      BY <2>3, <3>2
    <3>4. s \in changed
      BY <2>6, <3>3 DEF StateChanged
    <3>5. history'[s] = Append(history[s], e) /\ heard'[s] = Append(heard[s], e)
      BY <2>3, <3>3, <3>4
    <3> HIDE DEF e, new, changed, DeviceRow
    <3>6. /\ history'[s] \in Seq(State) /\ Len(history'[s]) = Len(history[s]) + 1
          /\ \A k \in 1..Len(history[s]) : history'[s][k] = history[s][k]
          /\ history'[s][Len(history[s]) + 1] = e
      BY <2>1, <3>1, <3>5, AppendProperties
    <3>7. heard'[s] \in Seq(State)
      BY <2>1, <3>1, <3>5, AppendProperties
    <3>8. heard'[s] = SubSeq(history'[s], startedAt'[s] + 1, Len(history'[s]))
      <4>1. heard[s] = SubSeq(history[s], startedAt[s] + 1, Len(history[s]))
            /\ startedAt[s] \in 0..Len(history[s])
        BY <2>1 DEF HistoryIsTrue
      <4> QED BY <2>1, <3>1, <3>5, <3>6, <4>1, BothGrow
    <3>9. ASSUME NEW k \in 2..Len(history'[s]) PROVE history'[s][k] # history'[s][k - 1]
      <4>1. CASE k <= Len(history[s])
        <5>1. k \in 2..Len(history[s]) /\ k \in 1..Len(history[s]) /\ k - 1 \in 1..Len(history[s])
          BY <2>1, <4>1
        <5> QED BY <2>1, <3>6, <5>1 DEF HistoryIsTrue
      <4>2. CASE k = Len(history[s]) + 1
        <5>1. k - 1 = Len(history[s]) /\ k - 1 \in 1..Len(history[s]) /\ history[s] # <<>>
          BY <2>1, <3>6, <4>2
        <5>2. history'[s][k - 1] = device[s].state
          BY <2>1, <3>6, <5>1 DEF HistoryIsTrue
        <5> QED BY <2>6, <3>6, <4>2, <5>2 DEF e
      <4> QED BY <2>1, <3>6, <4>1, <4>2
    <3>10. device'[s].seq = Len(history'[s])
      BY <2>1, <3>2, <3>6 DEF HistoryIsTrue
    <3>11. history'[s][Len(history'[s])] = device'[s].state
      BY <3>2, <3>6
    <3>12. startedAt'[s] \in 0..Len(history'[s])
      BY <2>1, <3>6 DEF HistoryIsTrue
    <3> QED BY <3>2, <3>6, <3>7, <3>8, <3>9, <3>10, <3>11, <3>12 DEF HistoryIsTrue
  <2> QED BY <2>4, <2>5, <2>6
<1>3. device' \in [Serial -> DeviceRow]
  <2>1. device' = [s \in Serial |-> device'[s]]
    BY <1>1
  <2> HIDE DEF DeviceRow
  <2> QED BY <1>2, <2>1
<1>4. history' \in [Serial -> Seq(State)] /\ heard' \in [Serial -> Seq(State)]
  <2>1. history' = [s \in Serial |-> history'[s]] /\ heard' = [s \in Serial |-> heard'[s]]
    BY <1>1
  <2> QED BY <1>2, <2>1
<1> QED BY <1>2, <1>3, <1>4

LEMMA RegistryInvStep ==
  ASSUME RegistryInv, MaxUpsets \in Nat, RegistryNext
  PROVE  RegistryInv'
<1>1. CASE Discover
  <2>1. /\ listing' \in {plugged, NoListing} /\ upsets' \in 0..MaxUpsets /\ polling' = "listed"
        /\ UNCHANGED <<plugged, overridden, device, history, startedAt, heard>>
    BY <1>1 DEF Discover, RegistryInv
  <2>2. listing' \in [Serial -> State \cup {Unlisted}]
    BY <2>1 DEF RegistryInv, NoListing
  <2> QED BY <2>1, <2>2 DEF RegistryInv, HistoryIsTrue
<1>2. CASE FinishPoll \/ PollThrows
  <2>1. PICK written \in SUBSET Serial, got \in Gotten : WriteRows(written, got)
    BY <1>2 DEF FinishPoll, PollThrows
  <2>2. /\ polling' \in {"idle", "ended"} /\ listing' = NoListing
        /\ UNCHANGED <<plugged, upsets, overridden, startedAt>>
    BY <1>2 DEF FinishPoll, PollThrows
  <2>3. listing' \in [Serial -> State \cup {Unlisted}]
    BY <2>2 DEF NoListing
  <2>4. /\ device' \in [Serial -> DeviceRow]
        /\ history' \in [Serial -> Seq(State)] /\ heard' \in [Serial -> Seq(State)]
        /\ \A s \in Serial : HistoryIsTrue(s)'
    BY <2>1, <2>2, RowsWritten
  <2> QED BY <2>2, <2>3, <2>4 DEF RegistryInv
<1>3. CASE RegistryRestart
  <2>1. /\ polling' = "idle" /\ listing' = NoListing
        /\ startedAt' = [s \in Serial |-> Len(history[s])]
        /\ heard' = [s \in Serial |-> <<>>]
        /\ UNCHANGED <<plugged, upsets, overridden, device, history>>
    BY <1>3 DEF RegistryRestart
  <2>2. ASSUME NEW s \in Serial PROVE HistoryIsTrue(s)' /\ startedAt'[s] \in Nat
    <3>1. history[s] \in Seq(State) /\ HistoryIsTrue(s)
      BY DEF RegistryInv
    <3>2. Len(history[s]) \in Nat /\ startedAt'[s] = Len(history[s]) /\ heard'[s] = <<>>
          /\ history'[s] = history[s] /\ device'[s] = device[s]
      BY <2>1, <3>1
    <3>3. SubSeq(history[s], Len(history[s]) + 1, Len(history[s])) = <<>>
      BY <3>2, SubSeqEmpty
    <3>4. startedAt'[s] \in 0..Len(history'[s])
      BY <3>2
    <3>5. heard'[s] = SubSeq(history'[s], startedAt'[s] + 1, Len(history'[s]))
      BY <3>2, <3>3, Zenon
    <3> QED BY <3>1, <3>2, <3>4, <3>5 DEF HistoryIsTrue
  <2>3. startedAt' \in [Serial -> Nat] /\ heard' \in [Serial -> Seq(State)]
        /\ listing' \in [Serial -> State \cup {Unlisted}]
    BY <2>1, <2>2 DEF NoListing
  <2> QED BY <2>1, <2>2, <2>3 DEF RegistryInv
<1>4. ASSUME NEW s \in Serial, Plug(s) PROVE RegistryInv'
  <2>1. /\ upsets' \in 0..MaxUpsets
        /\ UNCHANGED <<listing, polling, device, history, startedAt, heard>>
    BY <1>4 DEF Plug, RegistryInv
  <2>2. plugged' \in [Serial -> State \cup {Unlisted}] /\ overridden' \subseteq Serial
    BY <1>4 DEF Plug, RegistryInv
  <2> QED BY <2>1, <2>2 DEF RegistryInv, HistoryIsTrue
<1> QED BY <1>1, <1>2, <1>3, <1>4 DEF RegistryNext

LEMMA RegistryIsTrue ==
  ASSUME RegistryInv
  PROVE  RegistryTypeOK /\ ConnectionHistoryIsTrue
<1>1. \A s \in Serial : device[s] \in DeviceRow
  <2> HIDE DEF DeviceRow
  <2> QED BY DEF RegistryInv
<1>2. RegistryTypeOK
  BY <1>1 DEF RegistryInv, RegistryTypeOK, DeviceRow
<1>3. ConnectionHistoryIsTrue
  BY DEF RegistryInv, HistoryIsTrue, ConnectionHistoryIsTrue
<1> QED BY <1>2, <1>3

\* A poll that finishes writes what it listed.
LEMMA PollsAreCurrent ==
  ASSUME FinishPoll, NEW s \in Serial
  PROVE  /\ listing[s] # Unlisted => device'[s].state = listing[s]
         /\ device'[s].state \in {"ONLINE", "UNAUTHORIZED"} => device'[s].state = listing[s]
<1>1. PICK got \in Gotten : WriteRows(Serial, got)
  BY DEF FinishPoll
<1>2. device'[s] = IF Observed(s) # Unlisted
                   THEN Upserted(device[s], Observed(s), got[s]) ELSE device[s]
  BY <1>1 DEF WriteRows
<1>3. CASE Observed(s) # Unlisted
  <2>1. device'[s].state = Observed(s)
    BY <1>2, <1>3 DEF Upserted
  <2> QED BY <2>1 DEF Observed, Missed, Unlisted
<1>4. CASE Observed(s) = Unlisted
  <2>1. device'[s] = device[s] /\ listing[s] = Unlisted
        /\ device[s].state = Unlisted
    BY <1>2, <1>4 DEF Observed, Unlisted
  <2> QED BY <2>1 DEF Unlisted
<1> QED BY <1>3, <1>4
-----------------------------------------------------------------------------
(* What leaves a component as it is leaves what was shown of it.           *)
LEMMA ImportInvStays == ImportInv /\ [ImportNext]_importVars => ImportInv'
<1> SUFFICES ASSUME ImportInv, UNCHANGED importVars PROVE ImportInv'
  BY ImportInvStep
<1>1. UNCHANGED <<imp, onDisk, hashDirs, partials, storedName, artifacts, attempts>>
  BY DEF importVars
<1>2. \A d, n : There(d, n) => There(d, n)'
  BY <1>1 DEF There, Withdrew
<1>3. \A i \in Importer : ImportIsSound(i)'
  BY <1>1 DEF ImportInv, ImportIsSound
<1>4. imp' \in [Importer -> ImportRecord]
  <2> HIDE DEF ImportRecord
  <2> QED BY <1>1 DEF ImportInv
<1>5. \A i \in Importer : imp'[i].step = "cataloguing" => There(imp[i].sum, imp[i].file)'
  BY <1>1, <1>2 DEF ImportInv
<1>6. \A d \in ImportDigest : storedName'[d] # NoName => There(d, storedName[d])'
  BY <1>1, <1>2 DEF ImportInv
<1> QED BY <1>1, <1>3, <1>4, <1>5, <1>6 DEF ImportInv

LEMMA IdentityInvStays == IdentityInv /\ [IdentityNext]_identityVars => IdentityInv'
<1>1. IdentityInv /\ IdentityNext => IdentityInv'
  BY IdentityInvStep, IdentityAssumption
<1>2. IdentityInv /\ UNCHANGED identityVars => IdentityInv'
  BY DEF identityVars, IdentityInv, ReadInOrder, NeverTwoBuilds
<1> QED BY <1>1, <1>2

LEMMA ProcessInvStays == ProcessInv /\ [ProcessNext]_processVars => ProcessInv'
<1>1. ProcessInv /\ ProcessNext => ProcessInv'
  BY ProcessInvStep
<1>2. ProcessInv /\ UNCHANGED processVars => ProcessInv'
  BY DEF processVars, ProcessInv, OutputIsTrue
<1> QED BY <1>1, <1>2

LEMMA SelfCheckInvStays == SelfCheckInv /\ [SelfCheckNext]_selfCheckVars => SelfCheckInv'
<1>1. SelfCheckInv /\ SelfCheckNext => SelfCheckInv'
  BY SelfCheckInvStep
<1>2. ASSUME SelfCheckInv, UNCHANGED selfCheckVars PROVE SelfCheckInv'
  <2>1. UNCHANGED <<machine, diagnostic, files, report, exitCode>>
    BY <1>2 DEF selfCheckVars
  <2>2. Judged' <=> Judged
    BY <2>1, JudgedStays DEF Judged
  <2>3. Overall' = Overall
    BY <2>1 DEF Overall
  <2> QED BY <1>2, <2>1, <2>2, <2>3 DEF SelfCheckInv, FilesOfStep
<1> QED BY <1>1, <1>2

LEMMA RegistryInvStays == RegistryInv /\ [RegistryNext]_registryVars => RegistryInv'
<1>1. RegistryInv /\ RegistryNext => RegistryInv'
  BY RegistryInvStep, RegistryAssumption
<1>2. RegistryInv /\ UNCHANGED registryVars => RegistryInv'
  BY DEF registryVars, RegistryInv, HistoryIsTrue
<1> QED BY <1>1, <1>2

LEMMA UidInvStays == UidInv /\ [UidNext]_uidVars => UidInv'
<1>1. UidInv /\ UNCHANGED uidVars => UidInv'
  BY DEF uidVars, UidInv, UidTyped, DataAreCounted, ReportsAreCounted, ShownIsPresent, UidFrom
<1> QED BY <1>1, UidInvStep
-----------------------------------------------------------------------------
(* The composition that the run explores.                                  *)

HostInv == ImportInv /\ IdentityInv /\ ProcessInv /\ SelfCheckInv /\ RegistryInv /\ UidInv

LEMMA HostInvInit == HostInit => HostInv
<1> SUFFICES ASSUME HostInit PROVE HostInv
  OBVIOUS
<1>1. ImportInv /\ UidInv
  BY ImportInvInit, UidInvInit DEF HostInit
<1>2. IdentityInv
  BY IdentityInvInit, IdentityAssumption DEF HostInit
<1>3. ProcessInv
  BY ProcessInvInit DEF HostInit
<1>4. SelfCheckInv
  <2>1. \/ SelfCheckInit
        \/ /\ machine = WithTools(Plain, [t \in Tool |-> InOrder])
           /\ diagnostic = [p \in Probe |-> "HEALTHY"]
           /\ files = {} /\ report = "none" /\ exitCode = 1
    BY DEF HostInit
  <2> QED BY <2>1, SelfCheckInvInit
<1>5. RegistryInv
  BY RegistryInvInit, RegistryAssumption DEF HostInit
<1> QED BY <1>1, <1>2, <1>3, <1>4, <1>5 DEF HostInv

LEMMA HostPartsStep ==
  [HostNext]_hostVars =>
    /\ [ImportNext]_importVars /\ [IdentityNext]_identityVars /\ [ProcessNext]_processVars
    /\ [SelfCheckNext]_selfCheckVars /\ [RegistryNext]_registryVars /\ [UidNext]_uidVars
    /\ [Next]_vars
<1> SUFFICES ASSUME [HostNext]_hostVars
             PROVE  /\ [ImportNext]_importVars /\ [IdentityNext]_identityVars
                    /\ [ProcessNext]_processVars /\ [SelfCheckNext]_selfCheckVars
                    /\ [RegistryNext]_registryVars /\ [UidNext]_uidVars /\ [Next]_vars
  OBVIOUS
<1>1. CASE HostNext
  BY <1>1 DEF HostNext
<1>2. CASE UNCHANGED hostVars
  BY <1>2 DEF hostVars
<1> QED BY <1>1, <1>2

\* The deployments of the composition behave as they do alone.
LEMMA DeploymentsBehave == HostSpec => Spec
<1>1. HostInit => Init
  BY DEF HostInit
<1> QED BY <1>1, HostPartsStep, PTL DEF HostSpec, Spec

LEMMA HostInvHolds == HostSpec => []HostInv
<1>1. HostInv /\ [HostNext]_hostVars => HostInv'
  BY HostPartsStep, ImportInvStays, IdentityInvStays, ProcessInvStays, SelfCheckInvStays,
     RegistryInvStays, UidInvStays DEF HostInv
<1> QED BY <1>1, HostInvInit, PTL DEF HostSpec

(* The same of the deployments of the composition that the run explores:   *)
(* COMPLETED and SUCCEEDED are true of each deployment whose runs did not  *)
(* overlap and which no wide crash met, and COMPLETED is read of no target *)
(* without a launch (deployment-orchestrator.ts:248-371,                   *)
(* deployment-repository.ts:71-131).                                       *)
THEOREM DeploymentsHold == HostSpec => []StepsAreTrue
BY DeploymentsBehave, StepsHold, PTL

(* An import leaves the store clean, whatever the other requests do        *)
(* meanwhile and whenever the server crashes: a catalogued file is lost    *)
(* only to a request that put it there and withdrew it, no request that    *)
(* was answered leaves a partial file, and a build that was cancelled      *)
(* catalogued nothing (artifact-import.ts, content-store.ts).              *)
THEOREM ImportsHold == HostSpec => []ImportsAreClean
<1>1. HostInv => ImportsAreClean
  BY ImportIsTrue DEF HostInv
<1> QED BY <1>1, HostInvHolds, PTL

(* A reading is of one moment: a registration is never of two builds,      *)
(* though the files of a package may be gone or cut short when they are    *)
(* read; the output of a tool is of its whole run; the exit code of the    *)
(* self-check is of the machine it looked at, and its report a pair        *)
(* (installed-identity.ts, process-runner.ts, self-check.ts).              *)
THEOREM ReadingsHold == HostSpec => []ReadingsAreTrue
<1>1. HostInv => ReadingsAreTrue
  BY IdentityIsTrue, ProcessIsTrue, SelfCheckIsTrue, IdentityAssumption
     DEF HostInv, ReadingsAreTrue
<1> QED BY <1>1, HostInvHolds, PTL

(* What is shown of a device was seen of it: each change of its connection *)
(* once and in order, for any number of polls and upsets, and the uid of   *)
(* the data it has now, for any number of wipes and reports in flight      *)
(* (device-registry.ts, installation-repository.ts).                       *)
THEOREM DevicesHold == HostSpec => []DevicesAreAsSeen
<1>1. HostInv => DevicesAreAsSeen
  BY RegistryIsTrue, UidIsTrue DEF HostInv, DevicesAreAsSeen
<1> QED BY <1>1, HostInvHolds, PTL

(* Attempts at the steps of a deployment stay as they ended, and a poll    *)
(* that finishes leaves what its own listing said                          *)
(* (deployment-repository.ts, device-registry.ts).                         *)
THEOREM StepsWriteTrue == HostSpec => StepsWriteWhatHappened
<1>1. HostSpec => Spec
  BY DeploymentsBehave
<1>2. [FinishPoll =>
         \A s \in Serial :
           /\ listing[s] # Unlisted => device'[s].state = listing[s]
           /\ device'[s].state \in {"ONLINE", "UNAUTHORIZED"} =>
                device'[s].state = listing[s]]_registryVars
  BY PollsAreCurrent
<1>3. FinishedPollIsCurrent
  BY <1>2, PTL DEF FinishedPollIsCurrent
<1> QED BY <1>1, <1>3, AttemptsStay DEF StepsWriteWhatHappened
=============================================================================
