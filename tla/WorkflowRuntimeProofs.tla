----------------------- MODULE WorkflowRuntimeProofs -----------------------
(***************************************************************************)
(* The runtime for every number of rows, runners and crashes: nobody gives *)
(* up early, and without lost sessions no failure, wait or run goes        *)
(* unseen.  With one runner the attempts count the runs, and the runtime   *)
(* implements the lifecycle.                                               *)
(***************************************************************************)
EXTENDS WorkflowRuntime, FiniteSetTheorems, TLAPS

(***************************************************************************)
(* Type correctness                                                        *)
(***************************************************************************)

(* A session that is running a workflow has one in hand. *)
InHand ==
  \A a \in Actors : pc[a] \notin {"idle", "loop"} => cur[a] \in Workflows

TypeInv == TypeOK /\ InHand

(* Every row and copy the model builds is a row.                            *)
LEMMA RowFacts ==
  /\ NoRow \in Row /\ NewRow \in Row
  /\ \A r \in Row : r.status \in Status /\ r.attempts \in Nat
  /\ \A r \in Row, s \in Status : [r EXCEPT !.status = s] \in Row
  /\ \A s \in Status, n \in Nat : [status |-> s, attempts |-> n] \in Row
BY DEF NoRow, NewRow, Row, Status

(* Moving one actor moves no other.                                         *)
LEMMA GotoType ==
  ASSUME pc \in [Actors -> Label], NEW a \in Actors, NEW to \in Label, pc' = [pc EXCEPT ![a] = to]
  PROVE  /\ pc' \in [Actors -> Label]
         /\ pc'[a] = to
         /\ \A b \in Actors : b # a => pc'[b] = pc[b]
OBVIOUS

(* An audit entry keeps the shape of the audit log.                         *)
LEMMA RecordType ==
  ASSUME audit \in [Workflows -> [AuditKind -> Nat]],
         NEW w \in Workflows, NEW k \in AuditKind, Record(w, k)
  PROVE  audit' \in [Workflows -> [AuditKind -> Nat]]
<1>1. [audit[w] EXCEPT ![k] = @ + 1] \in [AuditKind -> Nat]
  OBVIOUS
<1>2. audit' = [audit EXCEPT ![w] = [audit[w] EXCEPT ![k] = @ + 1]]
  BY DEF Record
<1>3. QED
  BY <1>1, <1>2

(* Setting one row of one session's copies touches no other.                *)
LEMMA CopyType ==
  ASSUME copy \in [Actors -> [Workflows -> Row]],
         NEW a \in Actors, NEW w \in Workflows, NEW x \in Row,
         copy' = [copy EXCEPT ![a][w] = x]
  PROVE  /\ copy' \in [Actors -> [Workflows -> Row]]
         /\ copy'[a][w] = x
         /\ \A b \in Actors, v \in Workflows : b # a \/ v # w => copy'[b][v] = copy[b][v]
<1>1. [copy[a] EXCEPT ![w] = x] \in [Workflows -> Row]
  OBVIOUS
<1>2. QED
  BY <1>1

(* A commit of the status column keeps rows and copies rows.                *)
LEMMA SetStatusType ==
  ASSUME row \in [Workflows -> Row], copy \in [Actors -> [Workflows -> Row]],
         NEW a \in Actors, NEW w \in Workflows, NEW s \in Status, SetStatus(a, w, s)
  PROVE  /\ row' = [row EXCEPT ![w] = [row[w] EXCEPT !.status = s]]
         /\ row' \in [Workflows -> Row]
         /\ copy' = [copy EXCEPT ![a][w] = [copy[a][w] EXCEPT !.status = s]]
         /\ copy' \in [Actors -> [Workflows -> Row]]
<1>1. [row[w] EXCEPT !.status = s] \in Row /\ [copy[a][w] EXCEPT !.status = s] \in Row
  BY RowFacts
<1>2. row' = [row EXCEPT ![w] = [row[w] EXCEPT !.status = s]]
  BY DEF SetStatus
<1>3. copy' = [copy EXCEPT ![a][w] = [copy[a][w] EXCEPT !.status = s]]
  BY DEF SetStatus
<1>4. QED
  BY <1>1, <1>2, <1>3, CopyType

(* The empty table is well typed.                                           *)
LEMMA TypeInvInit == Init => TypeInv
<1> SUFFICES ASSUME Init PROVE TypeInv
  OBVIOUS
<1>1. audit \in [Workflows -> [AuditKind -> Nat]]
  BY DEF Init
<1>2. row \in [Workflows -> Row] /\ copy \in [Actors -> [Workflows -> Row]]
  BY RowFacts DEF Init
<1>3. TypeOK
  BY <1>1, <1>2, ConstantsOK DEF Init, TypeOK, Label
<1>4. QED
  BY <1>3 DEF Init, TypeInv, InHand

(* Every commit keeps it so.                                                *)
LEMMA TypeInvNext == TypeInv /\ [Next]_vars => TypeInv'
<1> SUFFICES ASSUME TypeInv, [Next]_vars PROVE TypeInv'
  OBVIOUS
<1> USE DEF TypeInv
<1>1. ASSUME NEW a \in Actors, Create(a) PROVE TypeInv'
  <2>1. created + 1 \in Workflows /\ created' \in 0..NumWorkflows
    BY <1>1, ConstantsOK DEF Create, TypeOK, Workflows
  <2>2. row' \in [Workflows -> Row]
    BY <1>1, <2>1, RowFacts DEF Create, TypeOK
  <2>3. copy' \in [Actors -> [Workflows -> Row]]
    BY <1>1, <2>1, RowFacts, CopyType DEF Create, TypeOK
  <2>4. pc' \in [Actors -> Label] /\ cur' \in [Actors -> Workflows \cup {NoWorkflow}]
    BY <1>1, <2>1 DEF Create, TypeOK, Goto, Label
  <2>5. TypeOK'
    BY <1>1, <2>1, <2>2, <2>3, <2>4 DEF Create, TypeOK
  <2>6. InHand'
    BY <1>1, <2>1 DEF Create, TypeOK, InHand, Goto
  <2>7. QED
    BY <2>5, <2>6
<1>2. ASSUME NEW a \in Actors, AuditCreated(a) PROVE TypeInv'
  <2>1. cur[a] \in Workflows
    BY <1>2 DEF AuditCreated, Goto, InHand
  <2>2. audit' \in [Workflows -> [AuditKind -> Nat]]
    BY <1>2, <2>1, RecordType DEF AuditCreated, TypeOK, AuditKind
  <2>3. TypeOK'
    BY <1>2, <2>1, <2>2 DEF AuditCreated, TypeOK, Goto, Leave, Label
  <2>4. InHand'
    BY <1>2 DEF AuditCreated, TypeOK, InHand, Goto, Leave
  <2>5. QED
    BY <2>3, <2>4
<1>3. ASSUME NEW a \in Actors, Poll(a) PROVE TypeInv'
  <2>1. OldestPending \subseteq Workflows
    BY DEF OldestPending, Pending
  <2>2. [w \in Workflows |-> IF w \in OldestPending THEN row[w] ELSE NoRow] \in [Workflows -> Row]
    BY RowFacts DEF TypeOK
  <2>3. copy' \in [Actors -> [Workflows -> Row]]
    BY <1>3, <2>2 DEF Poll, TypeOK
  <2>4. TypeOK'
    BY <1>3, <2>1, <2>3 DEF Poll, TypeOK, Goto, Label, table
  <2>5. InHand'
    BY <1>3 DEF Poll, TypeOK, InHand, Goto
  <2>6. QED
    BY <2>4, <2>5
<1>4. ASSUME NEW a \in Actors, NEW w \in Workflows, RefuseKind(a, w) PROVE TypeInv'
  BY <1>4 DEF RefuseKind, TypeOK, InHand, table
<1>5. ASSUME NEW a \in Actors, NEW w \in Workflows, MarkRunning(a, w) PROVE TypeInv'
  <2> DEFINE n == [status |-> "running", attempts |-> AttemptOf(a, w)]
  <2>0. AttemptOf(a, w) \in Nat
    <3>1. copy[a][w] \in Row
      BY DEF TypeOK
    <3>2. QED
      BY <3>1 DEF AttemptOf, Row
  <2>1. n \in Row
    BY <2>0 DEF Row, Status
  <2>a. row' = [row EXCEPT ![w] = n] /\ copy' = [copy EXCEPT ![a][w] = n]
    BY <1>5 DEF MarkRunning
  <2> HIDE DEF n
  <2>2. row' \in [Workflows -> Row] /\ copy' \in [Actors -> [Workflows -> Row]]
    BY <2>1, <2>a, CopyType DEF TypeOK
  <2>3. TypeOK'
    BY <1>5, <2>2 DEF MarkRunning, TypeOK, Goto, Label
  <2>4. InHand'
    BY <1>5 DEF MarkRunning, TypeOK, InHand, Goto
  <2>5. QED
    BY <2>3, <2>4
<1>6. ASSUME NEW a \in Actors, Park(a) PROVE TypeInv'
  <2>1. cur[a] \in Workflows
    BY <1>6 DEF Park, InHand, Goto
  <2>2. row' \in [Workflows -> Row] /\ copy' \in [Actors -> [Workflows -> Row]]
    BY <1>6, <2>1, SetStatusType DEF Park, TypeOK, Status
  <2>3. TypeOK'
    BY <1>6, <2>2 DEF Park, TypeOK, Label, Goto
  <2>4. InHand'
    BY <1>6, <2>1 DEF Park, TypeOK, InHand, Goto
  <2>5. QED
    BY <2>3, <2>4
<1>7. ASSUME NEW a \in Actors, MarkCompleted(a) PROVE TypeInv'
  <2>1. cur[a] \in Workflows
    BY <1>7 DEF MarkCompleted, InHand, Goto
  <2>2. row' \in [Workflows -> Row] /\ copy' \in [Actors -> [Workflows -> Row]]
    BY <1>7, <2>1, SetStatusType DEF MarkCompleted, TypeOK, Status
  <2>3. TypeOK'
    BY <1>7, <2>2 DEF MarkCompleted, TypeOK, Label, Goto
  <2>4. InHand'
    BY <1>7, <2>1 DEF MarkCompleted, TypeOK, InHand, Goto
  <2>5. QED
    BY <2>3, <2>4
<1>8. ASSUME NEW a \in Actors, Retry(a) PROVE TypeInv'
  <2>1. cur[a] \in Workflows
    BY <1>8 DEF Retry, InHand
  <2>2. row' \in [Workflows -> Row] /\ copy' \in [Actors -> [Workflows -> Row]]
    BY <1>8, <2>1, SetStatusType DEF Retry, TypeOK, Status
  <2>3. TypeOK'
    BY <1>8, <2>2 DEF Retry, TypeOK, Label
  <2>4. InHand'
    BY <1>8, <2>1 DEF Retry, TypeOK, InHand
  <2>5. QED
    BY <2>3, <2>4
<1>9. ASSUME NEW a \in Actors, MarkFailed(a) PROVE TypeInv'
  <2>1. cur[a] \in Workflows
    BY <1>9 DEF MarkFailed, InHand
  <2>2. row' \in [Workflows -> Row] /\ copy' \in [Actors -> [Workflows -> Row]]
    BY <1>9, <2>1, SetStatusType DEF MarkFailed, TypeOK, Status
  <2>3. TypeOK'
    BY <1>9, <2>2 DEF MarkFailed, TypeOK, Label
  <2>4. InHand'
    BY <1>9, <2>1 DEF MarkFailed, TypeOK, InHand
  <2>5. QED
    BY <2>3, <2>4
<1>10. ASSUME NEW a \in Actors, AuditStarted(a) PROVE TypeInv'
  <2>1. cur[a] \in Workflows
    BY <1>10 DEF AuditStarted, Goto, InHand
  <2>2. audit' \in [Workflows -> [AuditKind -> Nat]]
    BY <1>10, <2>1, RecordType DEF AuditStarted, TypeOK, AuditKind
  <2>3. TypeOK'
    BY <1>10, <2>2 DEF AuditStarted, TypeOK, Goto, Label
  <2>4. InHand'
    BY <1>10, <2>1 DEF AuditStarted, TypeOK, InHand, Goto
  <2>5. QED
    BY <2>3, <2>4
<1>11. ASSUME NEW a \in Actors, AskApproval(a) PROVE TypeInv'
  <2>1. cur[a] \in Workflows
    BY <1>11 DEF AskApproval, Goto, InHand
  <2>2. TypeOK'
    BY <1>11, <2>1 DEF AskApproval, TypeOK, Goto, Label
  <2>3. InHand'
    BY <1>11, <2>1 DEF AskApproval, TypeOK, InHand, Goto
  <2>4. QED
    BY <2>2, <2>3
<1>12. ASSUME NEW a \in Actors, AuditCompleted(a) PROVE TypeInv'
  <2>1. cur[a] \in Workflows
    BY <1>12 DEF AuditCompleted, Goto, InHand
  <2>2. audit' \in [Workflows -> [AuditKind -> Nat]]
    BY <1>12, <2>1, RecordType DEF AuditCompleted, TypeOK, AuditKind
  <2>3. TypeOK'
    BY <1>12, <2>2 DEF AuditCompleted, TypeOK, Goto, Label, Leave
  <2>4. InHand'
    BY <1>12, <2>1 DEF AuditCompleted, TypeOK, InHand, Goto, Leave
  <2>5. QED
    BY <2>3, <2>4
<1>13. ASSUME NEW a \in Actors, ReturnParked(a) PROVE TypeInv'
  <2>1. cur[a] \in Workflows
    BY <1>13 DEF ReturnParked, Goto, InHand
  <2>2. TypeOK'
    BY <1>13, <2>1 DEF ReturnParked, TypeOK, Goto, Label, Leave, table
  <2>3. InHand'
    BY <1>13, <2>1 DEF ReturnParked, TypeOK, InHand, Goto, Leave
  <2>4. QED
    BY <2>2, <2>3
<1>14. ASSUME NEW a \in Actors, AuditRetry(a) PROVE TypeInv'
  <2>1. cur[a] \in Workflows
    BY <1>14 DEF AuditRetry, Goto, InHand
  <2>2. audit' \in [Workflows -> [AuditKind -> Nat]]
    BY <1>14, <2>1, RecordType DEF AuditRetry, TypeOK, AuditKind
  <2>3. TypeOK'
    BY <1>14, <2>2 DEF AuditRetry, TypeOK, Goto, Label, Leave
  <2>4. InHand'
    BY <1>14, <2>1 DEF AuditRetry, TypeOK, InHand, Goto, Leave
  <2>5. QED
    BY <2>3, <2>4
<1>15. ASSUME NEW a \in Actors, AuditFailed(a) PROVE TypeInv'
  <2>1. cur[a] \in Workflows
    BY <1>15 DEF AuditFailed, Goto, InHand
  <2>2. audit' \in [Workflows -> [AuditKind -> Nat]]
    BY <1>15, <2>1, RecordType DEF AuditFailed, TypeOK, AuditKind
  <2>3. TypeOK'
    BY <1>15, <2>2 DEF AuditFailed, TypeOK, Goto, Label
  <2>4. InHand'
    BY <1>15, <2>1 DEF AuditFailed, TypeOK, InHand, Goto
  <2>5. QED
    BY <2>3, <2>4
<1>16. ASSUME NEW a \in Actors, Escalate(a) PROVE TypeInv'
  <2>1. cur[a] \in Workflows
    BY <1>16 DEF Escalate, Goto, InHand
  <2>2. TypeOK'
    BY <1>16, <2>1 DEF Escalate, TypeOK, Goto, Label
  <2>3. InHand'
    BY <1>16, <2>1 DEF Escalate, TypeOK, InHand, Goto
  <2>4. QED
    BY <2>2, <2>3
<1>17. ASSUME NEW a \in Actors, AuditEscalation(a) PROVE TypeInv'
  <2>1. cur[a] \in Workflows
    BY <1>17 DEF AuditEscalation, Goto, InHand
  <2>2. audit' \in [Workflows -> [AuditKind -> Nat]]
    BY <1>17, <2>1, RecordType DEF AuditEscalation, TypeOK, AuditKind
  <2>3. TypeOK'
    BY <1>17, <2>2 DEF AuditEscalation, TypeOK, Goto, Label, Leave
  <2>4. InHand'
    BY <1>17, <2>1 DEF AuditEscalation, TypeOK, InHand, Goto, Leave
  <2>5. QED
    BY <2>3, <2>4
<1>22. ASSUME NEW a \in Actors, AlertRisks(a) PROVE TypeInv'
  <2>1. cur[a] \in Workflows
    BY <1>22 DEF AlertRisks, Goto, InHand
  <2>2. TypeOK'
    BY <1>22, <2>1 DEF AlertRisks, TypeOK, Goto, Label
  <2>3. InHand'
    BY <1>22, <2>1 DEF AlertRisks, TypeOK, InHand, Goto
  <2>4. QED
    BY <2>2, <2>3
<1>23. ASSUME NEW a \in Actors, AuditRisks(a) PROVE TypeInv'
  <2>1. cur[a] \in Workflows
    BY <1>23 DEF AuditRisks, Goto, InHand
  <2>2. audit' \in [Workflows -> [AuditKind -> Nat]]
    BY <1>23, <2>1, RecordType DEF AuditRisks, TypeOK, AuditKind
  <2>3. TypeOK'
    BY <1>23, <2>2 DEF AuditRisks, TypeOK, Goto, Label
  <2>4. InHand'
    BY <1>23, <2>1 DEF AuditRisks, TypeOK, InHand, Goto
  <2>5. QED
    BY <2>3, <2>4
<1>18. ASSUME NEW a \in Actors, CloseSession(a) PROVE TypeInv'
  <2>1. copy' \in [Actors -> [Workflows -> Row]]
    BY <1>18, RowFacts DEF CloseSession, TypeOK
  <2>2. TypeOK'
    BY <1>18, <2>1, ConstantsOK DEF CloseSession, TypeOK, Label, table, Goto
  <2>3. InHand'
    BY <1>18 DEF CloseSession, TypeOK, InHand, Goto
  <2>4. QED
    BY <2>2, <2>3
<1>19. ASSUME NEW a \in Actors, Crash(a) PROVE TypeInv'
  <2>1. copy' \in [Actors -> [Workflows -> Row]]
    BY <1>19, RowFacts DEF Crash, TypeOK
  <2>2. TypeOK'
    BY <1>19, <2>1, ConstantsOK DEF Crash, TypeOK, Label, table
  <2>3. InHand'
    BY <1>19 DEF Crash, TypeOK, InHand
  <2>4. QED
    BY <2>2, <2>3
<1>20. CASE UNCHANGED vars
  BY <1>20 DEF vars, TypeOK, InHand
<1>21. QED
  BY <1>1, <1>2, <1>3, <1>4, <1>5, <1>6, <1>7, <1>8, <1>9, <1>10, <1>11, 
     <1>12, <1>13, <1>14, <1>15, <1>16, <1>17, <1>18, <1>19, <1>20,
     <1>22, <1>23 DEF Next, Step, RunStep

(* Every reachable state of the runtime is well typed, and a session past  *)
(* the loop has a workflow in hand.                                        *)
THEOREM TypeCorrect == Spec => [](TypeOK /\ InHand)
<1>1. Spec => []TypeInv
  BY TypeInvInit, TypeInvNext, PTL DEF Spec
<1>2. TypeInv => TypeOK /\ InHand
  BY DEF TypeInv
<1>3. QED
  BY <1>1, <1>2, PTL

(***************************************************************************)
(* Nobody gives up early                                                   *)
(***************************************************************************)

(* Neither the committed count nor any session's idea of it is ahead of    *)
(* the runs: a stale session may lose an increment, never invent one.      *)
CountsTrailRuns ==
  /\ \A w \in Workflows : row[w].attempts <= runs[w]
  /\ \A a \in Actors, w \in Workflows : copy[a][w].attempts <= runs[w]

(* A session that has decided to fail its workflow had the runs for it. *)
DecidedLate ==
  \A a \in Actors :
    pc[a] \in {"failed", "escalating", "escalated"} => runs[cur[a]] >= MaxAttempts

EarnedInv == CountsTrailRuns /\ DecidedLate /\ GivesUpOnlyWhenExhausted

(* The fields of the rows the model builds.                                 *)
LEMMA RowFields ==
  /\ \A x \in Row : x.attempts \in Nat /\ x.status \in Status
  /\ \A x \in Row, s \in Status :
       /\ [x EXCEPT !.status = s].attempts = x.attempts
       /\ [x EXCEPT !.status = s].status = s
  /\ NoRow.attempts = 0 /\ NewRow.attempts = 0
  /\ NoRow.status = "absent" /\ NewRow.status = "pending"
BY DEF Row, NoRow, NewRow

(* What a commit of the status column alone changes. *)
LEMMA SetStatusEffect ==
  ASSUME TypeOK, NEW a \in Actors, NEW w \in Workflows, NEW s \in Status, SetStatus(a, w, s)
  PROVE  /\ \A v \in Workflows : row'[v].attempts = row[v].attempts
         /\ \A v \in Workflows : row'[v].status = IF v = w THEN s ELSE row[v].status
         /\ \A b \in Actors, v \in Workflows : copy'[b][v].attempts = copy[b][v].attempts
         /\ copy'[a][w].status = s
         /\ \A b \in Actors, v \in Workflows : b # a \/ v # w => copy'[b][v] = copy[b][v]
<1>1. /\ row' = [row EXCEPT ![w] = [row[w] EXCEPT !.status = s]]
      /\ copy' = [copy EXCEPT ![a][w] = [copy[a][w] EXCEPT !.status = s]]
  BY SetStatusType DEF TypeOK
<1>2. row[w] \in Row /\ copy[a][w] \in Row /\ [copy[a][w] EXCEPT !.status = s] \in Row
  BY RowFacts DEF TypeOK
<1>3. \A v \in Workflows : /\ row'[v].attempts = row[v].attempts
                           /\ row'[v].status = IF v = w THEN s ELSE row[v].status
  BY <1>1, <1>2, RowFields DEF TypeOK
<1> DEFINE x == [copy[a][w] EXCEPT !.status = s]
<1>4. /\ x \in Row /\ x.status = s /\ x.attempts = copy[a][w].attempts
      /\ copy' = [copy EXCEPT ![a][w] = x]
  BY <1>1, <1>2, RowFields
<1> HIDE DEF x
<1>5. /\ copy'[a][w] = x
      /\ \A b \in Actors, v \in Workflows : b # a \/ v # w => copy'[b][v] = copy[b][v]
  BY <1>4, CopyType DEF TypeOK
<1>6. \A b \in Actors, v \in Workflows : copy'[b][v].attempts = copy[b][v].attempts
  <2> TAKE b \in Actors, v \in Workflows
  <2>1. CASE b = a /\ v = w
    BY <1>4, <1>5, <2>1
  <2>2. CASE b # a \/ v # w
    BY <1>5, <2>2
  <2>3. QED
    BY <2>1, <2>2
<1>7. QED
  BY <1>3, <1>4, <1>5, <1>6

(* No commit breaks the invariant: a run that is begun is counted before    *)
(* any session can count it.                                                *)
LEMMA EarnedInvNext == TypeInv /\ EarnedInv /\ [Next]_vars => EarnedInv'
<1> SUFFICES ASSUME TypeInv, EarnedInv, [Next]_vars PROVE EarnedInv'
  OBVIOUS
<1>t. TypeOK /\ InHand
  BY DEF TypeInv
<1>n. /\ \A w \in Workflows : runs[w] \in Nat /\ row[w].attempts \in Nat /\ escalations[w] \in Nat
      /\ \A a \in Actors, w \in Workflows : copy[a][w].attempts \in Nat
      /\ MaxAttempts \in Nat
  BY <1>t, RowFields, ConstantsOK DEF TypeOK
<1> USE DEF EarnedInv
<1>1. ASSUME NEW a \in Actors, Create(a) PROVE EarnedInv'
  <2>1. created + 1 \in Workflows
    BY <1>1, <1>t, ConstantsOK DEF Create, TypeOK, Workflows
  <2>2. /\ row'[created + 1] = NewRow
        /\ \A w \in Workflows : w # created + 1 => row'[w] = row[w]
    BY <1>1, <1>t, <2>1 DEF Create, TypeOK
  <2>3. /\ copy'[a][created + 1] = NewRow
        /\ \A b \in Actors, w \in Workflows :
             b # a \/ w # created + 1 => copy'[b][w] = copy[b][w]
    BY <1>1, <1>t, <2>1, RowFacts, CopyType DEF Create, TypeOK
  <2>4. CountsTrailRuns'
    BY <1>1, <1>n, <2>1, <2>2, <2>3, RowFields DEF Create, CountsTrailRuns
  <2>5. DecidedLate'
    BY <1>1, <1>t DEF Create, DecidedLate, Goto, TypeOK
  <2>6. GivesUpOnlyWhenExhausted'
    BY <1>1, <2>2, RowFields DEF Create, GivesUpOnlyWhenExhausted
  <2>7. QED
    BY <2>4, <2>5, <2>6
<1>2. ASSUME NEW a \in Actors, Poll(a) PROVE EarnedInv'
  <2>1. \A b \in Actors, w \in Workflows :
          copy'[b][w] = IF b # a THEN copy[b][w] ELSE IF w \in OldestPending THEN row[w] ELSE NoRow
    BY <1>2, <1>t DEF Poll, TypeOK
  <2>2. CountsTrailRuns'
    BY <1>2, <1>n, <2>1, RowFields DEF Poll, CountsTrailRuns, table
  <2>3. QED
    BY <1>2, <1>t, <2>2 DEF Poll, DecidedLate, GivesUpOnlyWhenExhausted, Goto, table, TypeOK
<1>3. ASSUME NEW a \in Actors, NEW w \in Workflows, MarkRunning(a, w) PROVE EarnedInv'
  <2> DEFINE n == [status |-> "running", attempts |-> AttemptOf(a, w)]
  <2>1. n \in Row /\ n.attempts = copy[a][w].attempts + 1 /\ n.status = "running"
    BY <1>n DEF AttemptOf, Row, Status
  <2>2. row' = [row EXCEPT ![w] = n] /\ copy' = [copy EXCEPT ![a][w] = n]
    BY <1>3 DEF MarkRunning
  <2> HIDE DEF n
  <2>3. /\ row'[w] = n /\ \A v \in Workflows : v # w => row'[v] = row[v]
        /\ copy'[a][w] = n
        /\ \A b \in Actors, v \in Workflows : b # a \/ v # w => copy'[b][v] = copy[b][v]
    BY <1>t, <2>1, <2>2, CopyType DEF TypeOK
  <2>4. /\ runs'[w] = runs[w] + 1 /\ \A v \in Workflows : v # w => runs'[v] = runs[v]
        /\ \A v \in Workflows : runs'[v] >= runs[v]
    BY <1>3, <1>t, <1>n DEF MarkRunning, TypeOK
  <2>5. CountsTrailRuns'
    BY <1>n, <2>1, <2>3, <2>4 DEF CountsTrailRuns
  <2>6. DecidedLate'
    BY <1>3, <1>t, <1>n, <2>4 DEF MarkRunning, DecidedLate, Goto, TypeOK, InHand
  <2>7. GivesUpOnlyWhenExhausted'
    BY <1>3, <1>n, <2>1, <2>3, <2>4 DEF MarkRunning, GivesUpOnlyWhenExhausted
  <2>8. QED
    BY <2>5, <2>6, <2>7
<1>4. ASSUME NEW a \in Actors, Park(a) \/ MarkCompleted(a) \/ Retry(a) PROVE EarnedInv'
  <2>1. PICK s \in Status \ {"failed"} : SetStatus(a, cur[a], s)
    BY <1>4 DEF Park, MarkCompleted, Retry, Status
  <2>2. cur[a] \in Workflows
    BY <1>4, <1>t DEF Park, MarkCompleted, Retry, InHand, Goto
  <2>3. runs' = runs /\ escalations' = escalations /\ cur' = cur
    BY <1>4 DEF Park, MarkCompleted, Retry
  <2>4. CountsTrailRuns'
    BY <1>t, <2>1, <2>2, <2>3, SetStatusEffect DEF CountsTrailRuns
  <2>5. DecidedLate'
    BY <1>4, <1>t, <2>3 DEF Park, MarkCompleted, Retry, DecidedLate, Goto, TypeOK
  <2>6. GivesUpOnlyWhenExhausted'
    BY <1>t, <2>1, <2>2, <2>3, SetStatusEffect DEF GivesUpOnlyWhenExhausted
  <2>7. QED
    BY <2>4, <2>5, <2>6
<1>5. ASSUME NEW a \in Actors, MarkFailed(a) PROVE EarnedInv'
  <2>1. cur[a] \in Workflows /\ SetStatus(a, cur[a], "failed") /\ "failed" \in Status
    BY <1>5, <1>t DEF MarkFailed, InHand, Status
  <2>2. runs[cur[a]] >= MaxAttempts
    BY <1>5, <1>n, <2>1 DEF MarkFailed, Exhausted, CountsTrailRuns
  <2>3. CountsTrailRuns'
    BY <1>5, <1>t, <2>1, SetStatusEffect DEF MarkFailed, CountsTrailRuns
  <2>4. DecidedLate'
    BY <1>5, <1>t, <2>2 DEF MarkFailed, DecidedLate, TypeOK
  <2>5. GivesUpOnlyWhenExhausted'
    BY <1>5, <1>t, <2>1, <2>2, SetStatusEffect DEF MarkFailed, GivesUpOnlyWhenExhausted
  <2>6. QED
    BY <2>3, <2>4, <2>5
<1>6. ASSUME NEW a \in Actors, Escalate(a) PROVE EarnedInv'
  <2>1. cur[a] \in Workflows /\ runs[cur[a]] >= MaxAttempts
    BY <1>6, <1>t DEF Escalate, Goto, InHand, DecidedLate
  <2>2. CountsTrailRuns'
    BY <1>6 DEF Escalate, CountsTrailRuns
  <2>3. DecidedLate'
    BY <1>6, <1>t, <2>1 DEF Escalate, DecidedLate, Goto, TypeOK
  <2>4. GivesUpOnlyWhenExhausted'
    BY <1>6, <1>t, <2>1 DEF Escalate, GivesUpOnlyWhenExhausted, TypeOK
  <2>5. QED
    BY <2>2, <2>3, <2>4
<1>7. ASSUME NEW a \in Actors,
             AuditCreated(a) \/ AuditStarted(a) \/ AskApproval(a) \/ AuditCompleted(a)
               \/ ReturnParked(a) \/ AuditRetry(a) \/ AuditFailed(a) \/ AuditEscalation(a)
               \/ AlertRisks(a) \/ AuditRisks(a)
      PROVE EarnedInv'
  <2>1. UNCHANGED <<row, copy, runs, escalations>>
    BY <1>7 DEF AuditCreated, AuditStarted, AskApproval, AuditCompleted, ReturnParked, AuditRetry,
                AuditFailed, AuditEscalation, AlertRisks, AuditRisks, table
  <2>2. CountsTrailRuns' /\ GivesUpOnlyWhenExhausted'
    BY <2>1 DEF CountsTrailRuns, GivesUpOnlyWhenExhausted
  <2>3. /\ pc'[a] = "escalating" => pc[a] = "failed" /\ cur' = cur
        /\ pc'[a] \notin {"failed", "escalated"}
        /\ \A b \in Actors : b # a => pc'[b] = pc[b] /\ cur'[b] = cur[b]
    BY <1>7, <1>t DEF AuditCreated, AuditStarted, AskApproval, AuditCompleted, ReturnParked,
                      AuditRetry, AuditFailed, AuditEscalation, AlertRisks, AuditRisks, Goto, Leave, TypeOK
  <2>4. DecidedLate'
    BY <2>1, <2>3 DEF DecidedLate
  <2>5. QED
    BY <2>2, <2>4
<1>8. ASSUME NEW a \in Actors, CloseSession(a) \/ Crash(a) PROVE EarnedInv'
  <2>1. \A b \in Actors, w \in Workflows : copy'[b][w] = IF b = a THEN NoRow ELSE copy[b][w]
    BY <1>8, <1>t DEF CloseSession, Crash, TypeOK
  <2>2. row' = row /\ runs' = runs /\ escalations' = escalations
    BY <1>8 DEF CloseSession, Crash, table
  <2>3. CountsTrailRuns' /\ GivesUpOnlyWhenExhausted'
    BY <1>n, <2>1, <2>2, RowFields DEF CountsTrailRuns, GivesUpOnlyWhenExhausted
  <2>4. pc'[a] = "idle" /\ \A b \in Actors : b # a => pc'[b] = pc[b] /\ cur'[b] = cur[b]
    BY <1>8, <1>t DEF CloseSession, Crash, Goto, TypeOK
  <2>5. DecidedLate'
    BY <2>2, <2>4 DEF DecidedLate
  <2>6. QED
    BY <2>3, <2>5
<1>9. ASSUME (\E a \in Actors, w \in Workflows : RefuseKind(a, w)) \/ UNCHANGED vars
      PROVE EarnedInv'
  <2>1. UNCHANGED <<row, copy, runs, escalations, pc, cur>>
    BY <1>9 DEF RefuseKind, vars, table
  <2>2. CountsTrailRuns'
    BY <2>1 DEF CountsTrailRuns
  <2>3. DecidedLate'
    BY <2>1 DEF DecidedLate
  <2>4. GivesUpOnlyWhenExhausted'
    BY <2>1 DEF GivesUpOnlyWhenExhausted
  <2>5. QED
    BY <2>2, <2>3, <2>4
<1>10. QED
  BY <1>1, <1>2, <1>3, <1>4, <1>5, <1>6, <1>7, <1>8, <1>9 DEF Next, Step, RunStep

(* Nothing has been run, counted or failed at the start.                    *)
LEMMA EarnedInvInit == Init => EarnedInv
<1> SUFFICES ASSUME Init PROVE EarnedInv
  OBVIOUS
<1>1. CountsTrailRuns
  BY RowFields DEF Init, CountsTrailRuns
<1>2. DecidedLate /\ GivesUpOnlyWhenExhausted
  BY RowFields DEF Init, DecidedLate, GivesUpOnlyWhenExhausted
<1>3. QED
  BY <1>1, <1>2 DEF EarnedInv

(* However many runners share the table, whatever stale copies they hold   *)
(* and wherever they crash: no workflow is failed, and no operator told    *)
(* that it failed, before MaxAttempts runs of it have begun.  (Of risks to *)
(* a delivery an agent tells in any run: AlertRisks.)                      *)
THEOREM NobodyGivesUpEarly == Spec => []GivesUpOnlyWhenExhausted
<1>1. EarnedInv => GivesUpOnlyWhenExhausted
  BY DEF EarnedInv
<1>2. QED
  BY <1>1, TypeInvInit, TypeInvNext, EarnedInvInit, EarnedInvNext, PTL DEF Spec

(***************************************************************************)
(* Nobody is forgotten                                                     *)
(***************************************************************************)

(* A request that only creates a workflow never comes to run one. *)
SubmittersOnlySubmit ==
  \A a \in Submitters : pc[a] \in {"idle", "created", "loop"} /\ batch[a] = {}

AnsweredInv == SubmittersOnlySubmit /\ FailedIsEscalated /\ WaitingHasApproval

(* Only runners run.                                                        *)
LEMMA SubmittersNext == TypeInv /\ SubmittersOnlySubmit /\ [Next]_vars => SubmittersOnlySubmit'
<1> SUFFICES ASSUME TypeInv, SubmittersOnlySubmit, [Next]_vars PROVE SubmittersOnlySubmit'
  OBVIOUS
<1>t. /\ pc \in [Actors -> Label] /\ batch \in [Actors -> SUBSET Workflows]
      /\ Submitters \cap Handlers = {} /\ Submitters \cap Pollers = {} /\ Submitters \subseteq Actors
  BY ConstantsOK DEF TypeInv, TypeOK, Actors, Runners
<1>1. ASSUME NEW a \in Actors, Create(a) \/ CloseSession(a) \/ Crash(a) PROVE SubmittersOnlySubmit'
  BY <1>1, <1>t DEF Create, CloseSession, Crash, Goto, SubmittersOnlySubmit
<1>2. ASSUME NEW a \in Actors, AuditCreated(a) \/ Poll(a) PROVE SubmittersOnlySubmit'
  BY <1>2, <1>t DEF AuditCreated, Poll, Goto, SubmittersOnlySubmit
<1>3. ASSUME NEW a \in Actors, NEW w \in Workflows, RefuseKind(a, w) \/ MarkRunning(a, w)
      PROVE SubmittersOnlySubmit'
  BY <1>3, <1>t DEF RefuseKind, MarkRunning, IsNext, Goto, SubmittersOnlySubmit
<1>4. ASSUME NEW a \in Actors,
             AuditStarted(a) \/ Park(a) \/ AskApproval(a) \/ MarkCompleted(a) \/ AuditCompleted(a)
               \/ ReturnParked(a) \/ Retry(a) \/ AuditRetry(a)
      PROVE SubmittersOnlySubmit'
  <2>1. batch' = batch /\ pc[a] \notin {"idle", "created", "loop"}
        /\ \A b \in Actors : b # a => pc'[b] = pc[b]
    BY <1>4, <1>t DEF AuditStarted, Park, AskApproval, MarkCompleted, AuditCompleted, ReturnParked,
                      Retry, AuditRetry, Goto
  <2>2. QED
    BY <1>t, <2>1 DEF SubmittersOnlySubmit
<1>5. ASSUME NEW a \in Actors,
             MarkFailed(a) \/ AuditFailed(a) \/ Escalate(a) \/ AuditEscalation(a)
               \/ AlertRisks(a) \/ AuditRisks(a)
      PROVE SubmittersOnlySubmit'
  <2>1. batch' = batch /\ pc[a] \notin {"idle", "created", "loop"}
        /\ \A b \in Actors : b # a => pc'[b] = pc[b]
    BY <1>5, <1>t DEF MarkFailed, AuditFailed, Escalate, AuditEscalation, AlertRisks, AuditRisks, Goto
  <2>2. QED
    BY <1>t, <2>1 DEF SubmittersOnlySubmit
<1>6. CASE UNCHANGED vars
  BY <1>6 DEF vars, SubmittersOnlySubmit
<1>7. QED
  BY <1>1, <1>2, <1>3, <1>4, <1>5, <1>6 DEF Next, Step, RunStep

(* A step that fails or parks nothing, takes back no alert and no approval, *)
(* and leaves those who are about to alert or to ask where they are,        *)
(* forgets nobody.                                                          *)
LEMMA NothingForgotten ==
  ASSUME FailedIsEscalated, WaitingHasApproval,
         crashes' = 0 => crashes = 0,
         \A w \in Workflows : row'[w].status \in {"failed", "waiting_for_human"} =>
           row[w].status = row'[w].status,
         \A w \in Workflows : escalations[w] > 0 => escalations'[w] > 0,
         approvals \subseteq approvals',
         \A r \in Runners : pc[r] \in {"failed", "escalating", "asking"} =>
           pc'[r] = pc[r] /\ cur'[r] = cur[r]
  PROVE  FailedIsEscalated' /\ WaitingHasApproval'
<1>1. ASSUME crashes' = 0, NEW w \in Workflows, row'[w].status = "failed"
      PROVE  escalations'[w] > 0 \/ \E r \in Runners : cur'[r] = w /\ pc'[r] \in {"failed", "escalating"}
  BY <1>1 DEF FailedIsEscalated
<1>2. ASSUME crashes' = 0, NEW w \in Workflows, row'[w].status = "waiting_for_human"
      PROVE  w \in approvals' \/ \E r \in Runners : cur'[r] = w /\ pc'[r] = "asking"
  BY <1>2 DEF WaitingHasApproval
<1>3. QED
  BY <1>1, <1>2 DEF FailedIsEscalated, WaitingHasApproval

(* The five steps between a failure and its alert, and between a workflow   *)
(* that waits and the approval it waits for, hand the duty on.              *)
LEMMA AnsweredNext == TypeInv /\ AnsweredInv /\ [Next]_vars => AnsweredInv'
<1> SUFFICES ASSUME TypeInv, AnsweredInv, [Next]_vars PROVE FailedIsEscalated' /\ WaitingHasApproval'
  BY SubmittersNext DEF AnsweredInv
<1>t. TypeOK /\ InHand /\ SubmittersOnlySubmit /\ FailedIsEscalated /\ WaitingHasApproval
  BY DEF TypeInv, AnsweredInv
<1>p. pc \in [Actors -> Label] /\ cur \in [Actors -> Workflows \cup {NoWorkflow}]
      /\ \A w \in Workflows : escalations[w] \in Nat
  BY <1>t DEF TypeOK
<1>r. /\ Runners \subseteq Actors
      /\ \A a \in Actors : pc[a] \notin {"idle", "created", "loop"} => a \in Runners /\ cur[a] \in Workflows
  BY <1>t DEF Actors, SubmittersOnlySubmit, InHand
<1>1. ASSUME NEW a \in Actors, Create(a) PROVE FailedIsEscalated' /\ WaitingHasApproval'
  <2>1. created + 1 \in Workflows
    BY <1>1, <1>t, ConstantsOK DEF Create, TypeOK, Workflows
  <2>2. /\ row'[created + 1] = NewRow
        /\ \A w \in Workflows : w # created + 1 => row'[w] = row[w]
    BY <1>1, <1>t, <2>1 DEF Create, TypeOK
  <2>3. \A w \in Workflows : row'[w].status \in {"failed", "waiting_for_human"} =>
          row[w].status = row'[w].status
    BY <2>2, RowFields
  <2>4. /\ crashes' = crashes /\ escalations' = escalations /\ approvals' = approvals /\ pc[a] = "idle"
        /\ \A b \in Actors : b # a => pc'[b] = pc[b] /\ cur'[b] = cur[b]
    BY <1>1, <1>p DEF Create, Goto
  <2>5. QED
    BY <1>t, <1>r, <2>3, <2>4, NothingForgotten
<1>2. ASSUME NEW a \in Actors, NEW w \in Workflows, MarkRunning(a, w)
      PROVE  FailedIsEscalated' /\ WaitingHasApproval'
  <2>1. \A v \in Workflows : row'[v].status = IF v = w THEN "running" ELSE row[v].status
    BY <1>2, <1>t DEF MarkRunning, TypeOK
  <2>2. /\ crashes' = crashes /\ escalations' = escalations /\ approvals' = approvals /\ pc[a] = "loop"
        /\ \A b \in Actors : b # a => pc'[b] = pc[b] /\ cur'[b] = cur[b]
    BY <1>2, <1>p DEF MarkRunning, Goto
  <2>3. QED
    BY <1>t, <1>r, <2>1, <2>2, NothingForgotten
<1>3. ASSUME NEW a \in Actors, MarkCompleted(a) \/ Retry(a)
      PROVE  FailedIsEscalated' /\ WaitingHasApproval'
  <2>1. PICK s \in {"completed", "pending"} : SetStatus(a, cur[a], s)
    BY <1>3 DEF MarkCompleted, Retry
  <2>2. cur[a] \in Workflows /\ s \in Status
    BY <1>3, <1>r DEF MarkCompleted, Retry, Goto, Status
  <2>3. \A v \in Workflows : row'[v].status = IF v = cur[a] THEN s ELSE row[v].status
    BY <1>t, <2>1, <2>2, SetStatusEffect
  <2>4. /\ crashes' = crashes /\ escalations' = escalations /\ approvals' = approvals
        /\ pc[a] \in {"agent", "parked", "reporting"} /\ cur' = cur
        /\ \A b \in Actors : b # a => pc'[b] = pc[b]
    BY <1>3, <1>p DEF MarkCompleted, Retry, Goto
  <2>5. QED
    BY <1>t, <1>r, <2>3, <2>4, NothingForgotten
<1>4. ASSUME NEW a \in Actors,
             Poll(a) \/ AuditCreated(a) \/ AuditStarted(a) \/ AuditCompleted(a) \/ ReturnParked(a)
               \/ AuditRetry(a) \/ AuditEscalation(a) \/ CloseSession(a)
               \/ AlertRisks(a) \/ AuditRisks(a)
      PROVE  FailedIsEscalated' /\ WaitingHasApproval'
  <2>1. UNCHANGED <<row, crashes, escalations, approvals>>
    BY <1>4 DEF Poll, AuditCreated, AuditStarted, AuditCompleted, ReturnParked, AuditRetry,
                AuditEscalation, CloseSession, AlertRisks, AuditRisks, table
  <2>2. /\ pc[a] \notin {"failed", "escalating", "asking"}
        /\ \A b \in Actors : b # a => pc'[b] = pc[b] /\ cur'[b] = cur[b]
    BY <1>4, <1>p DEF Poll, AuditCreated, AuditStarted, AuditCompleted, ReturnParked, AuditRetry,
                AuditEscalation, CloseSession, AlertRisks, AuditRisks, Goto, Leave, table
  <2>3. QED
    BY <1>t, <1>r, <2>1, <2>2, NothingForgotten
<1>5. ASSUME NEW a \in Actors, Park(a) PROVE FailedIsEscalated' /\ WaitingHasApproval'
  <2>1. /\ SetStatus(a, cur[a], "waiting_for_human") /\ "waiting_for_human" \in Status
        /\ cur[a] \in Workflows /\ a \in Runners
    BY <1>5, <1>r DEF Park, Goto, Status
  <2>2. \A v \in Workflows :
          row'[v].status = IF v = cur[a] THEN "waiting_for_human" ELSE row[v].status
    BY <1>t, <2>1, SetStatusEffect
  <2>3. /\ crashes' = crashes /\ escalations' = escalations /\ approvals' = approvals
        /\ pc[a] = "agent" /\ pc'[a] = "asking" /\ cur' = cur
        /\ \A b \in Actors : b # a => pc'[b] = pc[b]
    BY <1>5, <1>p DEF Park, Goto
  <2>4. FailedIsEscalated'
    BY <1>t, <1>r, <2>2, <2>3 DEF FailedIsEscalated
  <2>5. WaitingHasApproval'
    BY <1>t, <1>r, <2>1, <2>2, <2>3 DEF WaitingHasApproval
  <2>6. QED
    BY <2>4, <2>5
<1>6. ASSUME NEW a \in Actors, AskApproval(a) PROVE FailedIsEscalated' /\ WaitingHasApproval'
  <2>1. /\ crashes' = crashes /\ escalations' = escalations /\ approvals' = approvals \cup {cur[a]}
        /\ pc[a] = "asking" /\ cur' = cur /\ row' = row
        /\ \A b \in Actors : b # a => pc'[b] = pc[b]
    BY <1>6, <1>p DEF AskApproval, Goto
  <2>2. FailedIsEscalated'
    BY <1>t, <1>r, <2>1 DEF FailedIsEscalated
  <2>3. WaitingHasApproval'
    BY <1>t, <1>r, <2>1 DEF WaitingHasApproval
  <2>4. QED
    BY <2>2, <2>3
<1>7. ASSUME NEW a \in Actors, MarkFailed(a) PROVE FailedIsEscalated' /\ WaitingHasApproval'
  <2>1. /\ SetStatus(a, cur[a], "failed") /\ "failed" \in Status
        /\ cur[a] \in Workflows /\ a \in Runners
    BY <1>7, <1>r DEF MarkFailed, Status
  <2>2. \A v \in Workflows : row'[v].status = IF v = cur[a] THEN "failed" ELSE row[v].status
    BY <1>t, <2>1, SetStatusEffect
  <2>3. /\ crashes' = crashes /\ escalations' = escalations /\ approvals' = approvals
        /\ pc[a] \in {"agent", "parked"} /\ pc'[a] = "failed" /\ cur' = cur
        /\ \A b \in Actors : b # a => pc'[b] = pc[b]
    BY <1>7, <1>p DEF MarkFailed
  <2>4. FailedIsEscalated'
    BY <1>t, <1>r, <2>1, <2>2, <2>3 DEF FailedIsEscalated
  <2>5. WaitingHasApproval'
    BY <1>t, <1>r, <2>2, <2>3 DEF WaitingHasApproval
  <2>6. QED
    BY <2>4, <2>5
<1>8. ASSUME NEW a \in Actors, AuditFailed(a) PROVE FailedIsEscalated' /\ WaitingHasApproval'
  <2>1. /\ crashes' = crashes /\ escalations' = escalations /\ approvals' = approvals
        /\ pc[a] = "failed" /\ pc'[a] = "escalating" /\ cur' = cur /\ row' = row
        /\ \A b \in Actors : b # a => pc'[b] = pc[b]
    BY <1>8, <1>p DEF AuditFailed, Goto
  <2>2. FailedIsEscalated'
    BY <1>t, <1>r, <2>1 DEF FailedIsEscalated
  <2>3. WaitingHasApproval'
    BY <1>t, <1>r, <2>1 DEF WaitingHasApproval
  <2>4. QED
    BY <2>2, <2>3
<1>9. ASSUME NEW a \in Actors, Escalate(a) PROVE FailedIsEscalated' /\ WaitingHasApproval'
  <2>1. /\ crashes' = crashes /\ approvals' = approvals
        /\ pc[a] = "escalating" /\ cur' = cur /\ row' = row
        /\ \A b \in Actors : b # a => pc'[b] = pc[b]
    BY <1>9, <1>p DEF Escalate, Goto
  <2>2. /\ escalations'[cur[a]] > 0
        /\ \A w \in Workflows : escalations[w] > 0 => escalations'[w] > 0
    <3>1. cur[a] \in Workflows /\ escalations' = [escalations EXCEPT ![cur[a]] = @ + 1]
      BY <1>9, <1>r DEF Escalate, Goto
    <3>2. escalations \in [Workflows -> Nat]
      BY <1>t DEF TypeOK
    <3>3. QED
      BY <3>1, <3>2
  <2>3. FailedIsEscalated'
    BY <1>t, <1>r, <2>1, <2>2 DEF FailedIsEscalated
  <2>4. WaitingHasApproval'
    BY <1>t, <1>r, <2>1 DEF WaitingHasApproval
  <2>5. QED
    BY <2>3, <2>4
<1>10. ASSUME NEW a \in Actors, Crash(a) PROVE FailedIsEscalated' /\ WaitingHasApproval'
  <2>1. crashes' # 0
    BY <1>10, <1>t, ConstantsOK DEF Crash, TypeOK
  <2>2. QED
    BY <2>1 DEF FailedIsEscalated, WaitingHasApproval
<1>11. ASSUME (\E a \in Actors, w \in Workflows : RefuseKind(a, w)) \/ UNCHANGED vars
       PROVE FailedIsEscalated' /\ WaitingHasApproval'
  <2>1. UNCHANGED <<row, crashes, escalations, approvals, pc, cur>>
    BY <1>11 DEF RefuseKind, vars, table
  <2>2. QED
    BY <1>t, <2>1, NothingForgotten
<1>12. QED
  BY <1>1, <1>2, <1>3, <1>4, <1>5, <1>6, <1>7, <1>8, <1>9, <1>10, <1>11 DEF Next, Step, RunStep

(* At the start there is nobody to forget.                                  *)
LEMMA AnsweredInit == Init => AnsweredInv
<1> SUFFICES ASSUME Init PROVE AnsweredInv
  OBVIOUS
<1>1. \A w \in Workflows : row[w].status = "absent"
  BY RowFields DEF Init
<1>2. SubmittersOnlySubmit
  BY DEF Init, SubmittersOnlySubmit, Actors
<1>3. QED
  BY <1>1, <1>2 DEF AnsweredInv, FailedIsEscalated, WaitingHasApproval

(* However many runners share the table: as long as no session is lost,     *)
(* every failed workflow has its alert, or the runner that failed it is     *)
(* about to raise it (Orchestrator.run_workflow, EscalationService.create). *)
THEOREM NoFailureGoesUnseen == Spec => []FailedIsEscalated
<1>1. AnsweredInv => FailedIsEscalated
  BY DEF AnsweredInv
<1>2. QED
  BY <1>1, TypeInvInit, TypeInvNext, AnsweredInit, AnsweredNext, PTL DEF Spec

(* And every workflow that waits for a human has an approval to be found,   *)
(* or its agent is about to request it (ApprovalService.request).           *)
THEOREM NobodyWaitsUnasked == Spec => []WaitingHasApproval
<1>1. AnsweredInv => WaitingHasApproval
  BY DEF AnsweredInv
<1>2. QED
  BY <1>1, TypeInvInit, TypeInvNext, AnsweredInit, AnsweredNext, PTL DEF Spec

(***************************************************************************)
(* One runner                                                              *)
(***************************************************************************)

(* The status of the row a runner has in hand, by what it does next         *)
StatusAt(label) ==
  CASE label \in {"created", "retrying"}                      -> "pending"
    [] label \in {"started", "agent", "alerted", "reporting"} -> "running"
    [] label \in {"asking", "parked"}                         -> "waiting_for_human"
    [] label = "completed"                                    -> "completed"
    [] label \in {"failed", "escalating", "escalated"}         -> "failed"

(* Rows: what is not created is absent, attempts are counted and left while *)
(* a workflow is pending, only a failed one has alerted somebody, and only  *)
(* one that runs or has completed has told of risks, once.                  *)
RowsCounted ==
  \A w \in Workflows :
    /\ w > created => row[w] = NoRow
    /\ row[w].attempts = runs[w] /\ runs[w] <= MaxAttempts
    /\ row[w].status = "pending" => runs[w] < MaxAttempts
    /\ row[w].status # "failed" => escalations[w] = 0
    /\ risks[w] # 0 => risks[w] = 1 /\ row[w].status \in {"running", "completed"}

(* The session of a runner that nobody runs beside: its copies are true.    *)
SessionTrue(r) ==
  /\ \A w \in batch[r] : row[w].status = "pending" /\ copy[r][w] = row[w]
  /\ pc[r] \notin {"idle", "loop"} =>
       /\ row[cur[r]].status = StatusAt(pc[r]) /\ copy[r][cur[r]] = row[cur[r]]
       /\ cur[r] \notin batch[r]
  /\ pc[r] \in {"failed", "escalating"} => escalations[cur[r]] = 0
  /\ pc[r] \in {"started", "agent", "asking", "parked"} => risks[cur[r]] = 0

AloneInv == RowsCounted /\ \A r \in Runners : SessionTrue(r)

OneRunner == \A r, s \in Runners : r = s

LEMMA StatusAtIs ==
  /\ StatusAt("created") = "pending" /\ StatusAt("retrying") = "pending"
  /\ StatusAt("started") = "running" /\ StatusAt("agent") = "running"
  /\ StatusAt("alerted") = "running" /\ StatusAt("reporting") = "running"
  /\ StatusAt("asking") = "waiting_for_human" /\ StatusAt("parked") = "waiting_for_human"
  /\ StatusAt("completed") = "completed"
  /\ StatusAt("failed") = "failed" /\ StatusAt("escalating") = "failed" /\ StatusAt("escalated") = "failed"
BY DEF StatusAt

(* What a runner has in hand has been created.                              *)
LEMMA HandIsCreated ==
  ASSUME TypeInv, NEW r \in Runners, SessionTrue(r), pc[r] \notin {"idle", "loop"}
  PROVE  cur[r] \in Workflows /\ row[cur[r]].status # "absent"
<1>1. cur[r] \in Workflows /\ pc[r] \in Label /\ row[cur[r]].status = StatusAt(pc[r])
  BY DEF TypeInv, TypeOK, InHand, SessionTrue, Actors
<1>2. StatusAt(pc[r]) # "absent"
  BY <1>1, StatusAtIs DEF Label
<1> QED BY <1>1, <1>2

(* A step that leaves a session and its rows alone.                         *)
LEMMA SessionKept ==
  ASSUME NEW r, SessionTrue(r), batch'[r] \subseteq batch[r], pc'[r] = pc[r],
         pc[r] \notin {"idle", "loop"} => cur'[r] = cur[r] /\ row'[cur[r]] = row[cur[r]],
         \A w \in batch[r] : row'[w] = row[w],
         copy'[r] = copy[r] /\ escalations' = escalations /\ risks' = risks
  PROVE  SessionTrue(r)'
BY DEF SessionTrue

(* The steps of one runner, or of those that only submit.                   *)
LEMMA AloneCreate ==
  ASSUME TypeInv, OneRunner, AloneInv, NEW a \in Actors, Create(a)
  PROVE  AloneInv' /\ Lifecycle!Submit(created + 1) /\ created + 1 \in Workflows
<1>t. TypeOK /\ pc \in [Actors -> Label] /\ cur \in [Actors -> Workflows \cup {NoWorkflow}]
  BY DEF TypeInv, TypeOK
<1> DEFINE w == created + 1
<1>1. w \in Workflows /\ w > created /\ created \in Nat
  BY <1>t, ConstantsOK DEF Create, TypeOK, Workflows
<1>2. /\ row' = [row EXCEPT ![w] = NewRow] /\ copy' = [copy EXCEPT ![a][w] = NewRow]
      /\ cur' = [cur EXCEPT ![a] = w] /\ pc' = [pc EXCEPT ![a] = "created"] /\ pc[a] = "idle"
      /\ created' = w /\ escalations' = escalations /\ risks' = risks
      /\ batch' = batch /\ runs' = runs
  BY DEF Create, Goto
<1> HIDE DEF w
<1>3. /\ row'[w] = NewRow /\ \A v \in Workflows : v # w => row'[v] = row[v]
      /\ row[w] = NoRow
  BY <1>t, <1>1, <1>2 DEF TypeOK, AloneInv, RowsCounted
<1>4. copy'[a][w] = NewRow /\ \A b \in Actors : b # a => copy'[b] = copy[b]
  BY <1>t, <1>1, <1>2 DEF TypeOK
<1>c. \A v \in Workflows : v # w => copy'[a][v] = copy[a][v]
  BY <1>t, <1>1, <1>2, RowFacts, CopyType DEF TypeOK
<1>5. /\ runs[w] = 0 /\ escalations[w] = 0 /\ risks[w] = 0
  BY <1>1, <1>3, RowFields DEF AloneInv, RowsCounted
<1>6. RowsCounted'
  <2> SUFFICES ASSUME NEW v \in Workflows
               PROVE  /\ v > created' => row'[v] = NoRow
                      /\ row'[v].attempts = runs'[v] /\ runs'[v] <= MaxAttempts
                      /\ row'[v].status = "pending" => runs'[v] < MaxAttempts
                      /\ row'[v].status # "failed" => escalations'[v] = 0
                      /\ risks'[v] # 0 => risks'[v] = 1 /\ row'[v].status \in {"running", "completed"}
    BY DEF RowsCounted
  <2>1. CASE v = w
    <3>1. ~(v > created')
      BY <1>1, <1>2, <2>1 DEF w
    <3>2. row'[v].attempts = 0 /\ runs'[v] = 0 /\ escalations'[v] = 0 /\ risks'[v] = 0
      BY <1>2, <1>3, <1>5, <2>1, RowFields
    <3> QED BY <3>1, <3>2, ConstantsOK
  <2>2. CASE v # w
    <3>1. v > created' => v > created
      BY <1>1, <1>2 DEF Workflows, w
    <3> QED BY <1>2, <1>3, <2>2, <3>1 DEF AloneInv, RowsCounted
  <2> QED BY <2>1, <2>2
<1>7. ASSUME NEW r \in Runners PROVE SessionTrue(r)'
  <2>1. r \in Actors /\ SessionTrue(r) /\ batch[r] \subseteq Workflows
    BY <1>t DEF AloneInv, Actors, TypeOK
  <2>2. w \notin batch[r]
    BY <1>3, <2>1, RowFields DEF SessionTrue
  <2>3. \A v \in batch[r] : row'[v] = row[v]
    BY <1>3, <2>1, <2>2
  <2>4. CASE r = a
    <3>1. pc'[r] = "created" /\ cur'[r] = w
      BY <1>t, <1>2, <2>1, <2>4
    <3>2. \A v \in batch'[r] : row'[v].status = "pending" /\ copy'[r][v] = row'[v]
      BY <1>2, <1>c, <2>1, <2>2, <2>3, <2>4 DEF SessionTrue
    <3>3. row'[w].status = StatusAt("created") /\ copy'[r][w] = row'[w] /\ w \notin batch'[r]
      BY <1>2, <1>3, <1>4, <2>2, <2>4, RowFields, StatusAtIs
    <3> QED BY <3>1, <3>2, <3>3 DEF SessionTrue
  <2>5. CASE r # a
    <3>1. pc'[r] = pc[r] /\ cur'[r] = cur[r] /\ copy'[r] = copy[r] /\ batch'[r] = batch[r]
      BY <1>t, <1>2, <1>4, <2>1, <2>5
    <3>2. pc[r] \notin {"idle", "loop"} => row'[cur[r]] = row[cur[r]]
      <4> SUFFICES ASSUME pc[r] \notin {"idle", "loop"} PROVE row'[cur[r]] = row[cur[r]]
        OBVIOUS
      <4>1. cur[r] \in Workflows /\ cur[r] # w
        BY <1>3, <2>1, HandIsCreated, RowFields
      <4> QED BY <1>3, <4>1
    <3> QED BY <1>2, <2>1, <2>3, <3>1, <3>2, SessionKept
  <2> QED BY <2>4, <2>5
<1>8. Lifecycle!Submit(w)
  <2>1. StatusOf[w] = "absent"
    BY <1>1, <1>3, RowFields DEF StatusOf
  <2>2. StatusOf' = [StatusOf EXCEPT ![w] = "pending"]
    BY <1>1, <1>3, RowFields DEF StatusOf
  <2>3. AttemptsOf' = AttemptsOf
    BY <1>1, <1>3, RowFields DEF AttemptsOf
  <2> QED BY <1>2, <2>1, <2>2, <2>3 DEF Lifecycle!Submit, Lifecycle!Move
<1> QED BY <1>1, <1>6, <1>7, <1>8 DEF AloneInv, w

(* mark_running of a workflow of the batch, which is pending.               *)
LEMMA AloneMarkRunning ==
  ASSUME TypeInv, SubmittersOnlySubmit, OneRunner, AloneInv,
         NEW a \in Actors, NEW w \in Workflows, MarkRunning(a, w)
  PROVE  AloneInv' /\ Lifecycle!Start(w)
<1>t. TypeOK /\ pc \in [Actors -> Label] /\ cur \in [Actors -> Workflows \cup {NoWorkflow}]
      /\ batch \in [Actors -> SUBSET Workflows]
  BY DEF TypeInv, TypeOK
<1>1. w \in batch[a] /\ a \in Runners /\ SessionTrue(a)
  BY DEF MarkRunning, IsNext, SubmittersOnlySubmit, AloneInv, Actors
<1> DEFINE n == [status |-> "running", attempts |-> AttemptOf(a, w)]
<1>2. /\ row[w].status = "pending" /\ copy[a][w] = row[w] /\ row[w].attempts = runs[w]
      /\ runs[w] < MaxAttempts /\ runs[w] \in Nat /\ escalations[w] = 0 /\ risks[w] = 0
  BY <1>t, <1>1 DEF SessionTrue, AloneInv, RowsCounted, TypeOK
<1>3. n \in Row /\ n.status = "running" /\ n.attempts = runs[w] + 1
  BY <1>2 DEF AttemptOf, Row, Status
<1>4. /\ row' = [row EXCEPT ![w] = n] /\ copy' = [copy EXCEPT ![a][w] = n]
      /\ runs' = [runs EXCEPT ![w] = @ + 1] /\ created' = created
      /\ escalations' = escalations /\ risks' = risks
      /\ pc' = [pc EXCEPT ![a] = "started"] /\ cur' = [cur EXCEPT ![a] = w]
      /\ batch' = [batch EXCEPT ![a] = @ \ {w}]
  BY DEF MarkRunning, Goto
<1> HIDE DEF n
<1>5. /\ row'[w] = n /\ \A v \in Workflows : v # w => row'[v] = row[v]
  BY <1>t, <1>4 DEF TypeOK
<1>6. copy'[a][w] = n /\ \A v \in Workflows : v # w => copy'[a][v] = copy[a][v]
  BY <1>t, <1>3, <1>4, CopyType DEF TypeOK
<1>7. runs'[w] = runs[w] + 1 /\ \A v \in Workflows : v # w => runs'[v] = runs[v]
  BY <1>t, <1>4 DEF TypeOK
<1>8. pc'[a] = "started" /\ cur'[a] = w /\ batch'[a] = batch[a] \ {w}
  BY <1>t, <1>4
<1>9. RowsCounted'
  <2>1. w <= created /\ MaxAttempts \in Nat /\ created \in Nat
    <3>1. ~(w > created)
      BY <1>2, RowFields DEF AloneInv, RowsCounted
    <3> QED BY <1>t, <3>1, ConstantsOK DEF TypeOK, Workflows
  <2> SUFFICES ASSUME NEW v \in Workflows
               PROVE  /\ v > created' => row'[v] = NoRow
                      /\ row'[v].attempts = runs'[v] /\ runs'[v] <= MaxAttempts
                      /\ row'[v].status = "pending" => runs'[v] < MaxAttempts
                      /\ row'[v].status # "failed" => escalations'[v] = 0
                      /\ risks'[v] # 0 => risks'[v] = 1 /\ row'[v].status \in {"running", "completed"}
    BY DEF RowsCounted
  <2>2. CASE v = w
    <3>1. ~(v > created')
      BY <1>4, <2>1, <2>2 DEF Workflows
    <3>2. risks'[v] = 0
      BY <1>2, <1>4, <2>2
    <3> QED BY <1>2, <1>3, <1>4, <1>5, <1>7, <2>1, <2>2, <3>1, <3>2
  <2>3. CASE v # w
    BY <1>4, <1>5, <1>7, <2>3 DEF AloneInv, RowsCounted
  <2> QED BY <2>2, <2>3
<1>10. SessionTrue(a)'
  <2>1. batch[a] \subseteq Workflows /\ a \in Actors
    BY <1>t
  <2>2. \A v \in batch'[a] : row'[v].status = "pending" /\ copy'[a][v] = row'[v]
    BY <1>1, <1>5, <1>6, <1>8, <2>1 DEF SessionTrue
  <2>3. row'[w].status = StatusAt("started") /\ copy'[a][w] = row'[w] /\ w \notin batch'[a]
    BY <1>3, <1>5, <1>6, <1>8, StatusAtIs
  <2>4. risks'[w] = 0
    BY <1>2, <1>4
  <2> QED BY <1>8, <2>2, <2>3, <2>4 DEF SessionTrue
<1>11. AloneInv'
  BY <1>1, <1>9, <1>10 DEF OneRunner, AloneInv
<1>12. Lifecycle!Start(w)
  <2>1. StatusOf[w] = "pending" /\ AttemptsOf[w] = runs[w]
    BY <1>2 DEF StatusOf, AttemptsOf
  <2>2. StatusOf' = [StatusOf EXCEPT ![w] = "running"]
    BY <1>3, <1>5 DEF StatusOf
  <2>3. AttemptsOf' = [AttemptsOf EXCEPT ![w] = @ + 1]
    BY <1>2, <1>3, <1>5 DEF AttemptsOf
  <2> QED BY <1>2, <1>4, <2>1, <2>2, <2>3 DEF Lifecycle!Start, Lifecycle!Move
<1> QED BY <1>11, <1>12

(* A runner commits the status s of its workflow and goes on to a label     *)
(* that status belongs to.                                                  *)
LEMMA AloneSetStatus ==
  ASSUME TypeInv, OneRunner, AloneInv, NEW a \in Runners, pc[a] \in {"agent", "parked", "reporting"},
         NEW s \in {"pending", "waiting_for_human", "completed", "failed"},
         SetStatus(a, cur[a], s), NEW to \in {"asking", "completed", "retrying", "failed"},
         StatusAt(to) = s, pc' = [pc EXCEPT ![a] = to],
         s = "pending" => ~Exhausted(a), pc[a] = "reporting" => s = "completed",
         UNCHANGED <<created, escalations, risks, batch, cur, runs>>
  PROVE  /\ AloneInv' /\ cur[a] \in Workflows
         /\ StatusOf[cur[a]] = StatusAt(pc[a])
         /\ StatusOf' = [StatusOf EXCEPT ![cur[a]] = s] /\ AttemptsOf' = AttemptsOf
         /\ AttemptsOf[cur[a]] = copy[a][cur[a]].attempts
         /\ AttemptsOf[cur[a]] \in Nat /\ AttemptsOf[cur[a]] <= MaxAttempts
         /\ pc[a] # "reporting" => risks[cur[a]] = 0
<1> DEFINE w == cur[a]
<1>t. TypeOK /\ pc \in [Actors -> Label] /\ batch \in [Actors -> SUBSET Workflows] /\ a \in Actors
  BY DEF TypeInv, TypeOK, Actors
<1>1. w \in Workflows /\ s \in Status /\ SessionTrue(a)
  BY <1>t DEF TypeInv, InHand, Status, AloneInv
<1>2. /\ row[w].status = StatusAt(pc[a]) /\ copy[a][w] = row[w] /\ w \notin batch[a]
      /\ row[w].attempts = runs[w] /\ runs[w] \in Nat /\ runs[w] <= MaxAttempts
      /\ row[w].status \in {"running", "waiting_for_human"}
  BY <1>t, <1>1, StatusAtIs DEF SessionTrue, AloneInv, RowsCounted, TypeOK
<1>0. pc[a] # "reporting" => risks[w] = 0
  BY <1>1 DEF SessionTrue
<1> HIDE DEF w
<1>s. SetStatus(a, w, s)
  BY DEF w
<1>3. /\ \A v \in Workflows : row'[v].attempts = row[v].attempts
      /\ \A v \in Workflows : row'[v].status = IF v = w THEN s ELSE row[v].status
  BY <1>t, <1>1, <1>s, SetStatusEffect
<1>4. /\ row' = [row EXCEPT ![w] = [row[w] EXCEPT !.status = s]]
      /\ copy' = [copy EXCEPT ![a][w] = [copy[a][w] EXCEPT !.status = s]]
  BY <1>t, <1>1, <1>s, SetStatusType DEF TypeOK
<1> DEFINE x == [row[w] EXCEPT !.status = s]
<1>5. x \in Row /\ row' = [row EXCEPT ![w] = x] /\ copy' = [copy EXCEPT ![a][w] = x]
  BY <1>t, <1>1, <1>2, <1>4, RowFacts DEF TypeOK
<1> HIDE DEF x
<1>6. /\ row'[w] = x /\ \A v \in Workflows : v # w => row'[v] = row[v]
  BY <1>t, <1>1, <1>5 DEF TypeOK
<1>7. copy'[a][w] = x /\ \A v \in Workflows : v # w => copy'[a][v] = copy[a][v]
  BY <1>t, <1>1, <1>5, CopyType DEF TypeOK
<1>8. pc'[a] = to /\ batch'[a] = batch[a] /\ cur'[a] = w
  BY <1>t DEF w
<1>9. RowsCounted'
  <2>1. ~(w > created) /\ MaxAttempts \in Nat
    BY <1>1, <1>2, RowFields, ConstantsOK DEF AloneInv, RowsCounted
  <2>2. s = "pending" => runs[w] < MaxAttempts
    BY <1>2, <2>1 DEF Exhausted, w
  <2> SUFFICES ASSUME NEW v \in Workflows
               PROVE  /\ v > created' => row'[v] = NoRow
                      /\ row'[v].attempts = runs'[v] /\ runs'[v] <= MaxAttempts
                      /\ row'[v].status = "pending" => runs'[v] < MaxAttempts
                      /\ row'[v].status # "failed" => escalations'[v] = 0
                      /\ risks'[v] # 0 => risks'[v] = 1 /\ row'[v].status \in {"running", "completed"}
    BY DEF RowsCounted
  <2>3. CASE v = w
    <3>1. risks'[w] # 0 => risks'[w] = 1 /\ row'[w].status \in {"running", "completed"}
      BY <1>0, <1>1, <1>3 DEF AloneInv, RowsCounted
    <3> QED BY <1>1, <1>2, <1>3, <2>1, <2>2, <2>3, <3>1 DEF AloneInv, RowsCounted
  <2>4. CASE v # w
    BY <1>6, <2>4 DEF AloneInv, RowsCounted
  <2> QED BY <2>3, <2>4
<1>10. SessionTrue(a)'
  <2>1. batch[a] \subseteq Workflows
    BY <1>t
  <2>2. \A v \in batch'[a] : row'[v].status = "pending" /\ copy'[a][v] = row'[v]
    BY <1>1, <1>2, <1>6, <1>7, <1>8, <2>1 DEF SessionTrue
  <2>3. row'[w].status = StatusAt(to) /\ copy'[a][w] = row'[w] /\ w \notin batch'[a]
    BY <1>1, <1>2, <1>3, <1>6, <1>7, <1>8
  <2>4. escalations'[w] = 0
    BY <1>1, <1>2 DEF AloneInv, RowsCounted
  <2>5. to = "asking" => risks'[w] = 0
    BY <1>0, StatusAtIs
  <2> QED BY <1>8, <2>2, <2>3, <2>4, <2>5 DEF SessionTrue
<1>11. AloneInv'
  BY <1>9, <1>10 DEF OneRunner, AloneInv
<1>12. StatusOf' = [StatusOf EXCEPT ![w] = s] /\ AttemptsOf' = AttemptsOf
  <2>1. StatusOf' = [StatusOf EXCEPT ![w] = s]
    BY <1>1, <1>3 DEF StatusOf
  <2>2. AttemptsOf' = AttemptsOf
    BY <1>3 DEF AttemptsOf
  <2> QED BY <2>1, <2>2
<1>13. /\ StatusOf[w] = StatusAt(pc[a]) /\ AttemptsOf[w] = runs[w] /\ copy[a][w].attempts = runs[w]
  BY <1>1, <1>2 DEF StatusOf, AttemptsOf
<1> QED BY <1>0, <1>1, <1>2, <1>11, <1>12, <1>13 DEF w

(* A step that changes no row and no session but its actor's.               *)
LEMMA AloneQuiet ==
  ASSUME TypeInv, AloneInv, NEW a \in Actors,
         UNCHANGED <<created, row, escalations, risks, runs>>,
         \A b \in Actors : b # a =>
           pc'[b] = pc[b] /\ cur'[b] = cur[b] /\ batch'[b] = batch[b] /\ copy'[b] = copy[b],
         a \in Runners => SessionTrue(a)'
  PROVE  AloneInv' /\ UNCHANGED Lifecycle!lvars
<1>1. RowsCounted'
  BY DEF AloneInv, RowsCounted
<1>2. ASSUME NEW r \in Runners, r # a PROVE SessionTrue(r)'
  <2>1. SessionTrue(r) /\ r \in Actors
    BY DEF AloneInv, Actors
  <2> QED BY <1>2, <2>1, SessionKept
<1>3. AloneInv'
  BY <1>1, <1>2 DEF AloneInv
<1>4. UNCHANGED Lifecycle!lvars
  BY DEF Lifecycle!lvars, StatusOf, AttemptsOf
<1> QED BY <1>3, <1>4

(* The audit entries, the approval, and the end of a run.                   *)
LEMMA AloneAudit ==
  ASSUME TypeInv, SubmittersOnlySubmit, AloneInv, NEW a \in Actors,
         \/ AuditStarted(a) \/ AskApproval(a) \/ AuditFailed(a)
         \/ AuditCompleted(a) \/ ReturnParked(a) \/ AuditRetry(a) \/ AuditEscalation(a)
         \/ AuditRisks(a)
  PROVE  AloneInv' /\ UNCHANGED Lifecycle!lvars
<1>t. /\ pc \in [Actors -> Label] /\ cur \in [Actors -> Workflows \cup {NoWorkflow}]
      /\ batch \in [Actors -> SUBSET Workflows]
  BY DEF TypeInv, TypeOK
<1>1. UNCHANGED <<created, row, escalations, risks, runs, batch, copy>>
  BY DEF AuditStarted, AskApproval, AuditFailed, AuditCompleted, ReturnParked, AuditRetry,
         AuditEscalation, AuditRisks, table
<1>2. \A b \in Actors : b # a => pc'[b] = pc[b] /\ cur'[b] = cur[b]
  BY <1>t DEF AuditStarted, AskApproval, AuditFailed, AuditCompleted, ReturnParked, AuditRetry,
              AuditEscalation, AuditRisks, Goto, Leave
<1>3. pc[a] \notin {"idle", "created", "loop"} /\ a \in Runners /\ SessionTrue(a)
  <2>1. pc[a] \notin {"idle", "created", "loop"}
    BY DEF AuditStarted, AskApproval, AuditFailed, AuditCompleted, ReturnParked, AuditRetry,
           AuditEscalation, AuditRisks, Goto
  <2> QED BY <2>1 DEF SubmittersOnlySubmit, Actors, AloneInv
<1>4. \/ pc'[a] = "loop"
      \/ /\ cur'[a] = cur[a]
         /\ \/ pc[a] = "started" /\ pc'[a] = "agent"
            \/ pc[a] = "asking" /\ pc'[a] = "parked"
            \/ pc[a] = "failed" /\ pc'[a] = "escalating"
            \/ pc[a] = "alerted" /\ pc'[a] = "reporting"
  BY <1>t DEF AuditStarted, AskApproval, AuditFailed, AuditCompleted, ReturnParked, AuditRetry,
              AuditEscalation, AuditRisks, Goto, Leave
<1>5. SessionTrue(a)'
  <2>1. CASE pc'[a] = "loop"
    BY <1>1, <1>3, <2>1 DEF SessionTrue
  <2>2. CASE pc'[a] # "loop"
    <3>1. /\ cur'[a] = cur[a] /\ StatusAt(pc'[a]) = StatusAt(pc[a])
          /\ pc'[a] \in {"failed", "escalating"} => pc[a] = "failed"
          /\ pc'[a] \in {"started", "agent", "asking", "parked"} => pc[a] \in {"started", "asking"}
      BY <1>4, <2>2, StatusAtIs
    <3> QED BY <1>1, <1>3, <3>1 DEF SessionTrue
  <2> QED BY <2>1, <2>2
<1> QED BY <1>1, <1>2, <1>5, AloneQuiet

(* What opens and closes sessions, and what takes a workflow of a kind      *)
(* without an agent off a batch.                                            *)
LEMMA AloneSession ==
  ASSUME TypeInv, AloneInv, NEW a \in Actors,
         \/ Poll(a) \/ AuditCreated(a) \/ CloseSession(a) \/ Crash(a)
         \/ \E w \in Workflows : RefuseKind(a, w)
  PROVE  AloneInv' /\ UNCHANGED Lifecycle!lvars
<1>t. /\ pc \in [Actors -> Label] /\ cur \in [Actors -> Workflows \cup {NoWorkflow}]
      /\ batch \in [Actors -> SUBSET Workflows] /\ copy \in [Actors -> [Workflows -> Row]]
      /\ row \in [Workflows -> Row]
  BY DEF TypeInv, TypeOK
<1>1. UNCHANGED <<created, row, escalations, risks, runs>>
  BY DEF Poll, AuditCreated, CloseSession, Crash, RefuseKind, table
<1>2. \A b \in Actors : b # a => pc'[b] = pc[b] /\ cur'[b] = cur[b]
  BY <1>t DEF Poll, AuditCreated, CloseSession, Crash, RefuseKind, Goto, Leave
<1>3. \A b \in Actors : b # a => batch'[b] = batch[b] /\ copy'[b] = copy[b]
  BY <1>t DEF Poll, AuditCreated, CloseSession, Crash, RefuseKind
<1>4. ASSUME a \in Runners PROVE SessionTrue(a)'
  <2>1. SessionTrue(a)
    BY <1>4 DEF AloneInv
  <2>2. CASE Poll(a)
    <3>1. pc'[a] = "loop" /\ batch'[a] = OldestPending
      BY <1>t, <2>2 DEF Poll, Goto
    <3>2. \A w \in OldestPending : w \in Workflows /\ row[w].status = "pending"
      BY DEF OldestPending, Pending
    <3>3. \A w \in OldestPending : copy'[a][w] = row[w]
      BY <1>t, <2>2, <3>2 DEF Poll
    <3> QED BY <1>1, <3>1, <3>2, <3>3 DEF SessionTrue
  <2>3. CASE AuditCreated(a)
    <3>1. /\ pc[a] = "created" /\ pc'[a] = "loop" /\ batch'[a] \subseteq {cur[a]} /\ copy' = copy
      BY <1>t, <2>3 DEF AuditCreated, Goto
    <3>2. row[cur[a]].status = "pending" /\ copy[a][cur[a]] = row[cur[a]]
      BY <2>1, <3>1, StatusAtIs DEF SessionTrue
    <3> QED BY <1>1, <3>1, <3>2 DEF SessionTrue
  <2>4. CASE CloseSession(a) \/ Crash(a)
    <3>1. pc'[a] = "idle" /\ batch'[a] = {}
      BY <1>t, <2>4 DEF CloseSession, Crash, Goto
    <3> QED BY <3>1 DEF SessionTrue
  <2>5. CASE \E w \in Workflows : RefuseKind(a, w)
    <3>1. /\ pc[a] = "loop" /\ pc' = pc /\ cur' = cur /\ copy' = copy /\ batch'[a] \subseteq batch[a]
      BY <1>t, <2>5 DEF RefuseKind
    <3> QED BY <1>1, <2>1, <3>1, SessionKept
  <2> QED BY <2>2, <2>3, <2>4, <2>5
<1> QED BY <1>1, <1>2, <1>3, <1>4, AloneQuiet

(* The alert of a failed workflow, which nobody has raised before.          *)
LEMMA AloneEscalate ==
  ASSUME TypeInv, SubmittersOnlySubmit, OneRunner, AloneInv, NEW a \in Actors, Escalate(a)
  PROVE  AloneInv' /\ cur[a] \in Workflows /\ Lifecycle!Alert(cur[a])
<1>t. /\ pc \in [Actors -> Label] /\ escalations \in [Workflows -> Nat]
  BY DEF TypeInv, TypeOK
<1> DEFINE w == cur[a]
<1>1. /\ pc[a] = "escalating" /\ pc'[a] = "escalated" /\ w \in Workflows /\ a \in Runners
      /\ SessionTrue(a) /\ UNCHANGED <<created, row, risks, batch, cur, copy, runs>>
      /\ escalations' = [escalations EXCEPT ![w] = @ + 1]
  BY <1>t DEF Escalate, Goto, TypeInv, InHand, SubmittersOnlySubmit, Actors, AloneInv
<1>2. row[w].status = "failed" /\ escalations[w] = 0
  BY <1>1, StatusAtIs DEF SessionTrue
<1> HIDE DEF w
<1>3. escalations' = [escalations EXCEPT ![w] = 1] /\ \A v \in Workflows : v # w => escalations'[v] = escalations[v]
  BY <1>t, <1>1, <1>2
<1>4. RowsCounted'
  BY <1>1, <1>2, <1>3 DEF AloneInv, RowsCounted
<1>5. SessionTrue(a)'
  BY <1>1, StatusAtIs DEF SessionTrue
<1>6. AloneInv'
  BY <1>1, <1>4, <1>5 DEF OneRunner, AloneInv
<1>7. Lifecycle!Alert(w)
  <2>1. StatusOf[w] = "failed" /\ StatusOf' = StatusOf /\ AttemptsOf' = AttemptsOf
    BY <1>1, <1>2 DEF StatusOf, AttemptsOf
  <2> QED BY <1>1, <1>2, <1>3, <2>1 DEF Lifecycle!Alert
<1> QED BY <1>1, <1>6, <1>7 DEF w

(* The risks an agent has found, which it tells of before it returns.       *)
LEMMA AloneAlert ==
  ASSUME TypeInv, SubmittersOnlySubmit, OneRunner, AloneInv, NEW a \in Actors, AlertRisks(a)
  PROVE  AloneInv' /\ cur[a] \in Workflows /\ Lifecycle!Warn(cur[a])
<1>t. /\ pc \in [Actors -> Label] /\ risks \in [Workflows -> Nat]
  BY DEF TypeInv, TypeOK
<1> DEFINE w == cur[a]
<1>1. /\ pc[a] = "agent" /\ pc'[a] = "alerted" /\ w \in Workflows /\ a \in Runners
      /\ SessionTrue(a) /\ UNCHANGED <<created, row, escalations, batch, cur, copy, runs>>
      /\ risks' = [risks EXCEPT ![w] = @ + 1]
  BY <1>t DEF AlertRisks, Goto, TypeInv, InHand, SubmittersOnlySubmit, Actors, AloneInv
<1>2. row[w].status = "running" /\ risks[w] = 0
  BY <1>1, StatusAtIs DEF SessionTrue
<1> HIDE DEF w
<1>3. risks' = [risks EXCEPT ![w] = 1] /\ \A v \in Workflows : v # w => risks'[v] = risks[v]
  BY <1>t, <1>1, <1>2
<1>4. RowsCounted'
  <2>1. risks'[w] = 1
    BY <1>t, <1>1, <1>3
  <2> QED BY <1>1, <1>2, <1>3, <2>1 DEF AloneInv, RowsCounted
<1>5. SessionTrue(a)'
  BY <1>1, StatusAtIs DEF SessionTrue
<1>6. AloneInv'
  BY <1>1, <1>4, <1>5 DEF OneRunner, AloneInv
<1>7. Lifecycle!Warn(w)
  <2>1. StatusOf[w] = "running" /\ StatusOf' = StatusOf /\ AttemptsOf' = AttemptsOf
    BY <1>1, <1>2 DEF StatusOf, AttemptsOf
  <2> QED BY <1>1, <1>2, <1>3, <2>1 DEF Lifecycle!Warn
<1> QED BY <1>1, <1>6, <1>7 DEF w

(* Every commit of a runner that is alone is a step of the life cycle or    *)
(* leaves the status, the attempts and the alerts alone.                    *)
LEMMA AloneNext ==
  TypeInv /\ SubmittersOnlySubmit /\ OneRunner /\ AloneInv /\ [Next]_vars
    => AloneInv' /\ [Lifecycle!Next]_(Lifecycle!lvars)
<1> SUFFICES ASSUME TypeInv, SubmittersOnlySubmit, OneRunner, AloneInv, [Next]_vars
             PROVE  AloneInv' /\ [Lifecycle!Next]_(Lifecycle!lvars)
  OBVIOUS
<1>1. ASSUME NEW a \in Actors, Create(a) PROVE AloneInv' /\ Lifecycle!Next
  BY <1>1, AloneCreate DEF Lifecycle!Next
<1>2. ASSUME NEW a \in Actors, NEW w \in Workflows, MarkRunning(a, w) PROVE AloneInv' /\ Lifecycle!Next
  BY <1>2, AloneMarkRunning DEF Lifecycle!Next
<1>3. ASSUME NEW a \in Actors, Escalate(a) PROVE AloneInv' /\ Lifecycle!Next
  BY <1>3, AloneEscalate DEF Lifecycle!Next
<1>4. ASSUME NEW a \in Actors, Park(a) \/ MarkCompleted(a) \/ Retry(a) \/ MarkFailed(a)
      PROVE  AloneInv' /\ Lifecycle!Next
  <2> DEFINE w == cur[a]
  <2>1. pc[a] \in {"agent", "parked", "reporting"} /\ a \in Runners
    BY <1>4 DEF Park, MarkCompleted, Retry, MarkFailed, Goto, SubmittersOnlySubmit, Actors
  <2>2. StatusAt(pc[a]) \in {"running", "waiting_for_human"} /\ (pc[a] \in {"agent", "reporting"} => StatusAt(pc[a]) = "running")
    BY <2>1, StatusAtIs
  <2>3. UNCHANGED <<created, escalations, risks, batch, cur, runs>>
    BY <1>4 DEF Park, MarkCompleted, Retry, MarkFailed
  <2>4. CASE Park(a)
    <3>1. /\ SetStatus(a, cur[a], "waiting_for_human") /\ pc' = [pc EXCEPT ![a] = "asking"]
          /\ pc[a] = "agent"
      BY <2>4 DEF Park, Goto
    <3>2. /\ AloneInv' /\ w \in Workflows /\ StatusOf[w] = StatusAt(pc[a])
          /\ StatusOf' = [StatusOf EXCEPT ![w] = "waiting_for_human"] /\ AttemptsOf' = AttemptsOf
          /\ risks[w] = 0
      BY <2>1, <2>3, <3>1, StatusAtIs, AloneSetStatus
    <3>3. Lifecycle!Wait(w)
      BY <2>2, <2>3, <3>1, <3>2 DEF Lifecycle!Wait, Lifecycle!Move
    <3> QED BY <3>2, <3>3 DEF Lifecycle!Next
  <2>5. CASE MarkCompleted(a)
    <3>1. /\ SetStatus(a, cur[a], "completed") /\ pc' = [pc EXCEPT ![a] = "completed"]
          /\ pc[a] \in {"agent", "reporting"}
      BY <2>5 DEF MarkCompleted, Goto
    <3>2. /\ AloneInv' /\ w \in Workflows /\ StatusOf[w] = StatusAt(pc[a])
          /\ StatusOf' = [StatusOf EXCEPT ![w] = "completed"] /\ AttemptsOf' = AttemptsOf
      BY <2>1, <2>3, <3>1, StatusAtIs, AloneSetStatus
    <3>3. Lifecycle!Complete(w)
      BY <2>2, <2>3, <3>1, <3>2 DEF Lifecycle!Complete, Lifecycle!Move
    <3> QED BY <3>2, <3>3 DEF Lifecycle!Next
  <2>6. CASE Retry(a)
    <3>1. /\ SetStatus(a, cur[a], "pending") /\ pc' = [pc EXCEPT ![a] = "retrying"]
          /\ ~Exhausted(a) /\ pc[a] # "reporting"
      BY <2>6 DEF Retry
    <3>2. /\ AloneInv' /\ w \in Workflows /\ StatusOf[w] = StatusAt(pc[a])
          /\ StatusOf' = [StatusOf EXCEPT ![w] = "pending"] /\ AttemptsOf' = AttemptsOf
          /\ AttemptsOf[w] = copy[a][w].attempts /\ AttemptsOf[w] \in Nat
          /\ risks[w] = 0
      BY <2>1, <2>3, <3>1, StatusAtIs, AloneSetStatus
    <3>3. AttemptsOf[w] < MaxAttempts
      BY <3>1, <3>2, ConstantsOK DEF Exhausted
    <3>4. Lifecycle!RetryLater(w)
      BY <2>2, <2>3, <3>1, <3>2, <3>3 DEF Lifecycle!RetryLater, Lifecycle!Move
    <3> QED BY <3>2, <3>4 DEF Lifecycle!Next
  <2>7. CASE MarkFailed(a)
    <3>1. /\ SetStatus(a, cur[a], "failed") /\ pc' = [pc EXCEPT ![a] = "failed"]
          /\ Exhausted(a) /\ pc[a] # "reporting"
      BY <2>7 DEF MarkFailed
    <3>2. /\ AloneInv' /\ w \in Workflows /\ StatusOf[w] = StatusAt(pc[a])
          /\ StatusOf' = [StatusOf EXCEPT ![w] = "failed"] /\ AttemptsOf' = AttemptsOf
          /\ AttemptsOf[w] = copy[a][w].attempts /\ AttemptsOf[w] \in Nat
          /\ AttemptsOf[w] <= MaxAttempts /\ risks[w] = 0
      BY <2>1, <2>3, <3>1, StatusAtIs, AloneSetStatus
    <3>3. AttemptsOf[w] = MaxAttempts
      BY <3>1, <3>2, ConstantsOK DEF Exhausted
    <3>4. Lifecycle!Fail(w)
      BY <2>2, <2>3, <3>1, <3>2, <3>3 DEF Lifecycle!Fail, Lifecycle!Move
    <3> QED BY <3>2, <3>4 DEF Lifecycle!Next
  <2> QED BY <1>4, <2>4, <2>5, <2>6, <2>7
<1>5. ASSUME NEW a \in Actors,
             \/ AuditStarted(a) \/ AskApproval(a) \/ AuditFailed(a)
             \/ AuditCompleted(a) \/ ReturnParked(a) \/ AuditRetry(a) \/ AuditEscalation(a)
             \/ AuditRisks(a)
             \/ Poll(a) \/ AuditCreated(a) \/ CloseSession(a) \/ Crash(a)
             \/ \E w \in Workflows : RefuseKind(a, w)
      PROVE  AloneInv' /\ UNCHANGED Lifecycle!lvars
  BY <1>5, AloneAudit, AloneSession
<1>7. ASSUME NEW a \in Actors, AlertRisks(a) PROVE AloneInv' /\ Lifecycle!Next
  BY <1>7, AloneAlert DEF Lifecycle!Next
<1>6. CASE UNCHANGED vars
  <2>1. AloneInv'
    BY <1>6 DEF vars, AloneInv, RowsCounted, SessionTrue
  <2>2. UNCHANGED Lifecycle!lvars
    BY <1>6 DEF vars, Lifecycle!lvars, StatusOf, AttemptsOf
  <2> QED BY <2>1, <2>2
<1> QED BY <1>1, <1>2, <1>3, <1>4, <1>5, <1>6, <1>7 DEF Next, Step, RunStep

LEMMA AloneInit == Init => AloneInv /\ Lifecycle!Init
<1> SUFFICES ASSUME Init PROVE AloneInv /\ Lifecycle!Init
  OBVIOUS
<1>1. /\ row = [w \in Workflows |-> NoRow] /\ runs = [w \in Workflows |-> 0]
      /\ escalations = [w \in Workflows |-> 0] /\ risks = [w \in Workflows |-> 0] /\ pc = [a \in Actors |-> "idle"]
      /\ batch = [a \in Actors |-> {}] /\ Runners \subseteq Actors
  BY DEF Init, Actors
<1>2. RowsCounted
  BY <1>1, RowFields, ConstantsOK DEF RowsCounted
<1>3. \A r \in Runners : SessionTrue(r)
  BY <1>1 DEF SessionTrue
<1>4. Lifecycle!Init
  BY <1>1, RowFields DEF Lifecycle!Init, StatusOf, AttemptsOf
<1> QED BY <1>2, <1>3, <1>4 DEF AloneInv

LEMMA AloneAlways == OneRunner => (Spec => [](TypeInv /\ SubmittersOnlySubmit /\ AloneInv))
<1> SUFFICES ASSUME OneRunner PROVE Spec => [](TypeInv /\ SubmittersOnlySubmit /\ AloneInv)
  OBVIOUS
<1>1. Init => TypeInv /\ SubmittersOnlySubmit /\ AloneInv
  BY TypeInvInit, AnsweredInit, AloneInit DEF AnsweredInv
<1>2. TypeInv /\ SubmittersOnlySubmit /\ AloneInv /\ [Next]_vars
        => (TypeInv /\ SubmittersOnlySubmit /\ AloneInv)'
  BY TypeInvNext, SubmittersNext, AloneNext
<1> QED BY <1>1, <1>2, PTL DEF Spec

(* With one runner, whoever else creates workflows and whatever crashes:    *)
(* the column attempts counts the runs, and no workflow is run more than    *)
(* MaxAttempts times (WorkflowService.mark_running).                        *)
THEOREM OneRunnerCountsRuns == OneRunner => (Spec => []AttemptsCountRuns)
<1>1. AloneInv => AttemptsCountRuns
  BY DEF AloneInv, RowsCounted, AttemptsCountRuns
<1> QED BY <1>1, AloneAlways, PTL

(* With one runner the runtime, with all its sessions, commits, audit       *)
(* entries and crashes, implements the life cycle the README draws.         *)
THEOREM OneRunnerImplementsLifecycle == OneRunner => (Spec => ImplementsLifecycle)
<1> SUFFICES ASSUME OneRunner PROVE Spec => ImplementsLifecycle
  OBVIOUS
<1>1. Init => Lifecycle!Init
  BY AloneInit
<1>2. TypeInv /\ SubmittersOnlySubmit /\ AloneInv /\ [Next]_vars => [Lifecycle!Next]_(Lifecycle!lvars)
  BY AloneNext
<1>3. Spec => [](TypeInv /\ SubmittersOnlySubmit /\ AloneInv)
  BY AloneAlways
<1> QED BY <1>1, <1>2, <1>3, PTL DEF Spec, ImplementsLifecycle, Lifecycle!Spec

(***************************************************************************)
(* The audit log accounts for every run                                    *)
(***************************************************************************)

(* The runners that run w and commit one of the labels next                 *)
At(w, labels) == {r \in Runners : cur[r] = w /\ pc[r] \in labels}

Running == Label \ {"idle", "created", "loop"}
Unrecorded == Running \ {"escalating", "escalated"}
Telling == {"escalated", "alerted"}

AccountedFor(w) ==
  /\ IsFiniteSet(At(w, Running))
  /\ audit[w]["started"] + Cardinality(At(w, {"started"})) = runs[w]
  /\ audit[w]["completed"] + audit[w]["failed"] + Cardinality(At(w, Unrecorded)) <= runs[w]
  /\ audit[w]["escalation"] + Cardinality(At(w, Telling)) = escalations[w] + risks[w]

AccountsInv == crashes = 0 => \A w \in Workflows : AccountedFor(w)

(* One actor moves: it is counted where it comes to, no longer where it was. *)
LEMMA OneMoves ==
  ASSUME NEW S, NEW T, NEW a, IsFiniteSet(S), \A b : b # a => (b \in T <=> b \in S)
  PROVE  /\ IsFiniteSet(T) /\ Cardinality(S) \in Nat /\ Cardinality(T) \in Nat
         /\ a \in S /\ a \notin T => Cardinality(T) = Cardinality(S) - 1
         /\ a \notin S /\ a \in T => Cardinality(T) = Cardinality(S) + 1
         /\ (a \in S <=> a \in T) => T = S
<1>1. Cardinality(S) \in Nat
  BY FS_CardinalityType
<1>2. CASE a \in S /\ a \notin T
  <2>1. T = S \ {a}
    BY <1>2
  <2>2. IsFiniteSet(S \ {a}) /\ Cardinality(S \ {a}) = Cardinality(S) - 1
    BY <1>2, FS_RemoveElement
  <2>3. Cardinality(T) \in Nat
    BY <2>1, <2>2, FS_CardinalityType
  <2> QED BY <1>1, <1>2, <2>1, <2>2, <2>3
<1>3. CASE a \notin S /\ a \in T
  <2>1. T = S \cup {a}
    BY <1>3
  <2>2. IsFiniteSet(S \cup {a}) /\ Cardinality(S \cup {a}) = Cardinality(S) + 1
    BY <1>3, FS_AddElement
  <2> QED BY <1>1, <1>3, <2>1, <2>2
<1>4. CASE a \in S <=> a \in T
  <2>1. T = S
    BY <1>4
  <2> QED BY <1>1, <1>4, <2>1
<1> QED BY <1>2, <1>3, <1>4

(* What a step of one actor adds to and takes from each count.              *)
Counted(a, S) == IF a \in S THEN 1 ELSE 0

LEMMA AtMoves ==
  ASSUME NEW a, NEW w, NEW labels \in SUBSET Running, IsFiniteSet(At(w, Running)),
         \A b \in Runners : b # a => pc'[b] = pc[b] /\ cur'[b] = cur[b]
  PROVE  /\ IsFiniteSet(At(w, labels)) /\ IsFiniteSet(At(w, labels)')
         /\ Cardinality(At(w, labels)) \in Nat /\ Cardinality(At(w, labels)') \in Nat
         /\ Cardinality(At(w, labels)') + Counted(a, At(w, labels)) =
              Cardinality(At(w, labels)) + Counted(a, At(w, labels)')
<1> DEFINE S == At(w, labels)
           T == At(w, labels)'
<1>1. S \in SUBSET At(w, Running)
  BY DEF At
<1>2. \A b : b # a => (b \in T <=> b \in S)
  BY DEF At
<1> HIDE DEF S, T
<1>3. IsFiniteSet(S)
  BY <1>1, FS_Subset
<1>4. /\ IsFiniteSet(T) /\ Cardinality(S) \in Nat /\ Cardinality(T) \in Nat
      /\ a \in S /\ a \notin T => Cardinality(T) = Cardinality(S) - 1
      /\ a \notin S /\ a \in T => Cardinality(T) = Cardinality(S) + 1
      /\ (a \in S <=> a \in T) => T = S
  BY <1>2, <1>3, OneMoves
<1>5. Cardinality(T) + Counted(a, S) = Cardinality(S) + Counted(a, T)
  <2>1. CASE a \in S /\ a \notin T
    BY <1>4, <2>1 DEF Counted
  <2>2. CASE a \notin S /\ a \in T
    BY <1>4, <2>2 DEF Counted
  <2>3. CASE a \in S <=> a \in T
    <3>1. T = S
      BY <1>4, <2>3
    <3> QED BY <3>1
  <2> QED BY <2>1, <2>2, <2>3
<1> QED BY <1>3, <1>4, <1>5 DEF S, T

(* What is recorded and what is under way move against each other.          *)
LEMMA Balance ==
  ASSUME NEW m \in Nat, NEW n \in Nat, NEW p \in Nat, NEW q \in Nat, n + p = m + q,
         NEW x \in Nat, NEW y \in Nat, NEW r \in Nat, NEW s \in Nat
  PROVE  x + m = r /\ y + q + r = x + p + s => y + n = s
OBVIOUS

LEMMA BalanceAtMost ==
  ASSUME NEW m \in Nat, NEW n \in Nat, NEW p \in Nat, NEW q \in Nat, n + p = m + q,
         NEW x \in Nat, NEW y \in Nat, NEW r \in Nat, NEW s \in Nat,
         x + m <= r, y + q + r <= x + p + s
  PROVE  y + n <= s
OBVIOUS

(* The counts of a workflow stay balanced if its actor's own move is.       *)
LEMMA AccountStep ==
  ASSUME TypeOK, TypeOK', NEW a, NEW w \in Workflows, AccountedFor(w),
         \A b \in Runners : b # a => pc'[b] = pc[b] /\ cur'[b] = cur[b],
         audit'[w]["started"] + Counted(a, At(w, {"started"})') + runs[w] =
           audit[w]["started"] + Counted(a, At(w, {"started"})) + runs'[w],
         audit'[w]["completed"] + audit'[w]["failed"] + Counted(a, At(w, Unrecorded)') + runs[w] <=
           audit[w]["completed"] + audit[w]["failed"] + Counted(a, At(w, Unrecorded)) + runs'[w],
         audit'[w]["escalation"] + Counted(a, At(w, Telling)') + escalations[w] + risks[w] =
           audit[w]["escalation"] + Counted(a, At(w, Telling)) + escalations'[w] + risks'[w]
  PROVE  AccountedFor(w)'
<1>1. {"started"} \in SUBSET Running /\ Unrecorded \in SUBSET Running /\ Telling \in SUBSET Running
  BY DEF Running, Unrecorded, Telling, Label
<1>2. \A labels \in SUBSET Running :
        /\ IsFiniteSet(At(w, labels)')
        /\ Cardinality(At(w, labels)) \in Nat /\ Cardinality(At(w, labels)') \in Nat
        /\ Cardinality(At(w, labels)') + Counted(a, At(w, labels)) =
             Cardinality(At(w, labels)) + Counted(a, At(w, labels)')
  BY AtMoves DEF AccountedFor
<1>3. /\ \A k \in AuditKind : audit[w][k] \in Nat /\ audit'[w][k] \in Nat
      /\ runs[w] \in Nat /\ runs'[w] \in Nat /\ escalations[w] \in Nat /\ escalations'[w] \in Nat
      /\ risks[w] \in Nat /\ risks'[w] \in Nat
  <2>1. audit \in [Workflows -> [AuditKind -> Nat]] /\ audit' \in [Workflows -> [AuditKind -> Nat]]
    BY DEF TypeOK
  <2>2. audit[w] \in [AuditKind -> Nat] /\ audit'[w] \in [AuditKind -> Nat]
    BY <2>1
  <2>3. /\ runs[w] \in Nat /\ runs'[w] \in Nat /\ escalations[w] \in Nat /\ escalations'[w] \in Nat
        /\ risks[w] \in Nat /\ risks'[w] \in Nat
    BY DEF TypeOK
  <2> QED BY <2>2, <2>3
<1>4. \A k \in {"started", "completed", "failed", "escalation"} : audit[w][k] \in Nat /\ audit'[w][k] \in Nat
  BY <1>3 DEF AuditKind
<1>5. \A b, T : Counted(b, T) \in {0, 1}
  BY DEF Counted
<1>6. IsFiniteSet(At(w, Running)')
  BY <1>2
<1>7. audit'[w]["started"] + Cardinality(At(w, {"started"})') = runs'[w]
  <2>1. /\ Cardinality(At(w, {"started"})) \in Nat /\ Cardinality(At(w, {"started"})') \in Nat
        /\ Cardinality(At(w, {"started"})') + Counted(a, At(w, {"started"})) =
             Cardinality(At(w, {"started"})) + Counted(a, At(w, {"started"})')
    BY <1>1, <1>2
  <2>2. /\ Counted(a, At(w, {"started"})) \in Nat /\ Counted(a, At(w, {"started"})') \in Nat
        /\ audit[w]["started"] \in Nat /\ audit'[w]["started"] \in Nat
    BY <1>4, <1>5
  <2>3. audit[w]["started"] + Cardinality(At(w, {"started"})) = runs[w]
    BY DEF AccountedFor
  <2> QED BY <1>3, <2>1, <2>2, <2>3, Balance
<1>8. audit'[w]["completed"] + audit'[w]["failed"] + Cardinality(At(w, Unrecorded)') <= runs'[w]
  <2>1. /\ Cardinality(At(w, Unrecorded)) \in Nat /\ Cardinality(At(w, Unrecorded)') \in Nat
        /\ Cardinality(At(w, Unrecorded)') + Counted(a, At(w, Unrecorded)) =
             Cardinality(At(w, Unrecorded)) + Counted(a, At(w, Unrecorded)')
    BY <1>1, <1>2
  <2>2. /\ Counted(a, At(w, Unrecorded)) \in Nat /\ Counted(a, At(w, Unrecorded)') \in Nat
        /\ audit[w]["completed"] + audit[w]["failed"] \in Nat /\ audit'[w]["completed"] + audit'[w]["failed"] \in Nat
    BY <1>4, <1>5
  <2>3. audit[w]["completed"] + audit[w]["failed"] + Cardinality(At(w, Unrecorded)) <= runs[w]
    BY DEF AccountedFor
  <2> QED BY <1>3, <2>1, <2>2, <2>3, BalanceAtMost
<1>9. audit'[w]["escalation"] + Cardinality(At(w, Telling)') = escalations'[w] + risks'[w]
  <2>1. /\ Cardinality(At(w, Telling)) \in Nat /\ Cardinality(At(w, Telling)') \in Nat
        /\ Cardinality(At(w, Telling)') + Counted(a, At(w, Telling)) =
             Cardinality(At(w, Telling)) + Counted(a, At(w, Telling)')
    BY <1>1, <1>2
  <2>2. /\ Counted(a, At(w, Telling)) \in Nat /\ Counted(a, At(w, Telling)') \in Nat
        /\ audit[w]["escalation"] \in Nat /\ audit'[w]["escalation"] \in Nat
    BY <1>4, <1>5
  <2>3. audit[w]["escalation"] + Cardinality(At(w, Telling)) = escalations[w] + risks[w]
    BY DEF AccountedFor
  <2>4. /\ escalations[w] + risks[w] \in Nat /\ escalations'[w] + risks'[w] \in Nat
        /\ audit'[w]["escalation"] + Counted(a, At(w, Telling)') + (escalations[w] + risks[w]) =
             audit[w]["escalation"] + Counted(a, At(w, Telling)) + (escalations'[w] + risks'[w])
    BY <1>3, <2>2 DEF AccountedFor
  <2> QED BY <1>3, <2>1, <2>2, <2>3, <2>4, Balance
<1> QED BY <1>6, <1>7, <1>8, <1>9 DEF AccountedFor

(* An audit entry is one of its kind and workflow more.                     *)
LEMMA RecordEffect ==
  ASSUME TypeOK, NEW w \in Workflows, NEW k \in AuditKind, Record(w, k)
  PROVE  \A v \in Workflows, j \in AuditKind :
           audit'[v][j] = audit[v][j] + (IF v = w /\ j = k THEN 1 ELSE 0)
<1>1. audit \in [Workflows -> [AuditKind -> Nat]]
  BY DEF TypeOK
<1>2. audit' = [audit EXCEPT ![w] = [audit[w] EXCEPT ![k] = @ + 1]]
  BY DEF Record
<1>3. audit[w] \in [AuditKind -> Nat]
  BY <1>1
<1> DEFINE x == [audit[w] EXCEPT ![k] = @ + 1]
<1>4. \A j \in AuditKind : x[j] = audit[w][j] + (IF j = k THEN 1 ELSE 0)
  BY <1>3
<1>5. audit'[w] = x /\ \A v \in Workflows : v # w => audit'[v] = audit[v]
  BY <1>1, <1>2
<1> HIDE DEF x
<1> TAKE v \in Workflows, j \in AuditKind
<1>6. audit[v][j] \in Nat
  BY <1>1
<1>7. CASE v = w
  BY <1>4, <1>5, <1>7
<1>8. CASE v # w
  BY <1>5, <1>6, <1>8
<1> QED BY <1>7, <1>8

(* Where an actor stands for the counts of a workflow                       *)
LEMMA Standing ==
  ASSUME NEW a, NEW w, NEW labels
  PROVE  /\ a \in At(w, labels) <=> a \in Runners /\ cur[a] = w /\ pc[a] \in labels
         /\ a \in At(w, labels)' <=> a \in Runners /\ cur'[a] = w /\ pc'[a] \in labels
BY DEF At

(* Every step of one actor is balanced.                                     *)
LEMMA AccountsNext ==
  TypeInv /\ TypeInv' /\ SubmittersOnlySubmit /\ AccountsInv /\ [Next]_vars => AccountsInv'
<1> SUFFICES ASSUME TypeInv, TypeInv', SubmittersOnlySubmit, AccountsInv, [Next]_vars,
                    crashes' = 0, NEW w \in Workflows
             PROVE  AccountedFor(w)'
  BY DEF AccountsInv
<1>t. /\ TypeOK /\ TypeOK' /\ pc \in [Actors -> Label] /\ cur \in [Actors -> Workflows \cup {NoWorkflow}]
      /\ audit \in [Workflows -> [AuditKind -> Nat]] /\ runs[w] \in Nat /\ escalations[w] \in Nat
      /\ risks \in [Workflows -> Nat] /\ risks[w] \in Nat /\ Runners \subseteq Actors
  BY DEF TypeInv, TypeOK, Actors
<1>n. /\ audit[w]["started"] \in Nat /\ audit[w]["completed"] \in Nat
      /\ audit[w]["failed"] \in Nat /\ audit[w]["escalation"] \in Nat
  <2>1. audit[w] \in [AuditKind -> Nat]
    BY <1>t
  <2> QED BY <2>1 DEF AuditKind
<1> DEFINE Balanced(a) ==
      /\ AccountedFor(w)
      /\ \A b \in Runners : b # a => pc'[b] = pc[b] /\ cur'[b] = cur[b]
      /\ audit'[w]["started"] + Counted(a, At(w, {"started"})') + runs[w] =
           audit[w]["started"] + Counted(a, At(w, {"started"})) + runs'[w]
      /\ audit'[w]["completed"] + audit'[w]["failed"] + Counted(a, At(w, Unrecorded)') + runs[w] <=
           audit[w]["completed"] + audit[w]["failed"] + Counted(a, At(w, Unrecorded)) + runs'[w]
      /\ audit'[w]["escalation"] + Counted(a, At(w, Telling)') + escalations[w] + risks[w] =
           audit[w]["escalation"] + Counted(a, At(w, Telling)) + escalations'[w] + risks'[w]
<1>b. ASSUME NEW a, Balanced(a) PROVE AccountedFor(w)'
  BY <1>b, <1>t, AccountStep
<1> HIDE DEF Balanced
<1>1. ASSUME NEW a \in Actors,
             \/ Create(a) \/ Poll(a) \/ AuditCreated(a) \/ CloseSession(a)
             \/ \E v \in Workflows : RefuseKind(a, v)
      PROVE  Balanced(a)
  <2>1. crashes' = crashes /\ runs' = runs /\ escalations' = escalations /\ risks' = risks
    BY <1>1 DEF Create, Poll, AuditCreated, CloseSession, RefuseKind, table
  <2>2. /\ \A b \in Actors : b # a => pc'[b] = pc[b] /\ cur'[b] = cur[b]
        /\ pc[a] \in {"idle", "created", "loop"} /\ pc'[a] \in {"idle", "created", "loop"}
    BY <1>1, <1>t DEF Create, Poll, AuditCreated, CloseSession, RefuseKind, Goto, Leave, table
  <2>3. /\ audit'[w]["started"] = audit[w]["started"] /\ audit'[w]["completed"] = audit[w]["completed"]
        /\ audit'[w]["failed"] = audit[w]["failed"] /\ audit'[w]["escalation"] = audit[w]["escalation"]
    <3>1. CASE AuditCreated(a)
      <4>1. cur[a] \in Workflows /\ Record(cur[a], "created") /\ "created" \in AuditKind
        BY <3>1 DEF AuditCreated, Goto, TypeInv, InHand, AuditKind
      <4> QED BY <1>t, <1>n, <4>1, RecordEffect DEF AuditKind
    <3>2. CASE ~AuditCreated(a)
      BY <1>1, <3>2 DEF Create, Poll, CloseSession, RefuseKind, table
    <3> QED BY <3>1, <3>2
  <2>4. \A labels \in SUBSET Running : a \notin At(w, labels) /\ a \notin At(w, labels)'
    BY <2>2 DEF At, Running
  <2>5. {"started"} \in SUBSET Running /\ Unrecorded \in SUBSET Running /\ Telling \in SUBSET Running
    BY DEF Running, Unrecorded, Telling, Label
  <2>6. /\ AccountedFor(w) /\ \A b \in Runners : b # a => pc'[b] = pc[b] /\ cur'[b] = cur[b]
    BY <1>t, <2>1, <2>2 DEF AccountsInv
  <2> QED BY <1>t, <1>n, <2>1, <2>3, <2>4, <2>5, <2>6 DEF Balanced, Counted
<1>2. ASSUME NEW a \in Actors,
             \/ AuditStarted(a) \/ Park(a) \/ AskApproval(a) \/ MarkCompleted(a) \/ AuditCompleted(a)
             \/ ReturnParked(a) \/ Retry(a) \/ AuditRetry(a) \/ MarkFailed(a) \/ AuditFailed(a)
             \/ Escalate(a) \/ AuditEscalation(a) \/ AlertRisks(a) \/ AuditRisks(a)
      PROVE  Balanced(a)
  <2>1. /\ crashes' = crashes /\ runs' = runs
        /\ pc[a] \notin {"idle", "created", "loop"} /\ a \in Runners
    <3>1. crashes' = crashes /\ runs' = runs
      BY <1>2 DEF AuditStarted, Park, AskApproval, MarkCompleted, AuditCompleted, ReturnParked,
                  Retry, AuditRetry, MarkFailed, AuditFailed, Escalate, AuditEscalation,
                  AlertRisks, AuditRisks, table
    <3>2. pc[a] \notin {"idle", "created", "loop"}
      BY <1>2 DEF AuditStarted, Park, AskApproval, MarkCompleted, AuditCompleted, ReturnParked,
                  Retry, AuditRetry, MarkFailed, AuditFailed, Escalate, AuditEscalation,
                  AlertRisks, AuditRisks, Goto
    <3> QED BY <3>1, <3>2 DEF SubmittersOnlySubmit, Actors
  <2>2. cur[a] \in Workflows /\ cur[a] # NoWorkflow
    BY <2>1, ConstantsOK DEF TypeInv, InHand
  <2>3. \A b \in Actors : b # a => pc'[b] = pc[b] /\ cur'[b] = cur[b]
    BY <1>2, <1>t DEF AuditStarted, Park, AskApproval, MarkCompleted, AuditCompleted, ReturnParked,
                      Retry, AuditRetry, MarkFailed, AuditFailed, Escalate, AuditEscalation,
                  AlertRisks, AuditRisks, Goto, Leave, table
  <2>4. /\ AccountedFor(w) /\ \A b \in Runners : b # a => pc'[b] = pc[b] /\ cur'[b] = cur[b]
    BY <1>t, <2>1, <2>3 DEF AccountsInv
  <2>5. \A labels : /\ a \in At(w, labels) <=> cur[a] = w /\ pc[a] \in labels
                    /\ a \in At(w, labels)' <=> cur'[a] = w /\ pc'[a] \in labels
    BY <2>1, Standing
  <2> DEFINE Kept(kind) == audit'[w][kind] = audit[w][kind]
             Gained(kind) == audit'[w][kind] = audit[w][kind] + 1
  <2>6. ASSUME NEW kind \in {"started", "completed", "failed", "escalation"}, Record(cur[a], kind)
        PROVE  \A k \in {"started", "completed", "failed", "escalation"} :
                 audit'[w][k] = audit[w][k] + (IF cur[a] = w /\ k = kind THEN 1 ELSE 0)
    <3>1. kind \in AuditKind /\ \A k \in {"started", "completed", "failed", "escalation"} : k \in AuditKind
      BY DEF AuditKind
    <3> QED BY <1>t, <2>2, <2>6, <3>1, RecordEffect
  <2>7. CASE AuditStarted(a)
    <3>1. /\ Record(cur[a], "started") /\ escalations' = escalations /\ risks' = risks /\ cur' = cur
          /\ pc[a] = "started" /\ pc'[a] = "agent"
      BY <1>t, <2>7 DEF AuditStarted, Goto
    <3>2. /\ audit'[w]["started"] = audit[w]["started"] + Counted(w, {cur[a]})
          /\ Kept("completed") /\ Kept("failed") /\ Kept("escalation")
      BY <1>n, <2>6, <3>1 DEF Counted
    <3>3. /\ a \in At(w, {"started"}) <=> cur[a] = w
          /\ a \notin At(w, {"started"})'
          /\ a \in At(w, Unrecorded) <=> cur[a] = w
          /\ a \in At(w, Unrecorded)' <=> cur[a] = w
          /\ a \notin At(w, Telling) /\ a \notin At(w, Telling)'
      BY <2>5, <3>1 DEF Unrecorded, Running, Telling, Label
    <3> QED BY <1>t, <1>n, <2>1, <2>4, <3>1, <3>2, <3>3 DEF Balanced, Counted
  <2>8. CASE Park(a) \/ AskApproval(a) \/ MarkCompleted(a) \/ Retry(a) \/ MarkFailed(a)
    <3>1. /\ audit' = audit /\ escalations' = escalations /\ risks' = risks /\ cur' = cur
          /\ pc[a] \in {"agent", "asking", "parked", "reporting"}
          /\ pc'[a] \in {"asking", "parked", "completed", "retrying", "failed"}
      BY <1>t, <2>8 DEF Park, AskApproval, MarkCompleted, Retry, MarkFailed, Goto
    <3>2. /\ a \notin At(w, {"started"}) /\ a \notin At(w, {"started"})'
          /\ a \in At(w, Unrecorded) <=> cur[a] = w
          /\ a \in At(w, Unrecorded)' <=> cur[a] = w
          /\ a \notin At(w, Telling) /\ a \notin At(w, Telling)'
      BY <2>5, <3>1 DEF Unrecorded, Running, Telling, Label
    <3> QED BY <1>t, <1>n, <2>1, <2>4, <3>1, <3>2 DEF Balanced, Counted
  <2>9. CASE AuditCompleted(a) \/ AuditRetry(a)
    <3>1. PICK kind \in {"completed", "failed"} : Record(cur[a], kind)
      BY <2>9 DEF AuditCompleted, AuditRetry
    <3>2. /\ escalations' = escalations /\ risks' = risks /\ cur'[a] = NoWorkflow
          /\ pc[a] \in {"completed", "retrying"} /\ pc'[a] = "loop"
      BY <1>t, <2>9 DEF AuditCompleted, AuditRetry, Goto, Leave
    <3>3. \A k \in {"started", "completed", "failed", "escalation"} :
            audit'[w][k] = audit[w][k] + (IF cur[a] = w /\ k = kind THEN 1 ELSE 0)
      BY <2>6, <3>1
    <3>4. /\ Kept("started") /\ Kept("escalation")
          /\ audit'[w]["completed"] + audit'[w]["failed"] =
               audit[w]["completed"] + audit[w]["failed"] + Counted(w, {cur[a]})
      BY <1>n, <3>1, <3>3 DEF Counted
    <3>5. /\ a \notin At(w, {"started"}) /\ a \notin At(w, {"started"})'
          /\ a \in At(w, Unrecorded) <=> cur[a] = w
          /\ a \notin At(w, Unrecorded)'
          /\ a \notin At(w, Telling) /\ a \notin At(w, Telling)'
      BY <2>5, <3>2 DEF Unrecorded, Running, Telling, Label
    <3> QED BY <1>t, <1>n, <2>1, <2>4, <3>2, <3>4, <3>5 DEF Balanced, Counted
  <2>10. CASE ReturnParked(a)
    <3>1. /\ audit' = audit /\ escalations' = escalations /\ risks' = risks /\ cur'[a] = NoWorkflow
          /\ pc[a] = "parked" /\ pc'[a] = "loop"
      BY <1>t, <2>10 DEF ReturnParked, Goto, Leave, table
    <3>2. /\ a \notin At(w, {"started"}) /\ a \notin At(w, {"started"})'
          /\ a \notin At(w, Unrecorded)'
          /\ a \notin At(w, Telling) /\ a \notin At(w, Telling)'
      BY <2>5, <3>1 DEF Unrecorded, Running, Telling, Label
    <3> QED BY <1>t, <1>n, <2>1, <2>4, <3>1, <3>2 DEF Balanced, Counted
  <2>11. CASE AuditFailed(a)
    <3>1. /\ Record(cur[a], "failed") /\ escalations' = escalations /\ risks' = risks /\ cur' = cur
          /\ pc[a] = "failed" /\ pc'[a] = "escalating"
      BY <1>t, <2>11 DEF AuditFailed, Goto
    <3>2. /\ audit'[w]["failed"] = audit[w]["failed"] + Counted(w, {cur[a]})
          /\ Kept("started") /\ Kept("completed") /\ Kept("escalation")
      BY <1>n, <2>6, <3>1 DEF Counted
    <3>3. /\ a \notin At(w, {"started"}) /\ a \notin At(w, {"started"})'
          /\ a \in At(w, Unrecorded) <=> cur[a] = w
          /\ a \notin At(w, Unrecorded)'
          /\ a \notin At(w, Telling) /\ a \notin At(w, Telling)'
      BY <2>5, <3>1 DEF Unrecorded, Running, Telling, Label
    <3> QED BY <1>t, <1>n, <2>1, <2>4, <3>1, <3>2, <3>3 DEF Balanced, Counted
  <2>12. CASE Escalate(a)
    <3>1. /\ audit' = audit /\ cur' = cur /\ risks' = risks /\ pc[a] = "escalating" /\ pc'[a] = "escalated"
          /\ escalations' = [escalations EXCEPT ![cur[a]] = @ + 1]
      BY <1>t, <2>12 DEF Escalate, Goto
    <3>2. escalations'[w] = escalations[w] + Counted(w, {cur[a]})
      <4>1. escalations \in [Workflows -> Nat]
        BY <1>t DEF TypeOK
      <4> QED BY <1>t, <2>2, <3>1, <4>1 DEF Counted
    <3>3. /\ a \notin At(w, {"started"}) /\ a \notin At(w, {"started"})'
          /\ a \notin At(w, Unrecorded) /\ a \notin At(w, Unrecorded)'
          /\ a \notin At(w, Telling)
          /\ a \in At(w, Telling)' <=> cur[a] = w
      BY <2>5, <3>1 DEF Unrecorded, Running, Telling, Label
    <3>4. Counted(a, At(w, Telling)') = Counted(w, {cur[a]})
      BY <3>3 DEF Counted
    <3>5. /\ Counted(a, At(w, {"started"})) = 0 /\ Counted(a, At(w, {"started"})') = 0
          /\ Counted(a, At(w, Unrecorded)) = 0 /\ Counted(a, At(w, Unrecorded)') = 0
          /\ Counted(a, At(w, Telling)) = 0 /\ Counted(w, {cur[a]}) \in {0, 1}
      BY <3>3 DEF Counted
    <3>6. /\ audit'[w]["started"] = audit[w]["started"] /\ audit'[w]["failed"] = audit[w]["failed"]
          /\ audit'[w]["completed"] = audit[w]["completed"] /\ runs'[w] = runs[w]
          /\ audit'[w]["escalation"] = audit[w]["escalation"] /\ risks'[w] = risks[w]
      BY <2>1, <3>1
    <3> DEFINE c == Counted(w, {cur[a]})
    <3>7. c \in {0, 1} /\ escalations'[w] = escalations[w] + c /\ Counted(a, At(w, Telling)') = c
      BY <3>2, <3>4, <3>5
    <3> HIDE DEF c
    <3>10. audit'[w]["started"] + Counted(a, At(w, {"started"})') + runs[w] =
            audit[w]["started"] + Counted(a, At(w, {"started"})) + runs'[w]
      BY <1>t, <1>n, <3>5, <3>6, <3>7
    <3>11. audit'[w]["completed"] + audit'[w]["failed"] + Counted(a, At(w, Unrecorded)') + runs[w] <=
            audit[w]["completed"] + audit[w]["failed"] + Counted(a, At(w, Unrecorded)) + runs'[w]
      BY <1>t, <1>n, <3>5, <3>6, <3>7
    <3>12. audit'[w]["escalation"] + Counted(a, At(w, Telling)') + escalations[w] + risks[w] =
            audit[w]["escalation"] + Counted(a, At(w, Telling)) + escalations'[w] + risks'[w]
      BY <1>t, <1>n, <3>5, <3>6, <3>7
    <3> QED BY <2>4, <3>10, <3>11, <3>12 DEF Balanced
  <2>13. CASE AuditEscalation(a)
    <3>1. /\ Record(cur[a], "escalation") /\ escalations' = escalations /\ risks' = risks /\ cur'[a] = NoWorkflow
          /\ pc[a] = "escalated" /\ pc'[a] = "loop"
      BY <1>t, <2>13 DEF AuditEscalation, Goto, Leave
    <3>2. /\ audit'[w]["escalation"] = audit[w]["escalation"] + Counted(w, {cur[a]})
          /\ Kept("started") /\ Kept("completed") /\ Kept("failed")
      BY <1>n, <2>6, <3>1 DEF Counted
    <3>3. /\ a \notin At(w, {"started"}) /\ a \notin At(w, {"started"})'
          /\ a \notin At(w, Unrecorded) /\ a \notin At(w, Unrecorded)'
          /\ a \in At(w, Telling) <=> cur[a] = w
          /\ a \notin At(w, Telling)'
      BY <2>5, <3>1 DEF Unrecorded, Running, Telling, Label
    <3> QED BY <1>t, <1>n, <2>1, <2>4, <3>1, <3>2, <3>3 DEF Balanced, Counted
  <2>14. CASE AlertRisks(a)
    <3>1. /\ audit' = audit /\ cur' = cur /\ escalations' = escalations /\ pc[a] = "agent" /\ pc'[a] = "alerted"
          /\ risks' = [risks EXCEPT ![cur[a]] = @ + 1]
      BY <1>t, <2>14 DEF AlertRisks, Goto
    <3>2. risks'[w] = risks[w] + Counted(w, {cur[a]})
      <4>1. risks \in [Workflows -> Nat]
        BY <1>t DEF TypeOK
      <4> QED BY <1>t, <2>2, <3>1, <4>1 DEF Counted
    <3>3. /\ a \notin At(w, {"started"}) /\ a \notin At(w, {"started"})'
          /\ a \in At(w, Unrecorded) <=> a \in At(w, Unrecorded)'
          /\ a \notin At(w, Telling)
          /\ a \in At(w, Telling)' <=> cur[a] = w
      BY <2>5, <3>1 DEF Unrecorded, Running, Telling, Label
    <3>4. Counted(a, At(w, Telling)') = Counted(w, {cur[a]})
      BY <3>3 DEF Counted
    <3>5. /\ Counted(a, At(w, {"started"})) = 0 /\ Counted(a, At(w, {"started"})') = 0
          /\ Counted(a, At(w, Unrecorded)) = Counted(a, At(w, Unrecorded)')
          /\ Counted(a, At(w, Unrecorded)) \in {0, 1}
          /\ Counted(a, At(w, Telling)) = 0 /\ Counted(w, {cur[a]}) \in {0, 1}
      BY <3>3 DEF Counted
    <3>6. /\ audit'[w]["started"] = audit[w]["started"] /\ audit'[w]["failed"] = audit[w]["failed"]
          /\ audit'[w]["completed"] = audit[w]["completed"] /\ runs'[w] = runs[w]
          /\ audit'[w]["escalation"] = audit[w]["escalation"] /\ escalations'[w] = escalations[w]
      BY <2>1, <3>1
    <3> DEFINE c == Counted(w, {cur[a]})
    <3>7. c \in {0, 1} /\ risks'[w] = risks[w] + c /\ Counted(a, At(w, Telling)') = c
      BY <3>2, <3>4, <3>5
    <3> HIDE DEF c
    <3>10. audit'[w]["started"] + Counted(a, At(w, {"started"})') + runs[w] =
            audit[w]["started"] + Counted(a, At(w, {"started"})) + runs'[w]
      BY <1>t, <1>n, <3>5, <3>6, <3>7
    <3>11. audit'[w]["completed"] + audit'[w]["failed"] + Counted(a, At(w, Unrecorded)') + runs[w] <=
            audit[w]["completed"] + audit[w]["failed"] + Counted(a, At(w, Unrecorded)) + runs'[w]
      BY <1>t, <1>n, <3>5, <3>6, <3>7
    <3>8. /\ audit[w]["escalation"] \in Nat /\ escalations[w] \in Nat /\ risks[w] \in Nat
          /\ Counted(a, At(w, Telling)) = 0
      BY <1>t, <1>n, <3>5
    <3>12. audit'[w]["escalation"] + Counted(a, At(w, Telling)') + escalations[w] + risks[w] =
            audit[w]["escalation"] + Counted(a, At(w, Telling)) + escalations'[w] + risks'[w]
      BY <3>6, <3>7, <3>8
    <3> QED BY <2>4, <3>10, <3>11, <3>12 DEF Balanced
  <2>15. CASE AuditRisks(a)
    <3>1. /\ Record(cur[a], "escalation") /\ escalations' = escalations /\ risks' = risks /\ cur' = cur
          /\ pc[a] = "alerted" /\ pc'[a] = "reporting"
      BY <1>t, <2>15 DEF AuditRisks, Goto
    <3>2. /\ audit'[w]["escalation"] = audit[w]["escalation"] + Counted(w, {cur[a]})
          /\ Kept("started") /\ Kept("completed") /\ Kept("failed")
      BY <1>n, <2>6, <3>1 DEF Counted
    <3>3. /\ a \notin At(w, {"started"}) /\ a \notin At(w, {"started"})'
          /\ a \in At(w, Unrecorded) <=> a \in At(w, Unrecorded)'
          /\ a \in At(w, Telling) <=> cur[a] = w
          /\ a \notin At(w, Telling)'
      BY <2>5, <3>1 DEF Unrecorded, Running, Telling, Label
    <3> QED BY <1>t, <1>n, <2>1, <2>4, <3>1, <3>2, <3>3 DEF Balanced, Counted
  <2> QED BY <1>2, <2>7, <2>8, <2>9, <2>10, <2>11, <2>12, <2>13, <2>14, <2>15
<1>3. ASSUME NEW a \in Actors, NEW v \in Workflows, MarkRunning(a, v) PROVE Balanced(a)
  <2>1. /\ a \in Runners /\ crashes' = crashes /\ escalations' = escalations /\ risks' = risks /\ audit' = audit
        /\ runs' = [runs EXCEPT ![v] = @ + 1]
        /\ pc[a] = "loop" /\ pc'[a] = "started" /\ cur'[a] = v
        /\ \A b \in Actors : b # a => pc'[b] = pc[b] /\ cur'[b] = cur[b]
    BY <1>3, <1>t DEF MarkRunning, IsNext, Goto, SubmittersOnlySubmit, Actors
  <2>2. runs'[w] = runs[w] + Counted(w, {v})
    <3>1. runs \in [Workflows -> Nat]
      BY <1>t DEF TypeOK
    <3> QED BY <2>1, <3>1 DEF Counted
  <2>3. /\ AccountedFor(w) /\ \A b \in Runners : b # a => pc'[b] = pc[b] /\ cur'[b] = cur[b]
    BY <1>t, <2>1 DEF AccountsInv
  <2>4. \A labels : /\ a \in At(w, labels) <=> cur[a] = w /\ pc[a] \in labels
                    /\ a \in At(w, labels)' <=> cur'[a] = w /\ pc'[a] \in labels
    BY <2>1, Standing
  <2>5. /\ a \notin At(w, {"started"})
        /\ a \in At(w, {"started"})' <=> v = w
        /\ a \notin At(w, Unrecorded)
        /\ a \in At(w, Unrecorded)' <=> v = w
        /\ a \notin At(w, Telling) /\ a \notin At(w, Telling)'
    BY <2>1, <2>4 DEF Unrecorded, Running, Telling, Label
  <2>6. /\ Counted(a, At(w, {"started"})') = Counted(w, {v})
        /\ Counted(a, At(w, Unrecorded)') = Counted(w, {v})
    BY <2>5 DEF Counted
  <2>7. /\ Counted(a, At(w, {"started"})) = 0 /\ Counted(a, At(w, Unrecorded)) = 0
        /\ Counted(a, At(w, Telling)) = 0 /\ Counted(a, At(w, Telling)') = 0
        /\ Counted(w, {v}) \in {0, 1}
    BY <2>5 DEF Counted
  <2> DEFINE c == Counted(w, {v})
  <2>8. /\ c \in {0, 1} /\ runs'[w] = runs[w] + c
        /\ Counted(a, At(w, {"started"})') = c /\ Counted(a, At(w, Unrecorded)') = c
    BY <2>2, <2>6, <2>7
  <2>9. /\ audit'[w]["started"] = audit[w]["started"] /\ audit'[w]["failed"] = audit[w]["failed"]
        /\ audit'[w]["completed"] = audit[w]["completed"] /\ escalations'[w] = escalations[w]
        /\ audit'[w]["escalation"] = audit[w]["escalation"] /\ risks'[w] = risks[w]
    BY <2>1
  <2> HIDE DEF c
  <2>10. audit'[w]["started"] + Counted(a, At(w, {"started"})') + runs[w] =
          audit[w]["started"] + Counted(a, At(w, {"started"})) + runs'[w]
    BY <1>t, <1>n, <2>7, <2>8, <2>9
  <2>11. audit'[w]["completed"] + audit'[w]["failed"] + Counted(a, At(w, Unrecorded)') + runs[w] <=
          audit[w]["completed"] + audit[w]["failed"] + Counted(a, At(w, Unrecorded)) + runs'[w]
    BY <1>t, <1>n, <2>7, <2>8, <2>9
  <2>12. audit'[w]["escalation"] + Counted(a, At(w, Telling)') + escalations[w] + risks[w] =
          audit[w]["escalation"] + Counted(a, At(w, Telling)) + escalations'[w] + risks'[w]
    BY <1>t, <1>n, <2>7, <2>8, <2>9
  <2> QED BY <2>3, <2>10, <2>11, <2>12 DEF Balanced
<1>4. CASE UNCHANGED vars
  BY <1>4 DEF vars, AccountsInv, AccountedFor, At
<1>5. ASSUME NEW a \in Actors, Crash(a) PROVE FALSE
  BY <1>5, <1>t, ConstantsOK DEF Crash, TypeOK
<1> QED
  BY <1>b, <1>1, <1>2, <1>3, <1>4, <1>5 DEF Next, Step, RunStep

LEMMA AccountsInit == Init => AccountsInv
<1> SUFFICES ASSUME Init, NEW w \in Workflows PROVE AccountedFor(w)
  BY DEF AccountsInv
<1>1. /\ audit[w]["started"] = 0 /\ audit[w]["completed"] = 0 /\ audit[w]["failed"] = 0
      /\ audit[w]["escalation"] = 0 /\ runs[w] = 0 /\ escalations[w] = 0 /\ risks[w] = 0
      /\ \A r \in Runners : pc[r] = "idle"
  BY DEF Init, AuditKind, Actors
<1>2. /\ At(w, Running) = {} /\ At(w, {"started"}) = {} /\ At(w, Unrecorded) = {}
      /\ At(w, Telling) = {}
  BY <1>1 DEF At, Running, Unrecorded, Telling
<1>3. IsFiniteSet({}) /\ Cardinality({}) = 0
  BY FS_EmptySet
<1> QED BY <1>1, <1>2, <1>3 DEF AccountedFor

(* However many runners share the table: as long as no session is lost, the *)
(* audit log accounts for every run and every alert, but for the entries    *)
(* their runners are about to commit (AuditService.record).                 *)
THEOREM EveryRunIsAudited == Spec => []AuditAccountsForRuns
<1>1. AccountsInv => AuditAccountsForRuns
  <2>1. Unrecorded = Label \ {"idle", "created", "loop", "escalating", "escalated"}
    BY DEF Unrecorded, Running
  <2> QED BY <2>1 DEF AccountsInv, AccountedFor, At, Telling, AuditAccountsForRuns
<1>2. AnsweredInv => SubmittersOnlySubmit
  BY DEF AnsweredInv
<1> QED
  BY <1>1, <1>2, TypeInvInit, TypeInvNext, AnsweredInit, AnsweredNext, AccountsInit, AccountsNext, PTL DEF Spec
=============================================================================
