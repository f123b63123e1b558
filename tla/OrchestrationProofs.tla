------------------------ MODULE OrchestrationProofs ------------------------
(***************************************************************************)
(* The workflows of the Rust crate for any number of workflows and kinds   *)
(* and any number of retries: what the retry policy guarantees, that the   *)
(* log accounts for the runs, that a run in its steps is a run, and how    *)
(* the delays of the retries grow.                                         *)
(***************************************************************************)
EXTENDS Orchestration, WellFoundedInduction, TLAPS

(***************************************************************************)
(* The inductive invariant                                                 *)
(***************************************************************************)
Rows  == [kind : Kinds, status : Status, attempts : Nat]
Logs  == [Entry -> Nat]
Calls == [wf : Workflows, row : Rows, log : Logs, kept : BOOLEAN]

OTypeOK ==
  /\ wf \in [Workflows -> Rows]
  /\ held \subseteq Workflows
  /\ log \in [Workflows -> Logs]
  /\ forced \in [Workflows -> Nat]
  /\ \A r \in run : r \in Calls /\ run = {r}

(* The workflow of the run under way is as the run has marked it, whatever  *)
(* the owners of others did meanwhile: the row before, running and with one *)
(* attempt more, and the log before with the entries of the beginning.  And *)
(* the run was allowed to begin.                                            *)
Marked(row, kept) == [row EXCEPT !.status = "running", !.attempts = IF kept THEN @ + 1 ELSE 1]
Beginning(kept) == IF kept THEN {"started"} ELSE {"created", "started"}

BorrowedOK ==
  \A r \in run :
    /\ wf[r.wf] = Marked(r.row, r.kept)
    /\ log[r.wf] = Recorded(r.log, Beginning(r.kept))
    /\ r.row.kind \in registered
    /\ r.kept => /\ r.wf \in held /\ "running" \in Successors(r.row.status)
                 /\ r.row.attempts < AttemptBound
    /\ ~r.kept => r.row.status = "none"

(* What the log and the row of a workflow say of each other: there are no   *)
(* more starts than attempts, each has had one end but for the run under    *)
(* way; an escalation is there as soon as there were as many failures as    *)
(* attempts are allowed.  There is one more at most than its owner has      *)
(* forced the workflow back, and then the workflow has no attempt left and  *)
(* has come to its end.                                                     *)
Underway(w) == IF w \in Running THEN 1 ELSE 0

Accounted(w) ==
  LET row == wf[w]  l == log[w] IN
  /\ l["started"] = l["completed"] + l["failed"] + Underway(w)
  /\ l["started"] <= row.attempts
  /\ l["completed"] <= 1
  /\ l["completed"] = 1 => row.status = "completed"
  /\ row.status = "none" => row.attempts = 0
  /\ row.status = "pending" => row.attempts < MaxAttempts \/ forced[w] > 0
  /\ l["escalated"] <= 1 + forced[w]
  /\ l["escalated"] > forced[w] => row.status \in {"failed", "cancelled"} /\ row.attempts >= MaxAttempts
  /\ l["failed"] >= MaxAttempts => l["escalated"] >= 1

OInv == OTypeOK /\ BorrowedOK /\ \A w \in Workflows : Accounted(w)

(***************************************************************************)
(* Lemmas about rows and logs                                              *)
(***************************************************************************)

(* The rows the actions write are rows. *)
LEMMA FreshRow ==
  ASSUME NEW k \in Kinds
  PROVE  /\ NewWorkflow(k) \in Rows /\ NewWorkflow(k).status = "pending"
         /\ NewWorkflow(k).attempts = 0 /\ NewWorkflow(k).kind = k
         /\ NotThere(k) \in Rows /\ NotThere(k).status = "none" /\ NotThere(k).attempts = 0
BY DEF Rows, NewWorkflow, NotThere, Status, WorkflowStatus

LEMMA RowSet ==
  ASSUME NEW x \in Rows, NEW s \in Status, NEW n \in Nat,
         NEW y, y = [x EXCEPT !.status = s, !.attempts = n]
  PROVE  y \in Rows /\ y.status = s /\ y.attempts = n /\ y.kind = x.kind
BY DEF Rows

LEMMA StatusSet ==
  ASSUME NEW x \in Rows, NEW s \in Status, NEW y, y = [x EXCEPT !.status = s]
  PROVE  y \in Rows /\ y.status = s /\ y.attempts = x.attempts /\ y.kind = x.kind
BY DEF Rows

(* Recorded counts one entry of each action it is given and no other. *)
LEMMA RecordedFacts ==
  ASSUME NEW old \in Logs, NEW entries
  PROVE  /\ Recorded(old, entries) \in Logs
         /\ \A e \in Entry : Recorded(old, entries)[e] = old[e] + (IF e \in entries THEN 1 ELSE 0)
BY DEF Logs, Recorded

(* Writing the row of one workflow leaves those of the others alone; and so *)
(* does recording.                                                          *)
LEMMA RowWritten ==
  ASSUME wf \in [Workflows -> Rows], NEW w \in Workflows, NEW x \in Rows, wf' = [wf EXCEPT ![w] = x]
  PROVE  /\ wf' \in [Workflows -> Rows] /\ wf'[w] = x
         /\ \A v \in Workflows : v # w => wf'[v] = wf[v]
OBVIOUS

LEMMA LogWritten ==
  ASSUME log \in [Workflows -> Logs], NEW w \in Workflows, NEW x \in Logs, log' = [log EXCEPT ![w] = x]
  PROVE  /\ log' \in [Workflows -> Logs] /\ log'[w] = x
         /\ \A v \in Workflows : v # w => log'[v] = log[v]
OBVIOUS

(* One entry more, as most actions record it. *)
LEMMA OneMore ==
  ASSUME log \in [Workflows -> Logs], NEW w \in Workflows, NEW e \in Entry,
         log' = [log EXCEPT ![w][e] = @ + 1]
  PROVE  log' = [log EXCEPT ![w] = Recorded(log[w], {e})]
<1>1. [log[w] EXCEPT ![e] = @ + 1] = Recorded(log[w], {e})
  <2>1. \A f \in [Entry -> Nat] :
          [f EXCEPT ![e] = @ + 1] = [d \in Entry |-> f[d] + (IF d \in {e} THEN 1 ELSE 0)]
    <3> TAKE f \in [Entry -> Nat]
    <3>1. \A d \in Entry : f[d] \in Nat
      OBVIOUS
    <3>2. \A d \in Entry : [f EXCEPT ![e] = @ + 1][d] = f[d] + (IF d \in {e} THEN 1 ELSE 0)
      BY <3>1
    <3> QED BY <3>2
  <2> QED BY <2>1 DEF Logs, Recorded
<1>2. log' = [log EXCEPT ![w] = [log[w] EXCEPT ![e] = @ + 1]]
  OBVIOUS
<1> QED BY <1>1, <1>2

(* A workflow that no step touches is accounted for as before. *)
LEMMA Untouched ==
  ASSUME NEW w, Accounted(w), wf'[w] = wf[w], log'[w] = log[w], forced'[w] = forced[w],
         (w \in Running)' <=> w \in Running
  PROVE  Accounted(w)'
BY DEF Accounted, Underway

(***************************************************************************)
(* The invariant is inductive                                              *)
(***************************************************************************)
LEMMA OInvInit == OInit => OInv
<1> SUFFICES ASSUME OInit PROVE OInv
  OBVIOUS
<1>1. \A w \in Workflows : wf[w] \in Rows /\ wf[w].status = "none" /\ wf[w].attempts = 0
  <2> TAKE w \in Workflows
  <2>1. PICK k \in Kinds : wf[w] = NotThere(k)
    BY DEF OInit, Init
  <2> QED BY <2>1, FreshRow
<1>2. wf \in [Workflows -> Rows]
  BY <1>1 DEF OInit, Init
<1>3. log \in [Workflows -> Logs] /\ \A w \in Workflows, e \in Entry : log[w][e] = 0
  BY DEF OInit, Init, Logs
<1>4. run = {} /\ Running = {} /\ held \subseteq Workflows
  BY DEF OInit, Init, None, Running
<1>5. forced \in [Workflows -> Nat] /\ \A w \in Workflows : forced[w] = 0
  BY DEF OInit, Init
<1>6. \A w \in Workflows : Accounted(w)
  BY <1>1, <1>3, <1>4, <1>5, ConstantsOK DEF Accounted, Underway, Entry, MaxAttempts
<1> QED BY <1>2, <1>3, <1>4, <1>5, <1>6 DEF OInv, OTypeOK, BorrowedOK

(* What the orchestrator does between two runs: no run is under way.        *)
LEMMA OrchestrateKeeps == OInv /\ Orchestrate => OInv'
<1> SUFFICES ASSUME OInv, Orchestrate PROVE OInv'
  OBVIOUS
<1>0. /\ run = {} /\ run' = {} /\ Running = {} /\ Running' = {}
      /\ wf \in [Workflows -> Rows] /\ held \subseteq Workflows /\ log \in [Workflows -> Logs]
      /\ forced' = forced /\ forced \in [Workflows -> Nat]
      /\ \A v \in Workflows : Accounted(v)
  BY DEF Orchestrate, Submit, SubmitForNobody, CreateEscalation, RegisterAgent, OInv, OTypeOK, Running, None
<1>1. ASSUME NEW w \in Workflows, Submit(w) \/ SubmitForNobody(w) PROVE OInv'
  <2> DEFINE x == NewWorkflow(wf[w].kind)
  <2>1. x \in Rows /\ x.status = "pending" /\ x.attempts = 0 /\ wf[w].status = "none"
    <3>1. wf[w].kind \in Kinds
      BY <1>0 DEF Rows
    <3>2. wf[w].status = "none"
      BY <1>1 DEF Submit, SubmitForNobody
    <3> QED BY <3>1, <3>2, FreshRow
  <2>2. wf' = [wf EXCEPT ![w] = x] /\ log' = [log EXCEPT ![w]["created"] = @ + 1]
        /\ held' \subseteq Workflows
    BY <1>0, <1>1 DEF Submit, SubmitForNobody
  <2> HIDE DEF x
  <2>3. log' = [log EXCEPT ![w] = Recorded(log[w], {"created"})]
    BY <1>0, <2>2, OneMore DEF Entry
  <2>4. /\ wf' \in [Workflows -> Rows] /\ wf'[w] = x
        /\ \A v \in Workflows : v # w => wf'[v] = wf[v]
    BY <1>0, <2>1, <2>2, RowWritten
  <2>5. /\ log' \in [Workflows -> Logs] /\ log'[w] = Recorded(log[w], {"created"})
        /\ \A v \in Workflows : v # w => log'[v] = log[v]
    BY <1>0, <2>3, LogWritten, RecordedFacts
  <2>6. Accounted(w)'
    <3>1. \A e \in Entry : log[w][e] \in Nat /\ log'[w][e] = log[w][e] + (IF e = "created" THEN 1 ELSE 0)
      BY <1>0, <2>5, RecordedFacts DEF Logs
    <3>2. wf[w].attempts = 0 /\ Underway(w) = 0 /\ Underway(w)' = 0
      BY <1>0, <2>1 DEF Accounted, Underway
    <3>3. \A e \in {"started", "completed", "failed", "escalated"} :
            log[w][e] \in Nat /\ log'[w][e] = log[w][e]
      BY <3>1 DEF Entry
    <3>4. \A e \in {"started", "completed", "failed"} : log[w][e] = 0
      <4>1. Accounted(w)
        BY <1>0
      <4> QED BY <3>2, <3>3, <4>1 DEF Accounted
    <3>5. log[w]["escalated"] <= forced[w]
      <4>1. Accounted(w) /\ forced[w] \in Nat /\ log[w]["escalated"] \in Nat
        BY <1>0, <3>3
      <4>2. ~ (log[w]["escalated"] > forced[w])
        BY <2>1, <4>1 DEF Accounted
      <4> QED BY <4>1, <4>2
    <3>6. forced'[w] = forced[w] /\ forced[w] \in Nat
      BY <1>0
    <3> QED BY <2>1, <2>4, <3>2, <3>3, <3>4, <3>5, <3>6, ConstantsOK DEF Accounted, MaxAttempts
  <2>7. \A v \in Workflows : Accounted(v)'
    BY <1>0, <2>4, <2>5, <2>6, Untouched
  <2> QED BY <1>0, <2>2, <2>4, <2>5, <2>7 DEF OInv, OTypeOK, BorrowedOK
<1>2. ASSUME NEW w \in Workflows, CreateEscalation(w) PROVE OInv'
  <2>1. wf' = wf /\ held' = held /\ log' = [log EXCEPT ![w]["raised"] = @ + 1]
    BY <1>2 DEF CreateEscalation
  <2>2. log' = [log EXCEPT ![w] = Recorded(log[w], {"raised"})]
    BY <1>0, <2>1, OneMore DEF Entry
  <2>3. /\ log' \in [Workflows -> Logs] /\ log'[w] = Recorded(log[w], {"raised"})
        /\ \A v \in Workflows : v # w => log'[v] = log[v]
    BY <1>0, <2>2, LogWritten, RecordedFacts
  <2>4. Accounted(w)'
    <3>1. \A e \in Entry : log[w][e] \in Nat /\ log'[w][e] = log[w][e] + (IF e = "raised" THEN 1 ELSE 0)
      BY <1>0, <2>3, RecordedFacts DEF Logs
    <3> QED BY <1>0, <2>1, <3>1 DEF Accounted, Underway, Entry
  <2>5. \A v \in Workflows : Accounted(v)'
    BY <1>0, <2>1, <2>3, <2>4, Untouched
  <2> QED BY <1>0, <2>1, <2>3, <2>5 DEF OInv, OTypeOK, BorrowedOK
<1>3. ASSUME NEW k \in Kinds, RegisterAgent(k) PROVE OInv'
  BY <1>0, <1>3, Untouched DEF RegisterAgent, OInv, OTypeOK, BorrowedOK
<1> QED BY <1>1, <1>2, <1>3 DEF Orchestrate

(* What an owner does to a workflow that no run has borrowed.               *)
LEMMA OwnKeeps == OInv /\ Own => OInv'
<1> SUFFICES ASSUME OInv, NEW w \in Unborrowed, OwnerMoves(w), UNCHANGED <<run, tasks, told>>
             PROVE  OInv'
  BY DEF Own
<1>0. /\ w \in Workflows /\ w \notin Running /\ Running' = Running
      /\ wf \in [Workflows -> Rows] /\ held \subseteq Workflows /\ log \in [Workflows -> Logs]
      /\ \A r \in run : r \in Calls /\ run = {r} /\ r.wf \in Running /\ r.wf \in Workflows
      /\ \A v \in Workflows : Accounted(v)
      /\ wf[w] \in Rows /\ \A e \in Entry : log[w][e] \in Nat
  BY DEF Unborrowed, OInv, OTypeOK, Running, Calls, Logs
<1>1. /\ registered' = registered /\ log' = log
      /\ forced \in [Workflows -> Nat] /\ forced' \in [Workflows -> Nat]
      /\ \A v \in Workflows : v # w => forced'[v] = forced[v]
  BY <1>0 DEF OwnerMoves, MarkRunning, MarkCancelled, RetryWorkflow, Drop, Move, OInv, OTypeOK
<1>2. ASSUME NEW x \in Rows, wf' = [wf EXCEPT ![w] = x], held' = held, Accounted(w)' PROVE OInv'
  <2>1. /\ wf' \in [Workflows -> Rows]
        /\ \A v \in Workflows : v # w => wf'[v] = wf[v]
    BY <1>0, <1>2, RowWritten
  <2>2. OTypeOK'
    BY <1>0, <1>1, <1>2, <2>1 DEF OTypeOK
  <2>3. BorrowedOK'
    BY <1>0, <1>1, <1>2, <2>1 DEF OInv, BorrowedOK
  <2>4. \A v \in Workflows : Accounted(v)'
    BY <1>0, <1>1, <1>2, <2>1, Untouched
  <2> QED BY <2>2, <2>3, <2>4 DEF OInv
<1>3. CASE MarkRunning(w)
  <2> DEFINE x == [wf[w] EXCEPT !.status = "running", !.attempts = wf[w].attempts + 1]
  <2>1. wf' = [wf EXCEPT ![w] = x] /\ held' = held /\ forced' = forced
    BY <1>0, <1>3 DEF MarkRunning
  <2>a. x = [wf[w] EXCEPT !.status = "running", !.attempts = wf[w].attempts + 1]
    OBVIOUS
  <2> HIDE DEF x
  <2>2. x \in Rows /\ x.status = "running" /\ x.attempts = wf[w].attempts + 1
    <3>1. wf[w].attempts \in Nat /\ wf[w].attempts + 1 \in Nat /\ "running" \in Status
      BY <1>0 DEF Rows, Status, WorkflowStatus
    <3> QED BY <1>0, <2>a, <3>1 DEF Rows
  <2>3. wf'[w] = x /\ wf[w].attempts \in Nat /\ wf[w].status \in {"pending", "waiting_for_human"}
    BY <1>0, <1>3, <2>1, <2>2, RowWritten DEF MarkRunning, Successors, Rows, Status, WorkflowStatus
  <2>4. Accounted(w)'
    BY <1>0, <1>1, <2>1, <2>2, <2>3, ConstantsOK DEF Accounted, Underway, MaxAttempts, Entry
  <2> QED BY <1>2, <2>1, <2>2, <2>4
<1>4. ASSUME NEW to \in Status \ {"none"}, wf' = [wf EXCEPT ![w].status = to], held' = held,
             wf[w].status \notin {"none", "completed"},
             to = "pending" => wf[w].attempts < MaxAttempts \/ forced'[w] > forced[w],
             forced'[w] >= forced[w],
             wf[w].status \in {"failed", "cancelled"} => to \in {"cancelled", "pending"}
      PROVE  OInv'
  <2> DEFINE x == [wf[w] EXCEPT !.status = to]
  <2>1. wf' = [wf EXCEPT ![w] = x]
    BY <1>0, <1>4
  <2>2. x \in Rows /\ x.status = to /\ x.attempts = wf[w].attempts
    BY <1>0, StatusSet
  <2> HIDE DEF x
  <2>3. wf'[w] = x /\ wf[w].attempts \in Nat
    BY <1>0, <2>1, <2>2, RowWritten DEF Rows
  <2>4. forced[w] \in Nat /\ forced'[w] \in Nat /\ Accounted(w) /\ Underway(w)' = Underway(w)
    BY <1>0, <1>1 DEF Underway
  <2>5. /\ log[w]["escalated"] \in Nat /\ log[w]["escalated"] <= 1 + forced'[w]
        /\ to = "pending" => log[w]["escalated"] <= forced'[w]
    BY <1>0, <1>4, <2>3, <2>4, ConstantsOK DEF Accounted, MaxAttempts, Entry
  <2>6. log[w]["escalated"] > forced'[w] => to \in {"failed", "cancelled"} /\ wf[w].attempts >= MaxAttempts
    BY <1>0, <1>4, <2>3, <2>4, <2>5 DEF Accounted
  <2>7. Accounted(w)'
    BY <1>0, <1>1, <1>4, <2>2, <2>3, <2>4, <2>5, <2>6, ConstantsOK DEF Accounted, MaxAttempts, Entry
  <2> QED BY <1>2, <1>4, <2>1, <2>2, <2>7
<1>5. CASE Drop(w)
  <2>1. wf' = wf /\ held' = held \ {w} /\ forced' = forced
    BY <1>5 DEF Drop
  <2>2. \A v \in Workflows : Accounted(v)'
    BY <1>0, <1>1, <2>1, Untouched
  <2>3. OTypeOK'
    BY <1>0, <1>1, <2>1 DEF OTypeOK
  <2>4. BorrowedOK'
    BY <1>0, <1>1, <2>1 DEF OInv, BorrowedOK
  <2> QED BY <2>2, <2>3, <2>4 DEF OInv
<1>6. CASE MarkCancelled(w)
  <2>1. forced'[w] >= forced[w]
    BY <1>0, <1>1, <1>6 DEF MarkCancelled
  <2> QED BY <1>4, <1>6, <2>1 DEF MarkCancelled, Cancellable, Status, WorkflowStatus
<1>7. CASE RetryWorkflow(w)
  <2>1. forced'[w] >= forced[w]
    BY <1>0, <1>1, <1>7 DEF RetryWorkflow
  <2> QED BY <1>4, <1>7, <2>1 DEF RetryWorkflow, AttemptsLeft, Successors, Status, WorkflowStatus
<1>8. ASSUME NEW to \in Status, Move(w, to) PROVE OInv'
  <2>1. /\ forced'[w] >= forced[w]
        /\ to = "pending" => wf[w].attempts < MaxAttempts \/ forced'[w] > forced[w]
    BY <1>0, <1>1, <1>8 DEF Move, AttemptsLeft
  <2>2. /\ wf' = [wf EXCEPT ![w].status = to] /\ held' = held
        /\ to \in Status \ {"none"} /\ wf[w].status \notin {"none", "completed"}
        /\ wf[w].status \in {"failed", "cancelled"} => to \in {"cancelled", "pending"}
    BY <1>8 DEF Move, Successors, Status, WorkflowStatus
  <2> QED BY <1>4, <2>1, <2>2
<1> QED BY <1>3, <1>5, <1>6, <1>7, <1>8 DEF OwnerMoves

(* A marked row is running, with an attempt counted. *)
LEMMA MarkedRow ==
  ASSUME NEW x \in Rows, NEW kept \in BOOLEAN, NEW y, y = Marked(x, kept)
  PROVE  y \in Rows /\ y.status = "running" /\ y.attempts = (IF kept THEN x.attempts + 1 ELSE 1)
<1>1. "running" \in Status /\ x.attempts + 1 \in Nat /\ 1 \in Nat
  BY DEF Rows, Status, WorkflowStatus
<1>2. CASE kept = TRUE
  <2>1. y = [x EXCEPT !.status = "running", !.attempts = x.attempts + 1]
    BY <1>2 DEF Marked
  <2> QED BY <1>1, <1>2, <2>1 DEF Rows
<1>3. CASE kept = FALSE
  <2>1. y = [x EXCEPT !.status = "running", !.attempts = 1]
    BY <1>3 DEF Marked
  <2>2. y \in Rows /\ y.status = "running" /\ y.attempts = 1
    BY <1>1, <2>1 DEF Rows
  <2> QED BY <1>3, <2>2
<1> QED BY <1>2, <1>3

(* The beginning of a run, of a workflow somebody has or of a new one.      *)
LEMMA BeginKeeps ==
  ASSUME OInv, NEW w \in Workflows, NEW kept \in BOOLEAN,
         IF kept THEN Begin(w) ELSE SubmitAndBegin(w)
  PROVE  OInv'
<1> DEFINE c == [wf |-> w, row |-> wf[w], log |-> log[w], kept |-> kept]
           x == Marked(wf[w], kept)
           l == Recorded(log[w], Beginning(kept))
<1>0. /\ run = {} /\ Running = {} /\ wf \in [Workflows -> Rows] /\ log \in [Workflows -> Logs]
      /\ held \subseteq Workflows /\ wf[w] \in Rows /\ log[w] \in Logs
      /\ \A v \in Workflows : Accounted(v)
  BY DEF OInv, OTypeOK, Begin, SubmitAndBegin, Running, None
<1>f. forced' = forced /\ forced \in [Workflows -> Nat]
  BY DEF OInv, OTypeOK, Begin, SubmitAndBegin
<1>1. /\ run' = {c} /\ registered' = registered /\ held' = held
      /\ wf[w].kind \in registered
      /\ kept => /\ w \in held /\ "running" \in Successors(wf[w].status) /\ wf[w].attempts < AttemptBound
                 /\ wf' = [wf EXCEPT ![w].status = "running", ![w].attempts = @ + 1]
                 /\ log' = [log EXCEPT ![w]["started"] = @ + 1]
      /\ ~kept => /\ wf[w].status = "none"
                  /\ wf' = [wf EXCEPT ![w].status = "running", ![w].attempts = 1]
                  /\ log' = [log EXCEPT ![w] = Recorded(@, {"created", "started"})]
  <2>1. CASE kept = TRUE
    BY <2>1 DEF Begin, Runnable, Some
  <2>2. CASE kept = FALSE
    BY <2>2 DEF SubmitAndBegin, Some
  <2> QED BY <2>1, <2>2
<1>3. c.wf = w /\ c.row = wf[w] /\ c.log = log[w] /\ c.kept = kept /\ c \in Calls
  BY <1>0 DEF Calls
<1>4. wf' = [wf EXCEPT ![w] = x] /\ log' = [log EXCEPT ![w] = l]
  <2>1. CASE kept = TRUE
    <3>1. log' = [log EXCEPT ![w] = Recorded(log[w], {"started"})]
      BY <1>0, <1>1, <2>1, OneMore DEF Entry
    <3>2. wf' = [wf EXCEPT ![w] = [wf[w] EXCEPT !.status = "running", !.attempts = wf[w].attempts + 1]]
      BY <1>0, <1>1, <2>1
    <3> QED BY <2>1, <3>1, <3>2 DEF Marked, Beginning
  <2>2. CASE kept = FALSE
    BY <1>0, <1>1, <2>2 DEF Marked, Beginning
  <2> QED BY <2>1, <2>2
<1>5. wf[w].status \in {"none", "pending", "waiting_for_human"}
  BY <1>1 DEF Successors
<1>6. x = Marked(wf[w], kept) /\ l = Recorded(log[w], Beginning(kept))
  OBVIOUS
<1>7. ~kept => wf[w].status = "none"
  BY <1>1
<1> HIDE DEF c, x, l
<1>8. x \in Rows /\ x.status = "running" /\ x.attempts = (IF kept THEN wf[w].attempts + 1 ELSE 1)
  BY <1>0, <1>6, MarkedRow
<1>9. /\ l \in Logs
      /\ \A e \in Entry : l[e] = log[w][e] + (IF e \in Beginning(kept) THEN 1 ELSE 0)
  BY <1>0, <1>6, RecordedFacts
<1>10. /\ wf' \in [Workflows -> Rows] /\ wf'[w] = x
       /\ \A v \in Workflows : v # w => wf'[v] = wf[v]
  BY <1>0, <1>4, <1>8, RowWritten
<1>11. /\ log' \in [Workflows -> Logs] /\ log'[w] = l
       /\ \A v \in Workflows : v # w => log'[v] = log[v]
  BY <1>0, <1>4, <1>9, LogWritten
<1>12. Running' = {w}
  BY <1>1, <1>3 DEF Running
<1>13. OTypeOK'
  BY <1>0, <1>f, <1>1, <1>3, <1>10, <1>11 DEF OTypeOK
<1>14. BorrowedOK'
  BY <1>1, <1>3, <1>6, <1>7, <1>10, <1>11 DEF BorrowedOK
<1>15. Accounted(w)'
  <2>1. Accounted(w) /\ Underway(w) = 0 /\ Underway(w)' = 1
    BY <1>0, <1>12 DEF Underway
  <2>2. /\ l["started"] = log[w]["started"] + 1
        /\ \A e \in {"completed", "failed", "escalated"} : l[e] = log[w][e]
        /\ \A e \in {"started", "completed", "failed", "escalated"} : log[w][e] \in Nat
    BY <1>0, <1>9 DEF Beginning, Entry, Logs
  <2>3. wf[w].attempts \in Nat
    BY <1>0 DEF Rows
  <2>4. x.attempts = wf[w].attempts + 1
    BY <1>7, <1>8, <2>1, <2>3 DEF Accounted
  <2>5. forced'[w] = forced[w] /\ forced[w] \in Nat /\ log[w]["escalated"] <= forced[w]
    BY <1>f, <1>5, <2>1, <2>2 DEF Accounted
  <2> QED BY <1>5, <1>8, <1>10, <1>11, <2>1, <2>2, <2>3, <2>4, <2>5, ConstantsOK DEF Accounted, MaxAttempts
<1>16. \A v \in Workflows : Accounted(v)'
  BY <1>0, <1>f, <1>10, <1>11, <1>12, <1>15, Untouched
<1> QED BY <1>13, <1>14, <1>16 DEF OInv

(* The agent at work, which changes nothing but its tasks.                  *)
LEMMA MoveTaskKeeps ==
  ASSUME OInv, NEW t \in Tasks, NEW to \in TaskStatus, MoveTask(t, to)
  PROVE  OInv'
BY Untouched DEF MoveTask, OInv, OTypeOK, BorrowedOK, Running

(* What the outcome of a run is, by whether the agent succeeded and whether *)
(* an attempt is left.                                                      *)
LEMMA OutcomeFacts ==
  ASSUME NEW a \in Nat, NEW ok \in BOOLEAN
  PROVE  /\ Outcome(a, ok) \in Status
         /\ ok => /\ Outcome(a, ok) = "completed"
                  /\ Entries(a, ok) = {"started", "completed"}
         /\ ~ok /\ a < MaxAttempts => /\ Outcome(a, ok) = "pending"
                                     /\ Entries(a, ok) = {"started", "failed"}
         /\ ~ok /\ ~(a < MaxAttempts) => /\ Outcome(a, ok) = "failed"
                                        /\ Entries(a, ok) = {"started", "failed", "escalated"}
BY DEF Outcome, Entries, AttemptsLeft, Status, WorkflowStatus

(* The end of a run.                                                        *)
LEMMA FinishKeeps ==
  ASSUME OInv, NEW ok \in BOOLEAN, Finish(ok)
  PROVE  OInv'
<1>0. PICK r \in run :
        LET a == AttemptsAfter(r) IN
        /\ wf' = [wf EXCEPT ![r.wf].status = Outcome(a, ok), ![r.wf].attempts = a]
        /\ log' = [log EXCEPT ![r.wf] = Recorded(@, Entries(a, ok) \ {"started"})]
        /\ held' = HeldAfter(r, ok)
        /\ run' = None /\ registered' = registered /\ forced' = forced
  BY DEF Finish
<1> DEFINE w == r.wf
           a == wf[w].attempts
           x == [wf[w] EXCEPT !.status = Outcome(a, ok), !.attempts = a]
           l == Recorded(log[w], Entries(a, ok) \ {"started"})
<1>1. /\ w \in Workflows /\ r \in Calls /\ run = {r} /\ Running = {w}
      /\ wf \in [Workflows -> Rows] /\ log \in [Workflows -> Logs] /\ held \subseteq Workflows
      /\ wf[w] \in Rows /\ log[w] \in Logs
      /\ forced' = forced /\ forced \in [Workflows -> Nat]
      /\ \A v \in Workflows : Accounted(v)
  BY <1>0 DEF OInv, OTypeOK, Running, Calls
<1>2. a \in Nat /\ wf[w].status = "running"
  <2>1. wf[w] = Marked(r.row, r.kept) /\ r.row \in Rows /\ r.kept \in BOOLEAN
    BY <1>0, <1>1 DEF OInv, BorrowedOK, Calls
  <2> QED BY <1>1, <2>1, MarkedRow DEF Rows
<1>3. wf' = [wf EXCEPT ![w] = x] /\ log' = [log EXCEPT ![w] = l] /\ held' \subseteq Workflows
      /\ run' = {} /\ Running' = {}
  BY <1>0, <1>1 DEF AttemptsAfter, HeldAfter, None, Running
<1>4. x = [wf[w] EXCEPT !.status = Outcome(a, ok), !.attempts = a] /\ l = Recorded(log[w], Entries(a, ok) \ {"started"})
  OBVIOUS
<1> HIDE DEF x, l
<1>5. x \in Rows /\ x.status = Outcome(a, ok) /\ x.attempts = a
  BY <1>1, <1>2, <1>4, OutcomeFacts DEF Rows
<1>6. /\ l \in Logs
      /\ \A e \in Entry : l[e] = log[w][e] + (IF e \in Entries(a, ok) \ {"started"} THEN 1 ELSE 0)
  BY <1>1, <1>4, RecordedFacts
<1>7. /\ wf' \in [Workflows -> Rows] /\ wf'[w] = x
      /\ \A v \in Workflows : v # w => wf'[v] = wf[v]
  BY <1>1, <1>3, <1>5, RowWritten
<1>8. /\ log' \in [Workflows -> Logs] /\ log'[w] = l
      /\ \A v \in Workflows : v # w => log'[v] = log[v]
  BY <1>1, <1>3, <1>6, LogWritten
<1>9. Accounted(w)'
  <2>1. Accounted(w) /\ Underway(w) = 1 /\ Underway(w)' = 0
    BY <1>1, <1>3 DEF Underway
  <2>2. \A e \in {"started", "completed", "failed", "escalated"} :
          log[w][e] \in Nat /\ l[e] = log[w][e] + (IF e \in Entries(a, ok) \ {"started"} THEN 1 ELSE 0)
    BY <1>1, <1>6 DEF Entry, Logs
  <2>3. /\ log[w]["completed"] = 0 /\ log[w]["escalated"] <= forced[w]
        /\ log[w]["started"] = log[w]["failed"] + 1 /\ log[w]["started"] <= a
        /\ log[w]["failed"] >= MaxAttempts => log[w]["escalated"] >= 1
        /\ forced[w] \in Nat /\ forced'[w] = forced[w]
    <3>1. forced[w] \in Nat /\ forced'[w] = forced[w]
      BY <1>1
    <3>2. ~ (log[w]["escalated"] > forced[w])
      BY <1>2, <2>1 DEF Accounted
    <3>3. log[w]["completed"] # 1 /\ log[w]["completed"] <= 1
      BY <1>2, <2>1 DEF Accounted
    <3> QED BY <1>2, <2>1, <2>2, <3>1, <3>2, <3>3 DEF Accounted
  <2>4. CASE ok
    <3>1. x.status = "completed" /\ l["started"] = log[w]["started"] /\ l["completed"] = 1
          /\ l["failed"] = log[w]["failed"] /\ l["escalated"] = log[w]["escalated"]
      <4>1. Outcome(a, ok) = "completed" /\ Entries(a, ok) = {"started", "completed"}
        BY <1>2, <2>4, OutcomeFacts
      <4> QED BY <1>5, <2>2, <2>3, <4>1
    <3> QED BY <1>2, <1>5, <1>7, <1>8, <2>1, <2>2, <2>3, <3>1, ConstantsOK DEF Accounted, MaxAttempts
  <2>5. CASE ~ok /\ a < MaxAttempts
    <3>1. x.status = "pending" /\ l["started"] = log[w]["started"] /\ l["completed"] = 0
          /\ l["failed"] = log[w]["failed"] + 1 /\ l["escalated"] = log[w]["escalated"]
      BY <1>2, <1>5, <2>2, <2>3, <2>5, OutcomeFacts
    <3>2. l["failed"] < MaxAttempts
      BY <1>2, <2>2, <2>3, <2>5, <3>1, ConstantsOK DEF MaxAttempts
    <3>3. l["started"] <= a /\ l["started"] = l["completed"] + l["failed"]
      BY <2>2, <2>3, <3>1
    <3> QED BY <1>2, <1>5, <1>7, <1>8, <2>1, <2>2, <2>3, <2>5, <3>1, <3>2, <3>3, ConstantsOK DEF Accounted, MaxAttempts
  <2>6. CASE ~ok /\ ~(a < MaxAttempts)
    <3>1. x.status = "failed" /\ l["started"] = log[w]["started"] /\ l["completed"] = 0
          /\ l["failed"] = log[w]["failed"] + 1 /\ l["escalated"] = log[w]["escalated"] + 1
      BY <1>2, <1>5, <2>2, <2>3, <2>6, OutcomeFacts
    <3> QED BY <1>2, <1>5, <1>7, <1>8, <2>1, <2>2, <2>3, <2>6, <3>1, ConstantsOK DEF Accounted, MaxAttempts
  <2> QED BY <2>4, <2>5, <2>6
<1>10. \A v \in Workflows : Accounted(v)'
  BY <1>1, <1>3, <1>7, <1>8, <1>9, Untouched
<1> QED BY <1>1, <1>3, <1>7, <1>8, <1>10 DEF OInv, OTypeOK, BorrowedOK

LEMMA OInvNext == OInv /\ [ONext]_ovars => OInv'
<1> SUFFICES ASSUME OInv, [ONext]_ovars PROVE OInv'
  OBVIOUS
<1>1. CASE UNCHANGED ovars
  BY <1>1, Untouched DEF ovars, OInv, OTypeOK, BorrowedOK, Running
<1>2. ASSUME NEW w \in Workflows, Begin(w) \/ SubmitAndBegin(w) PROVE OInv'
  <2>1. CASE Begin(w)
    BY <2>1, BeginKeeps, TRUE \in BOOLEAN
  <2>2. CASE SubmitAndBegin(w)
    BY <2>2, BeginKeeps, FALSE \in BOOLEAN
  <2> QED BY <1>2, <2>1, <2>2
<1> QED BY <1>1, <1>2, OrchestrateKeeps, OwnKeeps, MoveTaskKeeps, FinishKeeps DEF ONext

LEMMA OInvAlways == OSpec => []OInv
BY OInvInit, OInvNext, PTL DEF OSpec

(***************************************************************************)
(* What the retry policy and the log promise                               *)
(***************************************************************************)

(* Whatever owners do with the state machine between the runs, a pending    *)
(* workflow has an attempt left (RetryPolicy::should_retry), unless its     *)
(* owner has forced it back with the bare transition.                       *)
THEOREM PendingCanBeRun == OSpec => []PendingHasAttemptLeft
<1>1. OInv => PendingHasAttemptLeft
  BY DEF OInv, Accounted, PendingHasAttemptLeft
<1> QED BY <1>1, OInvAlways, PTL

(* run_workflow escalates a workflow at most once more than its owner has   *)
(* forced it back with the bare transition; the escalation comes no later   *)
(* than the last failure, and but by force nothing runs the workflow after  *)
(* it.                                                                      *)
THEOREM OneEscalationForGood == OSpec => []EscalatedOnceForGood
<1>1. OInv => EscalatedOnceForGood
  BY DEF OInv, Accounted, EscalatedOnceForGood
<1> QED BY <1>1, OInvAlways, PTL

(* The audit log of the orchestrator accounts for every run.                *)
THEOREM RunsAreAccounted == OSpec => []EveryRunAccounted
<1>1. OInv => EveryRunAccounted
  BY DEF OInv, Accounted, EveryRunAccounted, Underway
<1> QED BY <1>1, OInvAlways, PTL

(***************************************************************************)
(* Announced transitions                                                   *)
(***************************************************************************)
Announced(w) ==
  LET from == wf[w].status  to == wf'[w].status IN
  /\ IsTerminal(from) => to = from
  /\ from \in {"none", "failed", to} \/ CanTransitionTo(from, to)
     \/ (from = "running" /\ to = "pending" /\ log'[w]["failed"] > log[w]["failed"])

(* It suffices to look at the workflow a step changes.                      *)
LEMMA OnlyOneMoves ==
  ASSUME wf \in [Workflows -> Rows], NEW w \in Workflows,
         \A v \in Workflows : v # w => wf'[v] = wf[v], Announced(w)
  PROVE  \A v \in Workflows : Announced(v)
BY DEF Announced

LEMMA StepsAreAnnounced ==
  ASSUME OInv, ONext
  PROVE  \A w \in Workflows : Announced(w)
<1>0. /\ wf \in [Workflows -> Rows] /\ log \in [Workflows -> Logs] /\ \A w \in Workflows : wf[w] \in Rows
      /\ "running" \in Status /\ 1 \in Nat
  BY DEF OInv, OTypeOK, Status, WorkflowStatus
<1>1. CASE wf' = wf
  BY <1>1 DEF Announced
<1>2. ASSUME NEW w \in Workflows, Submit(w) \/ SubmitForNobody(w) \/ SubmitAndBegin(w)
      PROVE  \A v \in Workflows : Announced(v)
  <2>1. wf[w].status = "none" /\ \A v \in Workflows : v # w => wf'[v] = wf[v]
    BY <1>0, <1>2 DEF Submit, SubmitForNobody, SubmitAndBegin
  <2>2. Announced(w)
    BY <2>1 DEF Announced, IsTerminal
  <2> QED BY <1>0, <2>1, <2>2, OnlyOneMoves
<1>3. ASSUME NEW w \in Workflows, Begin(w) \/ MarkRunning(w)
      PROVE  \A v \in Workflows : Announced(v)
  <2>1. /\ wf' = [wf EXCEPT ![w].status = "running", ![w].attempts = @ + 1]
        /\ wf[w].status \in {"pending", "waiting_for_human"}
    BY <1>3 DEF Begin, Runnable, MarkRunning, Successors
  <2>2. wf'[w].status = "running" /\ \A v \in Workflows : v # w => wf'[v] = wf[v]
    BY <1>0, <2>1 DEF Rows
  <2>3. Announced(w)
    BY <2>1, <2>2 DEF Announced, IsTerminal, CanTransitionTo, ValidTransitions
  <2> QED BY <1>0, <2>2, <2>3, OnlyOneMoves
<1>4. ASSUME NEW w \in Workflows, NEW to, wf' = [wf EXCEPT ![w].status = to],
             wf[w].status \notin {"completed", "cancelled"},
             wf[w].status = "failed" \/ to \in ValidTransitions(wf[w].status)
      PROVE  \A v \in Workflows : Announced(v)
  <2>1. wf'[w].status = to /\ \A v \in Workflows : v # w => wf'[v] = wf[v]
    BY <1>0, <1>4 DEF Rows
  <2>2. Announced(w)
    BY <1>4, <2>1 DEF Announced, IsTerminal, CanTransitionTo
  <2> QED BY <1>0, <2>1, <2>2, OnlyOneMoves
<1>5. ASSUME NEW w \in Workflows, MarkCancelled(w) PROVE \A v \in Workflows : Announced(v)
  <2>1. wf[w].status \in Status
    BY <1>0 DEF Rows
  <2> QED BY <1>4, <1>5, <2>1 DEF MarkCancelled, Cancellable, ValidTransitions, Status, WorkflowStatus
<1>6. ASSUME NEW w \in Workflows, RetryWorkflow(w) PROVE \A v \in Workflows : Announced(v)
  BY <1>4, <1>6 DEF RetryWorkflow, Successors
<1>7. ASSUME NEW w \in Workflows, NEW to \in Status, Move(w, to) PROVE \A v \in Workflows : Announced(v)
  BY <1>4, <1>7 DEF Move, Successors, ValidTransitions
<1>8. ASSUME NEW ok \in BOOLEAN, Finish(ok) PROVE \A v \in Workflows : Announced(v)
  <2>0. PICK r \in run :
          LET a == AttemptsAfter(r) IN
          /\ wf' = [wf EXCEPT ![r.wf].status = Outcome(a, ok), ![r.wf].attempts = a]
          /\ log' = [log EXCEPT ![r.wf] = Recorded(@, Entries(a, ok) \ {"started"})]
    BY <1>8 DEF Finish
  <2> DEFINE w == r.wf
             a == wf[w].attempts
  <2>1. w \in Workflows /\ log[w] \in Logs /\ a \in Nat /\ wf[w].status = "running"
    <3>1. r.row \in Rows /\ r.kept \in BOOLEAN /\ wf[w] = Marked(r.row, r.kept) /\ w \in Workflows
      BY DEF OInv, OTypeOK, BorrowedOK, Calls
    <3> QED BY <1>0, <3>1, MarkedRow DEF Rows
  <2>2. wf'[w].status = Outcome(a, ok) /\ \A v \in Workflows : v # w => wf'[v] = wf[v]
    BY <1>0, <2>0, <2>1 DEF AttemptsAfter, Rows
  <2>3. log'[w] = Recorded(log[w], Entries(a, ok) \ {"started"})
    BY <1>0, <2>0, <2>1 DEF AttemptsAfter
  <2>4. ~ok /\ a < MaxAttempts => log'[w]["failed"] > log[w]["failed"]
    <3>1. SUFFICES ASSUME ~ok, a < MaxAttempts PROVE log'[w]["failed"] > log[w]["failed"]
      OBVIOUS
    <3>2. "failed" \in Entries(a, ok) \ {"started"} /\ "failed" \in Entry
      BY <2>1, <3>1, OutcomeFacts DEF Entry
    <3>3. log[w]["failed"] \in Nat /\ log'[w]["failed"] = log[w]["failed"] + 1
      BY <2>1, <2>3, <3>2, RecordedFacts DEF Logs
    <3> QED BY <3>3
  <2>5. Announced(w)
    BY <2>1, <2>2, <2>4, OutcomeFacts DEF Announced, IsTerminal, CanTransitionTo, ValidTransitions
  <2> QED BY <1>0, <2>1, <2>2, <2>5, OnlyOneMoves
<1>9. CASE Orchestrate
  BY <1>1, <1>2, <1>9 DEF Orchestrate, CreateEscalation, RegisterAgent
<1>10. CASE Own
  <2>1. PICK w \in Workflows : OwnerMoves(w)
    BY <1>10 DEF Own, Unborrowed
  <2> QED BY <1>1, <1>3, <1>5, <1>6, <1>7, <2>1 DEF OwnerMoves, Drop
<1>11. ASSUME NEW t \in Tasks, NEW to \in TaskStatus, MoveTask(t, to) PROVE wf' = wf
  BY <1>11 DEF MoveTask
<1> QED BY <1>1, <1>2, <1>3, <1>8, <1>9, <1>10, <1>11 DEF ONext

(* The table types.rs announces and the one state_machine.rs enforces       *)
(* differ in what a failed workflow may do, and in nothing else a caller    *)
(* can see.                                                                 *)
THEOREM MovesAreAnnounced == OSpec => AnnouncedMoves
<1>1. OInv /\ [ONext]_ovars => [\A w \in Workflows : Announced(w)]_ovars
  BY StepsAreAnnounced
<1>2. OSpec => [][\A w \in Workflows : Announced(w)]_ovars
  BY <1>1, OInvAlways, PTL DEF OSpec
<1> QED BY <1>2 DEF AnnouncedMoves, Announced

(***************************************************************************)
(* A run in its steps is a run                                             *)
(***************************************************************************)

(* Between two runs the abstract table is the table.                        *)
LEMMA BarIdle ==
  ASSUME wf \in [Workflows -> Rows], log \in [Workflows -> Logs], run = {}
  PROVE  wfBar = wf /\ logBar = log
BY DEF wfBar, logBar, Running

(* During a run it has the row and the log of the workflow from before.     *)
LEMMA BarBusy ==
  ASSUME wf \in [Workflows -> Rows], log \in [Workflows -> Logs], NEW r, run = {r}, r.wf \in Workflows
  PROVE  wfBar = [wf EXCEPT ![r.wf] = r.row] /\ logBar = [log EXCEPT ![r.wf] = r.log]
<1>1. Running = {r.wf} /\ (CHOOSE q \in run : TRUE) = r
  BY DEF Running
<1> QED BY <1>1 DEF wfBar, logBar

(* The same after a step.                                                   *)
LEMMA BarIdleNext ==
  ASSUME wf' \in [Workflows -> Rows], log' \in [Workflows -> Logs], run' = {}
  PROVE  wfBar' = wf' /\ logBar' = log'
BY DEF wfBar, logBar, Running

LEMMA BarBusyNext ==
  ASSUME wf' \in [Workflows -> Rows], log' \in [Workflows -> Logs], NEW r, run' = {r}, r.wf \in Workflows
  PROVE  wfBar' = [wf' EXCEPT ![r.wf] = r.row] /\ logBar' = [log' EXCEPT ![r.wf] = r.log]
<1>1. Running' = {r.wf} /\ (CHOOSE q \in run' : TRUE) = r
  BY DEF Running
<1> QED BY <1>1 DEF wfBar, logBar

(* What is written of a workflow no run has borrowed is written of the      *)
(* abstract table.                                                          *)
LEMMA BarWritten ==
  ASSUME OInv, OInv', NEW w \in Workflows \ Running, run' = run, log' = log,
         NEW x, wf' = [wf EXCEPT ![w] = x]
  PROVE  wfBar[w] = wf[w] /\ wfBar' = [wfBar EXCEPT ![w] = x] /\ logBar' = logBar
<1>1. Running' = Running
  BY DEF Running
<1>2. wf \in [Workflows -> Rows]
  BY DEF OInv, OTypeOK
<1>3. \A v \in Workflows : wf'[v] = IF v = w THEN x ELSE wf[v]
  BY <1>2
<1>4. logBar' = logBar /\ wfBar[w] = wf[w]
  BY <1>1 DEF logBar, wfBar
<1> DEFINE before == (CHOOSE r \in run : TRUE).row
<1>5. /\ wfBar = [v \in Workflows |-> IF v \in Running THEN before ELSE wf[v]]
      /\ wfBar' = [v \in Workflows |-> IF v \in Running THEN before ELSE wf'[v]]
  BY <1>1 DEF wfBar
<1> HIDE DEF before
<1>6. wfBar' = [wfBar EXCEPT ![w] = x]
  BY <1>3, <1>5
<1> QED BY <1>4, <1>6

(* Both instances of the helpers are the same.                              *)
LEMMA SameHelpers ==
  /\ \A s : Atomic!Successors(s) = Successors(s)
  /\ \A s : Atomic!Cancellable(s) <=> Cancellable(s)
  /\ \A a : Atomic!AttemptsLeft(a) <=> AttemptsLeft(a)
  /\ \A k : Atomic!NewWorkflow(k) = NewWorkflow(k)
  /\ \A a, ok : Atomic!Outcome(a, ok) = Outcome(a, ok)
  /\ \A a, ok : Atomic!Entries(a, ok) = Entries(a, ok)
  /\ \A old, entries : Atomic!Recorded(old, entries) = Recorded(old, entries)
  /\ Atomic!Status = Status
BY DEF Atomic!Successors, Successors, Atomic!Cancellable, Cancellable, Atomic!AttemptsLeft, AttemptsLeft,
       Atomic!MaxAttempts, MaxAttempts, Atomic!NewWorkflow, NewWorkflow, Atomic!Outcome, Outcome,
       Atomic!Entries, Entries, Atomic!Recorded, Recorded, Atomic!Entry, Entry, Atomic!Status, Status,
       Atomic!WorkflowStatus, WorkflowStatus

LEMMA RefinementInit == OInit => Atomic!Init
<1> SUFFICES ASSUME OInit PROVE Atomic!Init
  OBVIOUS
<1>1. wfBar = wf /\ logBar = log
  BY OInvInit, BarIdle DEF OInit, None, OInv, OTypeOK
<1> QED BY <1>1 DEF OInit, Init, Atomic!Init, Atomic!NotThere, NotThere, Atomic!NewWorkflow, NewWorkflow,
                    Atomic!Entry, Entry

(* What is not a run's is the same operation of the abstract table.         *)
LEMMA OrchestrateRefines ==
  ASSUME OInv, OInv', Orchestrate PROVE Atomic!Next
<1>1. wfBar = wf /\ logBar = log
  BY BarIdle DEF Orchestrate, None, OInv, OTypeOK
<1>2. wfBar' = wf' /\ logBar' = log'
  BY BarIdleNext DEF Orchestrate, None, OInv, OTypeOK
<1>3. ASSUME NEW w \in Workflows, Submit(w) \/ SubmitForNobody(w) \/ CreateEscalation(w)
      PROVE  Atomic!Submit(w) \/ Atomic!SubmitForNobody(w) \/ Atomic!CreateEscalation(w)
  BY <1>1, <1>2, <1>3, SameHelpers
  DEF Submit, SubmitForNobody, CreateEscalation,
      Atomic!Submit, Atomic!SubmitForNobody, Atomic!CreateEscalation
<1>4. ASSUME NEW k \in Kinds, RegisterAgent(k) PROVE Atomic!RegisterAgent(k)
  BY <1>1, <1>2, <1>4 DEF RegisterAgent, Atomic!RegisterAgent
<1> QED BY <1>3, <1>4 DEF Orchestrate, Atomic!Next

LEMMA OwnRefines ==
  ASSUME OInv, OInv', Own PROVE Atomic!Next
<1> SUFFICES ASSUME NEW w \in Workflows \ Running, OwnerMoves(w), run' = run PROVE Atomic!OwnerMoves(w)
  BY DEF Own, Unborrowed, Atomic!Next
<1>1. ASSUME NEW x, wf' = [wf EXCEPT ![w] = x], log' = log
      PROVE  wfBar[w] = wf[w] /\ wfBar' = [wfBar EXCEPT ![w] = x] /\ logBar' = logBar
  BY <1>1, BarWritten
<1>2. CASE MarkRunning(w)
  <2> DEFINE x == [wf[w] EXCEPT !.status = "running", !.attempts = @ + 1]
  <2>1. wf' = [wf EXCEPT ![w] = x] /\ log' = log
    BY <1>2 DEF MarkRunning
  <2>2. wfBar[w] = wf[w] /\ wfBar' = [wfBar EXCEPT ![w] = x] /\ logBar' = logBar
    BY <1>1, <2>1
  <2> QED BY <1>2, <2>2, SameHelpers DEF MarkRunning, Atomic!MarkRunning, Atomic!OwnerMoves
<1>3. ASSUME NEW to, wf' = [wf EXCEPT ![w].status = to], log' = log
      PROVE  wfBar[w] = wf[w] /\ wfBar' = [wfBar EXCEPT ![w].status = to] /\ logBar' = logBar
  <2>1. wf' = [wf EXCEPT ![w] = [wf[w] EXCEPT !.status = to]]
    BY <1>3
  <2>2. wfBar[w] = wf[w] /\ wfBar' = [wfBar EXCEPT ![w] = [wf[w] EXCEPT !.status = to]] /\ logBar' = logBar
    BY <1>1, <1>3, <2>1
  <2> QED BY <2>2
<1>4. CASE MarkCancelled(w)
  BY <1>3, <1>4, SameHelpers DEF MarkCancelled, Atomic!MarkCancelled, Atomic!OwnerMoves
<1>5. CASE RetryWorkflow(w)
  BY <1>3, <1>5, SameHelpers DEF RetryWorkflow, Atomic!RetryWorkflow, Atomic!OwnerMoves
<1>6. CASE Drop(w)
  <2>1. wf' = wf /\ log' = log /\ Running' = Running
    BY <1>6 DEF Drop, Running
  <2>2. wfBar' = wfBar /\ logBar' = logBar
    BY <2>1 DEF wfBar, logBar
  <2> QED BY <1>6, <2>2 DEF Drop, Atomic!Drop, Atomic!OwnerMoves
<1>7. ASSUME NEW to \in Status, Move(w, to) PROVE Atomic!OwnerMoves(w)
  BY <1>3, <1>7, SameHelpers DEF Move, Atomic!Move, Atomic!OwnerMoves
<1> QED BY <1>2, <1>4, <1>5, <1>6, <1>7 DEF OwnerMoves

(* Nobody sees a run begin: the row and the log are the run's until it ends. *)
LEMMA BeginStutters ==
  ASSUME OInv, OInv', NEW w \in Workflows, Begin(w) \/ SubmitAndBegin(w)
  PROVE  UNCHANGED <<registered, wfBar, held, logBar, forced>>
<1> DEFINE row == wf[w]
           l == log[w]
           newRow == wf'[w]
           newLog == log'[w]
<1>1. wf \in [Workflows -> Rows] /\ log \in [Workflows -> Logs]
      /\ wf' \in [Workflows -> Rows] /\ log' \in [Workflows -> Logs]
  BY DEF OInv, OTypeOK
<1>2. run = {} /\ UNCHANGED <<registered, held, forced>>
      /\ \A v \in Workflows : v # w => wf'[v] = wf[v] /\ log'[v] = log[v]
  BY <1>1 DEF Begin, SubmitAndBegin, None
<1>3. PICK kept \in BOOLEAN : run' = {[wf |-> w, row |-> row, log |-> l, kept |-> kept]}
  BY DEF Begin, SubmitAndBegin, Some
<1>4. wfBar = wf /\ logBar = log
  BY <1>1, <1>2, BarIdle
<1>5. wfBar' = [wf' EXCEPT ![w] = row] /\ logBar' = [log' EXCEPT ![w] = l]
  <2> DEFINE c == [wf |-> w, row |-> row, log |-> l, kept |-> kept]
  <2>1. c.wf = w /\ c.row = row /\ c.log = l /\ run' = {c}
    BY <1>3
  <2> HIDE DEF c
  <2>2. wfBar' = [wf' EXCEPT ![c.wf] = c.row] /\ logBar' = [log' EXCEPT ![c.wf] = c.log]
    BY <1>1, <2>1, BarBusyNext
  <2> QED BY <2>1, <2>2
<1>6. [wf' EXCEPT ![w] = row] = wf /\ [log' EXCEPT ![w] = l] = log
  BY <1>1, <1>2
<1> QED BY <1>2, <1>4, <1>5, <1>6

(* Nor does anybody see the agent work. *)
LEMMA WorkStutters ==
  ASSUME OInv, OInv', NEW t, NEW to, MoveTask(t, to)
  PROVE  UNCHANGED <<registered, wfBar, held, logBar, forced>>
BY DEF MoveTask, wfBar, logBar, Running

(* Recording what two steps find is recording it at once. *)
LEMMA RecordedTwice ==
  ASSUME NEW old \in Logs, NEW one, NEW two, one \cap two = {}
  PROVE  Recorded(Recorded(old, one), two) = Recorded(old, one \cup two)
<1>1. \A e \in Entry : old[e] \in Nat
  BY DEF Logs
<1>2. \A e \in Entry : old[e] + (IF e \in one THEN 1 ELSE 0) + (IF e \in two THEN 1 ELSE 0)
                        = old[e] + (IF e \in one \cup two THEN 1 ELSE 0)
  BY <1>1
<1> QED BY <1>2 DEF Recorded

(* The end of a run is the run.                                             *)
LEMMA FinishRefines ==
  ASSUME OInv, OInv', NEW ok \in BOOLEAN, Finish(ok) PROVE Atomic!Next
<1>1. PICK r \in run :
        LET a == AttemptsAfter(r) IN
        /\ wf' = [wf EXCEPT ![r.wf].status = Outcome(a, ok), ![r.wf].attempts = a]
        /\ log' = [log EXCEPT ![r.wf] = Recorded(@, Entries(a, ok) \ {"started"})]
        /\ held' = HeldAfter(r, ok)
  BY DEF Finish
<1> DEFINE w == r.wf
           a == wf[w].attempts
           before == r.row
           old == r.log
           out == Outcome(a, ok)
           x == [before EXCEPT !.status = out, !.attempts = a]
<1>2. /\ wf \in [Workflows -> Rows] /\ log \in [Workflows -> Logs]
      /\ wf' \in [Workflows -> Rows] /\ log' \in [Workflows -> Logs]
      /\ w \in Workflows /\ before \in Rows /\ old \in Logs /\ r.kept \in BOOLEAN
      /\ run = {r} /\ run' = {} /\ UNCHANGED <<registered, forced>>
      /\ wf[w] \in Rows /\ before.attempts \in Nat /\ a \in Nat
  BY DEF OInv, OTypeOK, Calls, Finish, None, Rows
<1>3. /\ wf[w] = Marked(before, r.kept)
      /\ log[w] = Recorded(old, Beginning(r.kept))
      /\ before.kind \in registered
      /\ r.kept => w \in held /\ "running" \in Successors(before.status) /\ before.attempts < AttemptBound
      /\ ~r.kept => before.status = "none"
  BY <1>2 DEF OInv, BorrowedOK
<1>4. a = (IF r.kept THEN before.attempts + 1 ELSE 1) /\ wf[w].kind = before.kind
  <2>1. wf[w].kind = before.kind
    BY <1>2, <1>3 DEF Marked, Rows
  <2> QED BY <1>2, <1>3, <2>1, MarkedRow
<1>5. wfBar = [wf EXCEPT ![w] = before] /\ logBar = [log EXCEPT ![w] = old]
  BY <1>2, BarBusy
<1>6. wfBar' = wf' /\ logBar' = log' /\ wfBar[w] = before /\ logBar[w] = old
  BY <1>2, <1>5, BarIdleNext
<1>7. wfBar' = [wfBar EXCEPT ![w] = x]
  <2>1. wf' = [wf EXCEPT ![w] = [wf[w] EXCEPT !.status = out, !.attempts = a]]
    BY <1>1, <1>2 DEF AttemptsAfter
  <2>2. [wf[w] EXCEPT !.status = out, !.attempts = a] = x
    <3>1. \A q \in Rows : q.kind = before.kind =>
            [q EXCEPT !.status = out, !.attempts = a] = [before EXCEPT !.status = out, !.attempts = a]
      <4> HIDE DEF a, out, before
      <4> QED BY <1>2 DEF Rows
    <3> QED BY <1>2, <1>4, <3>1
  <2> HIDE DEF x
  <2> QED BY <1>2, <1>5, <1>6, <2>1, <2>2
<1>8. logBar' = [logBar EXCEPT ![w] = Recorded(old, Beginning(r.kept) \cup (Entries(a, ok) \ {"started"}))]
  <2>1. log' = [log EXCEPT ![w] = Recorded(log[w], Entries(a, ok) \ {"started"})]
    BY <1>1, <1>2 DEF AttemptsAfter
  <2>2. Beginning(r.kept) \cap (Entries(a, ok) \ {"started"}) = {}
    BY DEF Beginning, Entries
  <2>3. Recorded(log[w], Entries(a, ok) \ {"started"})
          = Recorded(old, Beginning(r.kept) \cup (Entries(a, ok) \ {"started"}))
    BY <1>2, <1>3, <2>2, RecordedTwice
  <2> QED BY <1>2, <1>5, <1>6, <2>1, <2>3
<1>9. "started" \in Entries(a, ok)
  BY DEF Entries
<1>10. held' = IF ok /\ ~r.kept THEN held \cup {w} ELSE held
  BY <1>1 DEF HeldAfter
<1>11. CASE r.kept = TRUE
  <2>1. Beginning(r.kept) \cup (Entries(a, ok) \ {"started"}) = Entries(a, ok)
    BY <1>9, <1>11 DEF Beginning
  <2>2. a = wfBar[w].attempts + 1 /\ held' = held
    BY <1>4, <1>6, <1>10, <1>11
  <2>3. wfBar' = [wfBar EXCEPT ![w].status = out, ![w].attempts = a]
    BY <1>6, <1>7
  <2>4. logBar' = [logBar EXCEPT ![w] = Recorded(@, Entries(a, ok))]
    BY <1>6, <1>8, <2>1
  <2>5. Atomic!Runnable(w)
    BY <1>3, <1>6, <1>11, SameHelpers DEF Atomic!Runnable
  <2>6. Atomic!Run(w, ok)
    BY <1>2, <1>3, <1>11, <2>2, <2>3, <2>4, <2>5, SameHelpers DEF Atomic!Run
  <2> QED BY <1>2, <2>6 DEF Atomic!Next
<1>12. CASE r.kept = FALSE
  <2>1. Beginning(r.kept) \cup (Entries(a, ok) \ {"started"}) = Entries(a, ok) \cup {"created"}
    BY <1>9, <1>12 DEF Beginning
  <2>2. a = 1 /\ held' = IF ok THEN held \cup {w} ELSE held
    BY <1>4, <1>10, <1>12
  <2>3. wfBar' = [wfBar EXCEPT ![w].status = out, ![w].attempts = 1]
    BY <1>6, <1>7, <2>2
  <2>4. logBar' = [logBar EXCEPT ![w] = Recorded(@, Entries(1, ok) \cup {"created"})]
    BY <1>6, <1>8, <2>1, <2>2
  <2>5. Atomic!SubmitAndRun(w, ok)
    BY <1>2, <1>3, <1>6, <1>12, <2>2, <2>3, <2>4, SameHelpers DEF Atomic!SubmitAndRun
  <2> QED BY <1>2, <2>5 DEF Atomic!Next
<1> QED BY <1>2, <1>11, <1>12

(* run_workflow and submit_and_run are one step for everybody outside: with *)
(* the row and the log of a workflow looked at when its run is over, every  *)
(* behaviour of the runs in their steps is one of BusinessOS, whatever the  *)
(* owners of other workflows and the agent do meanwhile.                    *)
THEOREM RunIsOneStep == OSpec => ImplementsAtomicRun
<1>1. OInit => Atomic!Init
  BY RefinementInit
<1>2. OInv /\ OInv' /\ [ONext]_ovars => [Atomic!Next]_<<registered, wfBar, held, logBar, forced>>
  <2> SUFFICES ASSUME OInv, OInv', [ONext]_ovars
               PROVE  [Atomic!Next]_<<registered, wfBar, held, logBar, forced>>
    OBVIOUS
  <2>1. CASE UNCHANGED ovars
    BY <2>1 DEF ovars, wfBar, logBar, Running
  <2> QED BY <2>1, OrchestrateRefines, OwnRefines, BeginStutters, WorkStutters, FinishRefines DEF ONext
<1> QED BY <1>1, <1>2, OInvAlways, PTL DEF OSpec, ImplementsAtomicRun, Atomic!Spec, Atomic!vars

(***************************************************************************)
(* The delays of the retries                                               *)
(***************************************************************************)

(* The library's induction, for the set of the numbers a formula holds of.  *)
LEMMA SetInduction ==
  ASSUME NEW S, 0 \in S, \A n \in Nat : n \in S => n + 1 \in S
  PROVE  Nat \subseteq S
<1> SUFFICES ASSUME Nat \ S # {} PROVE FALSE
  OBVIOUS
<1> DEFINE R == OpToRel(<, Nat)
<1>1. IsWellFoundedOn(R, Nat)
  BY Zenon, NatLessThanWellFounded
<1>2. \A i, j \in Nat : i < j => <<i, j>> \in R
  BY DEF OpToRel
<1> HIDE DEF R
<1>3. PICK n \in Nat \ S : \A m \in Nat \ S : ~ (<<m, n>> \in R)
  BY <1>1, WFMin
<1>4. n # 0 /\ n - 1 \in Nat /\ n - 1 < n /\ n - 1 + 1 = n
  BY <1>3
<1>5. n - 1 \in S
  BY <1>2, <1>3, <1>4
<1> QED BY <1>3, <1>4, <1>5

Powers(f, n) == f \in [0..n -> Nat] /\ f[0] = 1 /\ \A i \in 1..n : f[i] = Multiplier * f[i - 1]

LEMMA PowersExist == \A n \in Nat : \E f : Powers(f, n)
<1> DEFINE S == {n \in Nat : \E f : Powers(f, n)}
<1>1. 0 \in S
  <2>1. Powers([i \in 0..0 |-> 1], 0)
    BY DEF Powers
  <2> QED BY <2>1
<1>2. ASSUME NEW n \in Nat, n \in S PROVE n + 1 \in S
  <2>1. PICK f : Powers(f, n)
    BY <1>2
  <2> DEFINE g == [i \in 0..(n + 1) |-> IF i = n + 1 THEN Multiplier * f[n] ELSE f[i]]
  <2>2. \A i \in 0..n : f[i] \in Nat /\ g[i] = f[i]
    BY <2>1 DEF Powers
  <2>3. Multiplier * f[n] \in Nat
    <3>1. n \in 0..n
      OBVIOUS
    <3>2. f[n] \in Nat
      BY <2>2, <3>1
    <3> QED BY <3>2, BackoffOK
  <2>4. g \in [0..(n + 1) -> Nat]
    <3>1. \A i \in 0..(n + 1) : i = n + 1 \/ i \in 0..n
      OBVIOUS
    <3> QED BY <2>2, <2>3, <3>1
  <2>5. ASSUME NEW i \in 1..(n + 1) PROVE g[i] = Multiplier * g[i - 1]
    BY <2>1, <2>2 DEF Powers
  <2>6. g[0] = 1
    BY <2>1, <2>2 DEF Powers
  <2>7. Powers(g, n + 1)
    BY <2>4, <2>5, <2>6 DEF Powers
  <2> QED BY <2>7
<1> HIDE DEF S
<1>3. Nat \subseteq S
  BY <1>1, <1>2, SetInduction
<1> QED BY <1>3 DEF S

LEMMA PowersUnique ==
  ASSUME NEW m \in Nat, NEW n \in Nat, NEW f, NEW g, Powers(f, m), Powers(g, n)
  PROVE  \A i \in Nat : i <= m /\ i <= n => f[i] = g[i]
<1> DEFINE S == {i \in Nat : i <= m /\ i <= n => f[i] = g[i]}
<1>1. 0 \in S
  BY DEF Powers
<1>2. ASSUME NEW i \in Nat, i \in S PROVE i + 1 \in S
  BY <1>2 DEF Powers
<1> HIDE DEF S
<1>3. Nat \subseteq S
  BY <1>1, <1>2, SetInduction
<1> QED BY <1>3 DEF S

LEMMA PowerIs == Power = [n \in Nat |-> IF n = 0 THEN 1 ELSE Multiplier * Power[n - 1]]
<1> DEFINE F(n) == CHOOSE f : Powers(f, n)
           h == [n \in Nat |-> F(n)[n]]
<1>1. \A n \in Nat : Powers(F(n), n)
  BY PowersExist
<1> HIDE DEF F
<1>2. h[0] = 1
  BY <1>1 DEF Powers
<1>3. ASSUME NEW n \in Nat \ {0} PROVE h[n] = Multiplier * h[n - 1]
  <2>1. n - 1 \in Nat /\ n - 1 <= n /\ n \in 1..n
    OBVIOUS
  <2>2. F(n)[n - 1] = F(n - 1)[n - 1]
    BY <1>1, <2>1, PowersUnique
  <2>3. F(n)[n] = Multiplier * F(n)[n - 1]
    BY <1>1, <2>1 DEF Powers
  <2> QED BY <2>1, <2>2, <2>3
<1>4. h = [n \in Nat |-> IF n = 0 THEN 1 ELSE Multiplier * h[n - 1]]
  BY <1>2, <1>3
<1> HIDE DEF h
<1> QED BY <1>4 DEF Power

LEMMA PowerGrows ==
  /\ \A n \in Nat : Power[n] \in Nat /\ Power[n + 1] = Multiplier * Power[n]
  /\ \A m, n \in Nat : m <= n => Power[m] <= Power[n]
<1>1. Power[0] = 1 /\ \A n \in Nat : Power[n + 1] = Multiplier * Power[n]
  BY PowerIs
<1>2. \A n \in Nat : Power[n] \in Nat
  <2> DEFINE S == {n \in Nat : Power[n] \in Nat}
  <2>1. 0 \in S /\ \A n \in Nat : n \in S => n + 1 \in S
    BY <1>1, BackoffOK
  <2> HIDE DEF S
  <2>2. Nat \subseteq S
    BY <2>1, SetInduction
  <2> QED BY <2>2 DEF S
<1>3. \A p \in Nat : p <= Multiplier * p
  BY BackoffOK
<1>4. ASSUME NEW m \in Nat PROVE \A n \in Nat : m <= n => Power[m] <= Power[n]
  <2> DEFINE S == {n \in Nat : m <= n => Power[m] <= Power[n]}
  <2>1. 0 \in S
    BY <1>2
  <2>2. ASSUME NEW n \in Nat, n \in S PROVE n + 1 \in S
    BY <1>1, <1>2, <1>3, <2>2
  <2> HIDE DEF S
  <2>3. Nat \subseteq S
    BY <2>1, <2>2, SetInduction
  <2> QED BY <2>3 DEF S
<1> QED BY <1>1, <1>2, <1>4

(* Before jitter, a later attempt is told the cap, or at least the multiple *)
(* of what an earlier one is told.                                          *)
LEMMA BackoffGrows ==
  ASSUME NEW m \in Nat, NEW n \in Nat, 1 <= m, m < n
  PROVE  /\ Backoff(m) \in Nat /\ Backoff(n) \in Nat
         /\ Backoff(n) = MaxBackoff \/ Multiplier * Backoff(m) <= Backoff(n)
<1> DEFINE p == Power[m]
           q == Power[n]
           x == BaseBackoff * p
<1>1. p \in Nat /\ q \in Nat /\ Multiplier * p <= q
  <2>1. m + 1 \in Nat /\ m + 1 <= n
    OBVIOUS
  <2>2. Power[m + 1] = Multiplier * p /\ Power[m + 1] <= q
    BY <2>1, PowerGrows
  <2> QED BY <2>2, PowerGrows
<1>2. Backoff(m) = Cap(x) /\ Backoff(n) = Cap(BaseBackoff * q)
  BY DEF Backoff
<1> HIDE DEF p, q
<1>3. x \in Nat /\ BaseBackoff * q \in Nat /\ BaseBackoff * (Multiplier * p) <= BaseBackoff * q
  <2> DEFINE y == Multiplier * p
  <2>1. y \in Nat /\ y <= q
    BY <1>1, BackoffOK
  <2> HIDE DEF y
  <2>2. BaseBackoff * y <= BaseBackoff * q
    BY <1>1, <2>1, BackoffOK
  <2> QED BY <1>1, <2>2, BackoffOK DEF y
<1>4. BaseBackoff * (Multiplier * p) = Multiplier * x
  BY <1>1, BackoffOK
<1> HIDE DEF x
<1>5. Cap(x) \in Nat /\ Cap(x) <= x
  BY <1>3, BackoffOK DEF Cap
<1>6. Multiplier * Cap(x) <= Multiplier * x
  <2> DEFINE z == Cap(x)
  <2> HIDE DEF z
  <2>1. z \in Nat /\ z <= x
    BY <1>5 DEF z
  <2>2. Multiplier * z <= Multiplier * x
    BY <1>3, <2>1, BackoffOK
  <2> QED BY <2>2 DEF z
<1>7. Multiplier * Cap(x) \in Nat /\ Multiplier * x \in Nat
  BY <1>3, <1>5, BackoffOK
<1>8. Cap(BaseBackoff * q) = MaxBackoff \/ Cap(BaseBackoff * q) = BaseBackoff * q
  BY DEF Cap
<1> QED BY <1>2, <1>3, <1>4, <1>5, <1>6, <1>7, <1>8, BackoffOK DEF Cap

(* Jitter and truncation: d is told for the delay b, e for its multiple c.  *)
LEMMA GrowthOutdoesJitter ==
  ASSUME NEW b \in Nat, NEW c \in Nat, Multiplier * b <= c, GrowsPastJitter,
         NEW d \in Int, d <= (b * (100 + JitterPct) - 1) \div 100,
         NEW e \in Int, (c * (100 - JitterPct)) \div 100 <= e
  PROVE  d <= e
<1> DEFINE less == 100 - JitterPct
           more == 100 + JitterPct
           grown == Multiplier * less
<1>1. less \in Nat /\ more \in Nat /\ grown \in Nat /\ more <= grown
  BY BackoffOK DEF GrowsPastJitter
<1>2. b * grown = (Multiplier * b) * less
  <2> HIDE DEF less
  <2> QED BY <1>1, BackoffOK
<1> HIDE DEF less, more, grown
<1>3. b * more <= b * grown
  BY <1>1
<1>4. (Multiplier * b) * less <= c * less
  <2> DEFINE y == Multiplier * b
  <2>1. y \in Nat /\ y <= c
    BY BackoffOK
  <2> HIDE DEF y
  <2>2. y * less <= c * less
    BY <1>1, <2>1
  <2> QED BY <2>2 DEF y
<1>5. b * more \in Nat /\ c * less \in Nat /\ b * more <= c * less
  <2>1. b * grown \in Nat /\ c * less \in Nat /\ b * more \in Nat
    BY <1>1
  <2> QED BY <1>2, <1>3, <1>4, <2>1
<1>6. \A s, t \in Int : s <= t => s \div 100 <= t \div 100
  OBVIOUS
<1>7. (b * more - 1) \div 100 <= (c * less) \div 100
  BY <1>5, <1>6
<1>8. (b * more - 1) \div 100 \in Int /\ (c * less) \div 100 \in Int
  BY <1>5
<1>9. d <= (b * more - 1) \div 100 /\ (c * less) \div 100 <= e
  BY DEF less, more
<1> QED BY <1>7, <1>8, <1>9

LEMMA DelaysAreNatural ==
  ASSUME NEW n \in Nat, 1 <= n PROVE Delays(n) \subseteq Nat
<1> DEFINE b == Backoff(n)
<1>1. b \in Nat
  <2>1. n + 1 \in Nat /\ n < n + 1
    OBVIOUS
  <2> QED BY <2>1, BackoffGrows
<1> HIDE DEF b
<1>2. 100 - JitterPct \in Nat
  BY BackoffOK
<1>3. b * (100 - JitterPct) \in Nat
  BY <1>1, <1>2
<1>4. (b * (100 - JitterPct)) \div 100 \in Nat
  BY <1>3
<1>5. \A i : (b * (100 - JitterPct)) \div 100 .. i \subseteq Nat
  BY <1>4
<1> QED BY <1>1, <1>5 DEF Delays, b

(* What a later failure may be told after an earlier one.                   *)
LEMMA LaterDelay ==
  ASSUME NEW m \in Nat, NEW n \in Nat, 1 <= m, m < n, GrowsPastJitter,
         NEW d \in Delays(m), NEW e \in Delays(n)
  PROVE  \/ e >= d
         \/ Backoff(n) = MaxBackoff /\ e >= (MaxBackoff * (100 - JitterPct)) \div 100
<1> DEFINE b == Backoff(m)
           c == Backoff(n)
<1>1. b \in Nat /\ c \in Nat /\ (c = MaxBackoff \/ Multiplier * b <= c)
  BY BackoffGrows
<1>2. d \in Nat /\ e \in Nat
  <2>1. 1 <= n
    OBVIOUS
  <2> QED BY <2>1, DelaysAreNatural
<1>3. CASE JitterPct = 0
  <2>1. d = b /\ e = c
    BY <1>3 DEF Delays
  <2> HIDE DEF b, c
  <2>2. CASE c = MaxBackoff
    BY <1>1, <1>3, <2>1, <2>2 DEF c
  <2>3. CASE Multiplier * b <= c
    <3>1. b <= Multiplier * b /\ Multiplier * b \in Nat
      BY <1>1, BackoffOK
    <3> QED BY <1>1, <2>1, <2>3, <3>1
  <2> QED BY <1>1, <2>2, <2>3
<1>4. CASE JitterPct # 0
  <2>1. /\ d \in (b * (100 - JitterPct)) \div 100 .. (b * (100 + JitterPct) - 1) \div 100
        /\ e \in (c * (100 - JitterPct)) \div 100 .. (c * (100 + JitterPct) - 1) \div 100
    BY <1>4 DEF Delays
  <2>2. d <= (b * (100 + JitterPct) - 1) \div 100 /\ (c * (100 - JitterPct)) \div 100 <= e
    BY <2>1
  <2>3. CASE c = MaxBackoff
    <3>1. (MaxBackoff * (100 - JitterPct)) \div 100 <= e
      BY <2>2, <2>3
    <3>2. MaxBackoff * (100 - JitterPct) \in Nat
      BY BackoffOK
    <3>3. (MaxBackoff * (100 - JitterPct)) \div 100 \in Nat
      BY <3>2
    <3> QED BY <1>2, <2>3, <3>1, <3>3
  <2>4. CASE Multiplier * b <= c
    <3> HIDE DEF b, c
    <3>1. d <= e
      BY <1>1, <1>2, <2>2, <2>4, GrowthOutdoesJitter
    <3> QED BY <1>2, <3>1
  <2> QED BY <1>1, <2>3, <2>4
<1> QED BY <1>3, <1>4

(* What a workflow was told belongs to an attempt it has made, and that is  *)
(* over.                                                                    *)
Past(w) == IF w \in Running THEN wf[w].attempts - 1 ELSE wf[w].attempts

ToldInv ==
  /\ told \in [Workflows -> Nat]
  /\ \A w \in Workflows : told[w] = 0 \/ \E n \in 1..Past(w) : told[w] \in Delays(n)

(* No operation takes back an attempt. *)
LEMMA AttemptsNeverFall ==
  ASSUME OInv, OInv', [ONext]_ovars, NEW w \in Workflows
  PROVE  wf[w].attempts \in Nat /\ wf'[w].attempts \in Nat /\ wf[w].attempts <= wf'[w].attempts
<1>0. /\ wf \in [Workflows -> Rows] /\ wf' \in [Workflows -> Rows]
      /\ wf[w].attempts \in Nat /\ wf'[w].attempts \in Nat
      /\ wf[w].status = "none" => wf[w].attempts = 0
  BY DEF OInv, OTypeOK, Rows, Accounted
<1>1. CASE UNCHANGED wf
  BY <1>0, <1>1
<1>2. ASSUME NEW v \in Workflows, wf[v].status = "none" PROVE wf[w].attempts <= wf'[w].attempts \/ w # v
  BY <1>0, <1>2
<1>3. ASSUME NEW v \in Workflows, Submit(v) \/ SubmitForNobody(v) PROVE wf[w].attempts <= wf'[w].attempts
  <2>1. wf[v].status = "none" /\ \E x : wf' = [wf EXCEPT ![v] = x]
    BY <1>3 DEF Submit, SubmitForNobody
  <2> QED BY <1>0, <1>2, <2>1
<1>4. ASSUME NEW v \in Workflows, OwnerMoves(v) PROVE wf[w].attempts <= wf'[w].attempts
  BY <1>0, <1>4 DEF OwnerMoves, MarkRunning, MarkCancelled, RetryWorkflow, Drop, Move, Rows
<1>5. ASSUME NEW v \in Workflows, Begin(v) PROVE wf[w].attempts <= wf'[w].attempts
  BY <1>0, <1>5 DEF Begin, Rows
<1>6. ASSUME NEW v \in Workflows, SubmitAndBegin(v) PROVE wf[w].attempts <= wf'[w].attempts
  <2>1. wf[v].status = "none" /\ \E x : wf' = [wf EXCEPT ![v] = x]
    BY <1>6 DEF SubmitAndBegin
  <2> QED BY <1>0, <1>2, <2>1
<1>7. ASSUME NEW ok \in BOOLEAN, Finish(ok) PROVE wf[w].attempts <= wf'[w].attempts
  BY <1>0, <1>7 DEF Finish, AttemptsAfter, Rows
<1>8. CASE Orchestrate
  <2>1. \/ \E v \in Workflows : Submit(v) \/ SubmitForNobody(v)
        \/ UNCHANGED wf
    BY <1>8 DEF Orchestrate, CreateEscalation, RegisterAgent
  <2> QED BY <1>0, <1>1, <1>3, <2>1
<1>9. ASSUME NEW t, NEW to, MoveTask(t, to) PROVE UNCHANGED wf
  BY <1>9 DEF MoveTask
<1> QED BY <1>0, <1>1, <1>4, <1>5, <1>6, <1>7, <1>8, <1>9 DEF ONext, ovars, Own, Unborrowed

(* Nor does one take back an attempt that is over. *)
LEMMA PastNeverFalls ==
  ASSUME OInv, OInv', [ONext]_ovars, NEW w \in Workflows
  PROVE  Past(w) \in Nat /\ Past(w)' \in Nat /\ Past(w) <= Past(w)'
<1>1. wf[w].attempts \in Nat /\ wf'[w].attempts \in Nat /\ wf[w].attempts <= wf'[w].attempts
  BY AttemptsNeverFall
<1>2. w \in Running => wf[w].attempts >= 1
  <2> SUFFICES ASSUME NEW r \in run, w = r.wf PROVE wf[w].attempts >= 1
    BY DEF Running
  <2>1. r.row \in Rows /\ r.kept \in BOOLEAN /\ wf[w] = Marked(r.row, r.kept)
    BY DEF OInv, OTypeOK, BorrowedOK, Calls
  <2>2. r.row.attempts \in Nat
    BY <2>1 DEF Rows
  <2>3. wf[w].attempts = IF r.kept THEN r.row.attempts + 1 ELSE 1
    BY <2>1, MarkedRow
  <2> QED BY <2>2, <2>3
<1>3. Past(w) \in Nat /\ Past(w) <= wf[w].attempts
  BY <1>1, <1>2 DEF Past
<1>4. CASE w \notin Running'
  BY <1>1, <1>3, <1>4 DEF Past
<1>5. CASE w \in Running' /\ w \in Running
  BY <1>1, <1>2, <1>5 DEF Past
<1>6. CASE w \in Running' /\ w \notin Running
  <2>1. Begin(w) \/ SubmitAndBegin(w)
    <3>1. run' # run
      BY <1>6 DEF Running
    <3>2. run' # {}
      BY <1>6 DEF Running
    <3>3. PICK v \in Workflows : Begin(v) \/ SubmitAndBegin(v)
      <4>1. Orchestrate \/ Own \/ UNCHANGED ovars => run' = run
        BY DEF Orchestrate, Own, ovars
      <4>2. \A t \in Tasks, to \in TaskStatus : MoveTask(t, to) => run' = run
        BY DEF MoveTask
      <4>3. \A ok \in BOOLEAN : Finish(ok) => run' = {}
        BY DEF Finish, None
      <4> QED BY <3>1, <3>2, <4>1, <4>2, <4>3 DEF ONext
    <3>4. Running' = {v}
      <4>1. PICK kept \in BOOLEAN : run' = {[wf |-> v, row |-> wf[v], log |-> log[v], kept |-> kept]}
        BY <3>3 DEF Begin, SubmitAndBegin, Some
      <4> DEFINE c == [wf |-> v, row |-> wf[v], log |-> log[v], kept |-> kept]
      <4>2. c.wf = v /\ run' = {c}
        BY <4>1
      <4> HIDE DEF c
      <4> QED BY <4>2 DEF Running
    <3> QED BY <1>6, <3>3, <3>4
  <2>2. wf \in [Workflows -> Rows] /\ Accounted(w)
    BY DEF OInv, OTypeOK
  <2>3. wf[w].attempts + 1 <= wf'[w].attempts
    <3>1. CASE Begin(w)
      BY <1>1, <2>2, <3>1 DEF Begin, Rows
    <3>2. CASE SubmitAndBegin(w)
      BY <1>1, <2>2, <3>2 DEF SubmitAndBegin, Accounted, Rows
    <3> QED BY <2>1, <3>1, <3>2
  <2> QED BY <1>1, <1>6, <2>3 DEF Past
<1> QED BY <1>4, <1>5, <1>6

(* Only the end of a run that failed tells a delay. *)
LEMMA TellsOrNot ==
  ASSUME OInv, OInv', [ONext]_ovars, ToldInv, told' # told
  PROVE  \E w \in Workflows : \E d \in Delays(wf[w].attempts) :
           /\ wf[w].attempts >= 1 /\ wf'[w].attempts = wf[w].attempts
           /\ w \in Running /\ w \notin Running'
           /\ told' = [told EXCEPT ![w] = d]
<1>1. PICK ok \in BOOLEAN : Finish(ok)
  BY DEF ONext, ovars, Orchestrate, Own, Begin, SubmitAndBegin, MoveTask
<1>2. PICK r \in run : \E d \in Delays(wf[r.wf].attempts) :
        /\ wf' = [wf EXCEPT ![r.wf].status = Outcome(wf[r.wf].attempts, ok),
                            ![r.wf].attempts = wf[r.wf].attempts]
        /\ told' = [told EXCEPT ![r.wf] = d]
  BY <1>1 DEF Finish, AttemptsAfter
<1>3. r.wf \in Workflows /\ wf \in [Workflows -> Rows] /\ r.row \in Rows /\ r.kept \in BOOLEAN
      /\ wf[r.wf] = Marked(r.row, r.kept)
  BY DEF OInv, OTypeOK, BorrowedOK, Calls
<1>4. wf[r.wf].attempts >= 1
  <2>1. wf[r.wf].attempts = IF r.kept THEN r.row.attempts + 1 ELSE 1
    BY <1>3, MarkedRow
  <2> QED BY <1>3, <2>1 DEF Rows
<1>5. wf'[r.wf].attempts = wf[r.wf].attempts
  BY <1>2, <1>3 DEF Rows
<1>6. r.wf \in Running /\ r.wf \notin Running'
  BY <1>1 DEF Finish, Running, None
<1> QED BY <1>2, <1>3, <1>4, <1>5, <1>6

LEMMA ToldInvInit == OInit => ToldInv
  BY DEF OInit, ToldInv

LEMMA ToldInvStep == OInv /\ OInv' /\ ToldInv /\ [ONext]_ovars => ToldInv'
<1> SUFFICES ASSUME OInv, OInv', ToldInv, [ONext]_ovars PROVE ToldInv'
  OBVIOUS
<1>1. ASSUME NEW w \in Workflows, told'[w] = told[w]
      PROVE  told'[w] = 0 \/ \E n \in 1..Past(w)' : told'[w] \in Delays(n)
  <2>1. \A n \in 1..Past(w) : n \in 1..Past(w)'
    BY PastNeverFalls
  <2> QED BY <1>1, <2>1 DEF ToldInv
<1>2. CASE told' = told
  BY <1>1, <1>2 DEF ToldInv, Delays, Backoff
<1>3. CASE told' # told
  <2>1. PICK w \in Workflows : \E d \in Delays(wf[w].attempts) :
           /\ wf[w].attempts >= 1 /\ wf'[w].attempts = wf[w].attempts
           /\ w \in Running /\ w \notin Running'
           /\ told' = [told EXCEPT ![w] = d]
    BY <1>3, TellsOrNot
  <2>2. wf[w].attempts \in Nat
    BY AttemptsNeverFall
  <2>3. told' \in [Workflows -> Nat]
    BY <2>1, <2>2, DelaysAreNatural DEF ToldInv
  <2>4. \E n \in 1..Past(w)' : told'[w] \in Delays(n)
    <3>1. Past(w)' = wf[w].attempts
      BY <2>1 DEF Past
    <3>2. wf[w].attempts \in 1..Past(w)' /\ told'[w] \in Delays(wf[w].attempts)
      BY <2>1, <2>2, <3>1 DEF ToldInv
    <3> QED BY <3>2
  <2>5. \A v \in Workflows : v # w => told'[v] = told[v]
    BY <2>1 DEF ToldInv
  <2>6. ASSUME NEW v \in Workflows
        PROVE  told'[v] = 0 \/ \E n \in 1..Past(v)' : told'[v] \in Delays(n)
    BY <1>1, <2>4, <2>5
  <2> QED BY <2>3, <2>6 DEF ToldInv, Delays, Backoff
<1> QED BY <1>2, <1>3

(* compute_backoff over the failures of a workflow, for any base, cap,      *)
(* multiplier and jitter: where the multiplier outdoes the jitter, a later  *)
(* failure is told no shorter a delay than an earlier one, but for a delay  *)
(* at the cap, which jitter shortens by its percentage at most.             *)
THEOREM LaterFailuresWaitLonger == OSpec => BackoffNeverShortens
<1> DEFINE Longer(w) ==
             told'[w] # told[w] =>
               \/ told'[w] >= told[w]
               \/ /\ Backoff(wf'[w].attempts) = MaxBackoff
                  /\ told'[w] >= (MaxBackoff * (100 - JitterPct)) \div 100
           Step == GrowsPastJitter => \A w \in Workflows : Longer(w)
<1>1. OInv /\ OInv' /\ ToldInv /\ ToldInv' /\ [ONext]_ovars => Step
  <2> SUFFICES ASSUME OInv, OInv', ToldInv, ToldInv', [ONext]_ovars, GrowsPastJitter,
                      NEW w \in Workflows, told'[w] # told[w]
               PROVE  Longer(w)
    OBVIOUS
  <2>1. told[w] \in Nat /\ told'[w] \in Nat
    BY DEF ToldInv
  <2>2. CASE told[w] = 0
    BY <2>1, <2>2
  <2>3. CASE told[w] # 0
    <3>1. PICK v \in Workflows : \E d \in Delays(wf[v].attempts) :
             /\ wf[v].attempts >= 1 /\ wf'[v].attempts = wf[v].attempts
             /\ v \in Running /\ v \notin Running'
             /\ told' = [told EXCEPT ![v] = d]
      BY TellsOrNot
    <3>2. /\ v = w /\ w \in Running /\ told'[w] \in Delays(wf[w].attempts)
          /\ wf'[w].attempts = wf[w].attempts
      BY <3>1 DEF ToldInv
    <3>3. wf[w].attempts \in Nat /\ Past(w) = wf[w].attempts - 1
      BY <3>2, AttemptsNeverFall DEF Past
    <3>4. PICK m \in 1..Past(w) : told[w] \in Delays(m)
      BY <2>3 DEF ToldInv
    <3>5. m \in Nat /\ 1 <= m /\ m < wf[w].attempts
      BY <3>3, <3>4
    <3>6. \/ told'[w] >= told[w]
          \/ /\ Backoff(wf[w].attempts) = MaxBackoff
             /\ told'[w] >= (MaxBackoff * (100 - JitterPct)) \div 100
      BY <3>2, <3>3, <3>4, <3>5, LaterDelay
    <3> QED BY <3>2, <3>6
  <2> QED BY <2>2, <2>3
<1>2. OSpec => []ToldInv
  BY ToldInvInit, ToldInvStep, OInvAlways, PTL DEF OSpec
<1> QED BY <1>1, <1>2, OInvAlways, PTL DEF OSpec, BackoffNeverShortens
=============================================================================
