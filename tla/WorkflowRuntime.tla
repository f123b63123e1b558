-------------------------- MODULE WorkflowRuntime --------------------------
(***************************************************************************)
(* The durable workflow runtime of the Python application: the rows of the *)
(* table `workflows`, and the processes that create them and run them.     *)
(*                                                                         *)
(* Several actors work on the table at once, each in a database session of *)
(* its own: the APScheduler job of the API process and the worker process  *)
(* (both loop over process_pending_workflows), the API requests that       *)
(* create a workflow and run it in the same request, and the requests that *)
(* only create one.  A session is opened with expire_on_commit=False: what *)
(* it has loaded it never reads again, and a commit writes the columns the *)
(* session has changed with the values the session computed.               *)
(*                                                                         *)
(* One action is the code up to and including its next commit, since that  *)
(* is where other sessions see it and what a crash leaves behind.          *)
(***************************************************************************)
EXTENDS Integers, FiniteSets

CONSTANTS
  NumWorkflows,  \* how many rows may be created; row n is the n-th by created_at
  Unsupported,   \* the rows whose kind no agent serves (the UiPath webhook takes any kind)
  Monitored,     \* the rows of kind delivery_monitoring
  Pollers,       \* the scheduler job, the worker
  Handlers,      \* requests that create a workflow and run it at once
  Submitters,    \* requests that only create one (calendar, run_immediately=false)
  NoWorkflow,    \* no row
  MaxAttempts,   \* Workflow.max_attempts
  BatchLimit,    \* LIMIT of the scheduler's query
  CrashBudget    \* bound: how many sessions may be lost half-way

Workflows == 1..NumWorkflows
Runners   == Pollers \cup Handlers
Actors    == Runners \cup Submitters

ASSUME ConstantsOK ==
  /\ NumWorkflows \in Nat
  /\ Unsupported \subseteq Workflows
  /\ Monitored \subseteq Workflows \ Unsupported
  /\ NoWorkflow \notin Workflows
  /\ Submitters \cap Runners = {}
  /\ Pollers \cap Handlers = {}
  /\ MaxAttempts \in Nat \ {0}
  /\ BatchLimit \in Nat \ {0}
  /\ CrashBudget \in Nat

VARIABLES
  created,      \* how many rows have been inserted
  row,          \* the committed columns status and attempts of each row
  escalations,  \* how many Escalation rows say of each workflow that it was given up
  risks,        \* how many Escalation rows say that its delivery is at risk
  approvals,    \* the workflows that have a HumanApproval row
  audit,        \* how many audit entries of each kind each workflow has
  pc,           \* what each actor does next
  batch,        \* the workflows of its list a session has still to run
  cur,          \* the workflow a session is running
  copy,         \* the columns as the session has them
  crashes,      \* how many sessions were lost half-way
  runs          \* history: how many times a run of each workflow was begun

table   == <<created, row, escalations, risks, approvals, audit>>
session == <<pc, batch, cur, copy>>
vars    == <<created, row, escalations, risks, approvals, audit, pc, batch, cur, copy, crashes, runs>>

(***************************************************************************)
(* Types                                                                   *)
(***************************************************************************)
Status    == {"absent", "pending", "running", "waiting_for_human", "completed", "failed"}
Row       == [status : Status, attempts : Nat]
NoRow     == [status |-> "absent", attempts |-> 0]
NewRow    == [status |-> "pending", attempts |-> 0]
AuditKind == {"created", "started", "completed", "failed", "escalation"}

(* A label names the commit that comes next. *)
Label == {"idle",        \* no session
          "created",     \* audit: workflow_created
          "loop",        \* next workflow of the batch, or close the session
          "started",     \* audit: workflow_started
          "agent",       \* agent.run
          "asking",      \* ApprovalService.request
          "parked",      \* the rest of agent.run
          "alerted",     \* audit: escalation_created, of risks the agent has found
          "reporting",   \* agent.run has nothing left but to return
          "completed",   \* audit: workflow_completed
          "retrying",    \* audit: workflow_failed, will retry
          "failed",      \* audit: workflow_failed
          "escalating",  \* EscalationService.create
          "escalated"}   \* audit: escalation_created

TypeOK ==
  /\ created \in 0..NumWorkflows
  /\ row \in [Workflows -> Row]
  /\ escalations \in [Workflows -> Nat] /\ risks \in [Workflows -> Nat]
  /\ approvals \subseteq Workflows
  /\ audit \in [Workflows -> [AuditKind -> Nat]]
  /\ pc \in [Actors -> Label]
  /\ batch \in [Actors -> SUBSET Workflows]
  /\ cur \in [Actors -> Workflows \cup {NoWorkflow}]
  /\ copy \in [Actors -> [Workflows -> Row]]
  /\ crashes \in 0..CrashBudget
  /\ runs \in [Workflows -> Nat]

Init ==
  /\ created = 0
  /\ row = [w \in Workflows |-> NoRow]
  /\ escalations = [w \in Workflows |-> 0] /\ risks = [w \in Workflows |-> 0]
  /\ approvals = {}
  /\ audit = [w \in Workflows |-> [k \in AuditKind |-> 0]]
  /\ pc = [a \in Actors |-> "idle"]
  /\ batch = [a \in Actors |-> {}]
  /\ cur = [a \in Actors |-> NoWorkflow]
  /\ copy = [a \in Actors |-> [w \in Workflows |-> NoRow]]
  /\ crashes = 0
  /\ runs = [w \in Workflows |-> 0]

(***************************************************************************)
(* Helpers                                                                 *)
(***************************************************************************)
Goto(a, from, to) == pc[a] = from /\ pc' = [pc EXCEPT ![a] = to]

(* AuditService.record: one entry, one commit. *)
Record(w, kind) == audit' = [audit EXCEPT ![w][kind] = @ + 1]

(* The session sets the status and commits: an UPDATE of that column alone. *)
SetStatus(r, w, s) ==
  /\ row' = [row EXCEPT ![w].status = s]
  /\ copy' = [copy EXCEPT ![r][w].status = s]

(* The run of the current workflow is over: back to the loop. *)
Leave(r) == cur' = [cur EXCEPT ![r] = NoWorkflow]

(* Bugs this query and this arithmetic could have; the runs must find them. *)
PendingOrFailed == {w \in Workflows : row[w].status \in {"pending", "failed"}}
AttemptCountsDown(r, w) == copy[r][w].attempts - 1
AttemptNotCounted(r, w) == copy[r][w].attempts
ExhaustedTooSoon(r) == copy[r][cur[r]].attempts + 1 >= MaxAttempts

Pending == {w \in Workflows : row[w].status = "pending"}

(* ORDER BY created_at LIMIT BatchLimit *)
OldestPending ==
  {w \in Pending : Cardinality({v \in Pending : v < w}) < BatchLimit}

IsNext(r, w) == w \in batch[r] /\ \A v \in batch[r] : w <= v

(* workflow.attempts += 1, as the session computes it *)
AttemptOf(r, w) == copy[r][w].attempts + 1

Exhausted(r) == copy[r][cur[r]].attempts >= MaxAttempts

(* Bugs the steps below could have: an escalation, an approval, an audit   *)
(* entry or the reset to pending forgotten.                                *)
AuditFailedNoEscalation(r) ==
  /\ Goto(r, "failed", "loop") /\ Record(cur[r], "failed") /\ Leave(r)
  /\ UNCHANGED <<created, row, escalations, risks, approvals, batch, copy, crashes, runs>>

AskNobody(r) == Goto(r, "asking", "parked") /\ UNCHANGED <<table, batch, cur, copy, crashes, runs>>

StartedNotAudited(r) ==
  Goto(r, "started", "agent") /\ UNCHANGED <<table, batch, cur, copy, crashes, runs>>

RetryStaysRunning(r) ==
  /\ pc[r] \in {"agent", "parked"} /\ ~Exhausted(r)
  /\ pc' = [pc EXCEPT ![r] = "retrying"]
  /\ UNCHANGED <<table, batch, cur, copy, crashes, runs>>

(***************************************************************************)
(* Creating                                                                *)
(***************************************************************************)

(* WorkflowService.create: the row, then its audit entry. *)
Create(a) ==
  /\ a \in Handlers \cup Submitters
  /\ created < NumWorkflows
  /\ Goto(a, "idle", "created")
  /\ created' = created + 1
  /\ row' = [row EXCEPT ![created + 1] = NewRow]
  /\ copy' = [copy EXCEPT ![a][created + 1] = NewRow]
  /\ cur' = [cur EXCEPT ![a] = created + 1]
  /\ UNCHANGED <<escalations, risks, approvals, audit, batch, crashes, runs>>

(* A handler goes on to run what it created; a submitter answers. *)
AuditCreated(a) ==
  /\ Goto(a, "created", "loop")
  /\ Record(cur[a], "created")
  /\ Leave(a)
  /\ batch' = [batch EXCEPT ![a] = IF a \in Handlers THEN {cur[a]} ELSE {}]
  /\ UNCHANGED <<created, row, escalations, risks, approvals, copy, crashes, runs>>

(***************************************************************************)
(* Running                                                                 *)
(***************************************************************************)

(* process_pending_workflows opens a session and loads its batch. *)
Poll(p) ==
  /\ p \in Pollers
  /\ Goto(p, "idle", "loop")
  /\ batch' = [batch EXCEPT ![p] = OldestPending]
  /\ copy' = [copy EXCEPT ![p] = [w \in Workflows |-> IF w \in OldestPending THEN row[w] ELSE NoRow]]
  /\ UNCHANGED <<table, cur, crashes, runs>>

(* run_workflow of a kind without an agent raises before it writes anything. *)
RefuseKind(r, w) ==
  /\ pc[r] = "loop" /\ IsNext(r, w) /\ w \in Unsupported
  /\ batch' = [batch EXCEPT ![r] = @ \ {w}]
  /\ UNCHANGED <<table, pc, cur, copy, crashes, runs>>

(* WorkflowService.mark_running, from the session's own copy of the row. *)
MarkRunning(r, w) ==
  LET n == [status |-> "running", attempts |-> AttemptOf(r, w)] IN
  /\ IsNext(r, w) /\ w \notin Unsupported
  /\ Goto(r, "loop", "started")
  /\ batch' = [batch EXCEPT ![r] = @ \ {w}]
  /\ cur' = [cur EXCEPT ![r] = w]
  /\ row' = [row EXCEPT ![w] = n]
  /\ copy' = [copy EXCEPT ![r][w] = n]
  /\ runs' = [runs EXCEPT ![w] = @ + 1]
  /\ UNCHANGED <<created, escalations, risks, approvals, audit, crashes>>

AuditStarted(r) ==
  /\ Goto(r, "started", "agent")
  /\ Record(cur[r], "started")
  /\ UNCHANGED <<created, row, escalations, risks, approvals, batch, cur, copy, crashes, runs>>

(* agent.run parks the workflow: the status first, the approval after it.  *)
(* DeliveryMonitoringAgent asks for no approval.                           *)
Park(r) ==
  /\ Goto(r, "agent", "asking")
  /\ cur[r] \notin Monitored
  /\ SetStatus(r, cur[r], "waiting_for_human")
  /\ UNCHANGED <<created, escalations, risks, approvals, audit, batch, cur, crashes, runs>>

AskApproval(r) ==
  /\ Goto(r, "asking", "parked")
  /\ approvals' = approvals \cup {cur[r]}
  /\ UNCHANGED <<created, row, escalations, risks, audit, batch, cur, copy, crashes, runs>>

(* Bug: the risks are escalated past EscalationService, which would have    *)
(* recorded it.                                                            *)
AlertUnaudited(r) ==
  /\ Goto(r, "agent", "reporting")
  /\ cur[r] \in Monitored
  /\ risks' = [risks EXCEPT ![cur[r]] = @ + 1]
  /\ UNCHANGED <<created, row, escalations, approvals, audit, batch, cur, copy, crashes, runs>>

(* DeliveryMonitoringAgent.run has found risks: EscalationService.create,  *)
(* after which it only returns.                                            *)
AlertRisks(r) ==
  /\ Goto(r, "agent", "alerted")
  /\ cur[r] \in Monitored
  /\ risks' = [risks EXCEPT ![cur[r]] = @ + 1]
  /\ UNCHANGED <<created, row, escalations, approvals, audit, batch, cur, copy, crashes, runs>>

AuditRisks(r) ==
  /\ Goto(r, "alerted", "reporting")
  /\ Record(cur[r], "escalation")
  /\ UNCHANGED <<created, row, escalations, risks, approvals, batch, cur, copy, crashes, runs>>

(* agent.run returns and the session's copy is not waiting: mark_completed. *)
MarkCompleted(r) ==
  /\ pc[r] \in {"agent", "reporting"}
  /\ pc' = [pc EXCEPT ![r] = "completed"]
  /\ SetStatus(r, cur[r], "completed")
  /\ UNCHANGED <<created, escalations, risks, approvals, audit, batch, cur, crashes, runs>>

AuditCompleted(r) ==
  /\ Goto(r, "completed", "loop")
  /\ Record(cur[r], "completed")
  /\ Leave(r)
  /\ UNCHANGED <<created, row, escalations, risks, approvals, batch, copy, crashes, runs>>

(* agent.run returns with the workflow parked: only the result is written. *)
ReturnParked(r) ==
  /\ Goto(r, "parked", "loop")
  /\ Leave(r)
  /\ UNCHANGED <<table, batch, copy, crashes, runs>>

(* agent.run raises and attempts are left: the row is pending again. *)
Retry(r) ==
  /\ pc[r] \in {"agent", "parked"}
  /\ ~Exhausted(r)
  /\ pc' = [pc EXCEPT ![r] = "retrying"]
  /\ SetStatus(r, cur[r], "pending")
  /\ UNCHANGED <<created, escalations, risks, approvals, audit, batch, cur, crashes, runs>>

AuditRetry(r) ==
  /\ Goto(r, "retrying", "loop")
  /\ Record(cur[r], "failed")
  /\ Leave(r)
  /\ UNCHANGED <<created, row, escalations, risks, approvals, batch, copy, crashes, runs>>

(* agent.run raises on the last attempt: mark_failed, then the escalation. *)
MarkFailed(r) ==
  /\ pc[r] \in {"agent", "parked"}
  /\ Exhausted(r)
  /\ pc' = [pc EXCEPT ![r] = "failed"]
  /\ SetStatus(r, cur[r], "failed")
  /\ UNCHANGED <<created, escalations, risks, approvals, audit, batch, cur, crashes, runs>>

AuditFailed(r) ==
  /\ Goto(r, "failed", "escalating")
  /\ Record(cur[r], "failed")
  /\ UNCHANGED <<created, row, escalations, risks, approvals, batch, cur, copy, crashes, runs>>

Escalate(r) ==
  /\ Goto(r, "escalating", "escalated")
  /\ escalations' = [escalations EXCEPT ![cur[r]] = @ + 1]
  /\ UNCHANGED <<created, row, risks, approvals, audit, batch, cur, copy, crashes, runs>>

AuditEscalation(r) ==
  /\ Goto(r, "escalated", "loop")
  /\ Record(cur[r], "escalation")
  /\ Leave(r)
  /\ UNCHANGED <<created, row, escalations, risks, approvals, batch, copy, crashes, runs>>

(* The batch is empty: the session is closed and its copies are gone. *)
CloseSession(a) ==
  /\ Goto(a, "loop", "idle")
  /\ batch[a] = {}
  /\ copy' = [copy EXCEPT ![a] = [w \in Workflows |-> NoRow]]
  /\ UNCHANGED <<table, batch, cur, crashes, runs>>

(***************************************************************************)
(* The process dies, or a commit raises.  A flush that fails leaves the    *)
(* session waiting for a rollback no code performs, so that everything the *)
(* session still does raises too: in both cases what was committed stays   *)
(* and the rest of the batch is abandoned.                                 *)
(***************************************************************************)
Crash(a) ==
  /\ pc[a] # "idle"
  /\ crashes < CrashBudget
  /\ crashes' = crashes + 1
  /\ pc' = [pc EXCEPT ![a] = "idle"]
  /\ batch' = [batch EXCEPT ![a] = {}]
  /\ cur' = [cur EXCEPT ![a] = NoWorkflow]
  /\ copy' = [copy EXCEPT ![a] = [w \in Workflows |-> NoRow]]
  /\ UNCHANGED <<table, runs>>

RunStep(r) ==
  \/ \E w \in Workflows : RefuseKind(r, w) \/ MarkRunning(r, w)
  \/ AuditStarted(r) \/ Park(r) \/ AskApproval(r)
  \/ AlertRisks(r) \/ AuditRisks(r)
  \/ MarkCompleted(r) \/ AuditCompleted(r) \/ ReturnParked(r)
  \/ Retry(r) \/ AuditRetry(r)
  \/ MarkFailed(r) \/ AuditFailed(r) \/ Escalate(r) \/ AuditEscalation(r)

Step(a) == Poll(a) \/ AuditCreated(a) \/ RunStep(a) \/ CloseSession(a)

Next == \E a \in Actors : Step(a) \/ Create(a) \/ Crash(a)

Spec == Init /\ [][Next]_vars

(* The interval jobs fire for ever and a session that is open goes on;     *)
(* nobody has to send a request, and nothing has to crash.                 *)
Fairness == \A a \in Actors : WF_vars(Step(a))

FairSpec == Spec /\ Fairness

(***************************************************************************)
(* Properties                                                              *)
(***************************************************************************)

(* runner r has workflow w in hand *)
Runs(r, w) == cur[r] = w /\ pc[r] \notin {"idle", "created", "loop"}

(* Nobody gives up early, whatever runs beside it and whatever crashes: a  *)
(* row is failed, and an operator is told that it failed after retries,    *)
(* only after MaxAttempts runs of that workflow have begun.  (Of risks to  *)
(* a delivery an operator may be told in any run.)                         *)
GivesUpOnlyWhenExhausted ==
  \A w \in Workflows :
    row[w].status = "failed" \/ escalations[w] > 0 => runs[w] >= MaxAttempts

(* While no session is lost, a failed workflow has its escalation, or the  *)
(* runner that failed it is on its way to create it.                       *)
FailedIsEscalated ==
  crashes = 0 =>
    \A w \in Workflows :
      row[w].status = "failed" =>
        \/ escalations[w] > 0
        \/ \E r \in Runners : cur[r] = w /\ pc[r] \in {"failed", "escalating"}

(* While no session is lost, a workflow that waits for a human has an      *)
(* approval for that human to find, or the agent is about to request it.   *)
WaitingHasApproval ==
  crashes = 0 =>
    \A w \in Workflows :
      row[w].status = "waiting_for_human" =>
        \/ w \in approvals
        \/ \E r \in Runners : cur[r] = w /\ pc[r] = "asking"

(* While no session is lost, the audit log accounts for every run: each is *)
(* recorded as started, then as completed, failed or parked, except those  *)
(* whose entry is the next thing their runner commits; and every           *)
(* escalation, of a failure or of risks, has its entry, or is about to.    *)
AuditAccountsForRuns ==
  crashes = 0 =>
    \A w \in Workflows :
      LET at(labels) == Cardinality({r \in Runners : cur[r] = w /\ pc[r] \in labels})
      IN  /\ audit[w]["started"] + at({"started"}) = runs[w]
          /\ audit[w]["completed"] + audit[w]["failed"]
               + at(Label \ {"idle", "created", "loop", "escalating", "escalated"}) <= runs[w]
          /\ audit[w]["escalation"] + at({"escalated", "alerted"}) = escalations[w] + risks[w]

(* With one runner the column attempts counts the runs, and a workflow is  *)
(* run at most MaxAttempts times (README: "Up to 3 attempts").             *)
AttemptsCountRuns ==
  \A w \in Workflows : row[w].attempts = runs[w] /\ runs[w] <= MaxAttempts

(* A workflow is run at most MaxAttempts times. *)
AtMostMaxAttempts == \A w \in Workflows : runs[w] <= MaxAttempts

(* One runner implements the life cycle the README draws: every commit of  *)
(* it is a step of that state machine or leaves the status, the attempts   *)
(* and what operators were told alone, lost sessions included.             *)
StatusOf   == [w \in Workflows |-> row[w].status]
AttemptsOf == [w \in Workflows |-> row[w].attempts]

Lifecycle == INSTANCE WorkflowLifecycle WITH
  Items <- Workflows, status <- StatusOf, attempts <- AttemptsOf, alerts <- escalations,
  warnings <- risks

ImplementsLifecycle == Lifecycle!Spec

(* Unless a session is lost, every workflow that has an agent comes to     *)
(* rest for good, however many runners share it: completed, failed with    *)
(* its escalation, or waiting for a human with the approval requested.     *)
AtRest(w) ==
  /\ \A r \in Runners : ~Runs(r, w) /\ w \notin batch[r]
  /\ \/ row[w].status = "completed"
     \/ row[w].status = "failed" /\ escalations[w] > 0
     \/ row[w].status = "waiting_for_human" /\ w \in approvals

ComesToRest ==
  [](crashes = 0) =>
    \A w \in Workflows \ Unsupported : row[w].status = "pending" ~> [](AtRest(w))

(* A workflow once created leaves "running" again, restarts included       *)
(* (README: "Every workflow is durable (survives restarts)").              *)
SurvivesRestarts ==
  \A w \in Workflows : row[w].status = "running" ~> row[w].status # "running"
=============================================================================
