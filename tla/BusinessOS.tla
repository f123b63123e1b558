----------------------------- MODULE BusinessOS -----------------------------
(***************************************************************************)
(* The workflows of the Rust crate: the façade (rust/src/pipeline.rs), the *)
(* orchestrator and the workflow state machine, with a run of a workflow   *)
(* as one step.  Everything lives in memory behind `&mut self`; what is    *)
(* hard is the protocol: a workflow is a value its caller owns, and        *)
(* callers may call in any order.  Orchestration splits a run into its     *)
(* steps, and implements this module.                                      *)
(***************************************************************************)
EXTENDS CoreTypes, FiniteSets

CONSTANTS
  Workflows,     \* the ids there may be
  Kinds,         \* WorkflowKind
  MaxRetries,    \* OrchestratorConfig.max_retries
  AttemptBound,  \* bound: a workflow that waits for a human may run again for
                 \* ever; no workflow is run more often than this
  ForceBudget    \* bound: how often an owner takes a workflow that has no attempt
                 \* left back to pending

ASSUME ConstantsOK == MaxRetries \in Nat /\ AttemptBound \in Nat /\ ForceBudget \in Nat

MaxAttempts == MaxRetries + 1

VARIABLES
  registered, \* the kinds with an agent in the registry
  wf,         \* the workflows: kind, status, attempts
  held,       \* the workflows whose value some caller still owns
  log,        \* the orchestrator's audit log: entries per workflow and action
  forced      \* history: how often each workflow was taken back to pending
              \* without an attempt left

vars == <<registered, wf, held, log, forced>>

Status == WorkflowStatus \cup {"none"}

(* Escalations that run_workflow creates, and those that callers raise with *)
(* create_escalation, are counted apart; the log has one action for both.   *)
Entry  == {"created", "started", "completed", "failed", "escalated", "raised"}

NotThere(kind) == [NewWorkflow(kind) EXCEPT !.status = "none"]

Init ==
  /\ registered = {}
  /\ wf \in [Workflows -> {NotThere(k) : k \in Kinds}]
  /\ held = {}
  /\ log = [w \in Workflows |-> [e \in Entry |-> 0]]
  /\ forced = [w \in Workflows |-> 0]

(***************************************************************************)
(* The workflow state machine (state_machine.rs)                           *)
(***************************************************************************)

(* can_transition *)
Successors(s) ==
  CASE s = "pending"           -> {"running"}
    [] s = "running"           -> {"completed", "failed", "waiting_for_human"}
    [] s = "waiting_for_human" -> {"running", "completed", "failed"}
    [] s = "failed"            -> {"pending"}
    [] OTHER                   -> {}

(* Bugs: a retry that counts itself, a cancellation that does not look.     *)
RetryOneMore(a) == a < MaxAttempts + 1
CancelAnything(s) == s # "none"

(* retry and should_retry agree on when an attempt is left. *)
AttemptsLeft(a) == a < MaxAttempts

Cancellable(s) == s \notin {"none", "completed", "cancelled"}

(* transition, which is public, and mark_completed, mark_failed and         *)
(* mark_waiting_for_human, which call it; only the owner of the value can.  *)
(* It counts no attempt of what it moves to running, and asks for none left *)
(* of what it moves to pending.                                             *)
Move(w, to) ==
  LET forces == to = "pending" /\ ~AttemptsLeft(wf[w].attempts) IN
  /\ w \in held
  /\ to \in Successors(wf[w].status)
  /\ forces => forced[w] < ForceBudget
  /\ wf' = [wf EXCEPT ![w].status = to]
  /\ forced' = IF forces THEN [forced EXCEPT ![w] = @ + 1] ELSE forced
  /\ UNCHANGED <<registered, held, log>>

MarkRunning(w) ==
  /\ w \in held
  /\ "running" \in Successors(wf[w].status)
  /\ wf[w].attempts < AttemptBound
  /\ wf' = [wf EXCEPT ![w].status = "running", ![w].attempts = @ + 1]
  /\ UNCHANGED <<registered, held, log, forced>>

MarkCancelled(w) ==
  /\ w \in held
  /\ Cancellable(wf[w].status)
  /\ wf' = [wf EXCEPT ![w].status = "cancelled"]
  /\ UNCHANGED <<registered, held, log, forced>>

RetryWorkflow(w) ==
  /\ w \in held
  /\ AttemptsLeft(wf[w].attempts) /\ "pending" \in Successors(wf[w].status)
  /\ wf' = [wf EXCEPT ![w].status = "pending"]
  /\ UNCHANGED <<registered, held, log, forced>>

(* The caller lets the value go out of scope. *)
Drop(w) ==
  /\ w \in held
  /\ held' = held \ {w}
  /\ UNCHANGED <<registered, wf, log, forced>>

(***************************************************************************)
(* The orchestrator (orchestrator.rs)                                      *)
(***************************************************************************)

RegisterAgent(k) ==
  /\ registered' = registered \cup {k}
  /\ UNCHANGED <<wf, held, log, forced>>

(* submit_workflow *)
Submit(w) ==
  /\ wf[w].status = "none"
  /\ wf' = [wf EXCEPT ![w] = NewWorkflow(wf[w].kind)]
  /\ held' = held \cup {w}
  /\ log' = [log EXCEPT ![w]["created"] = @ + 1]
  /\ UNCHANGED <<registered, forced>>

(* run_workflow gets past its checks: the agent is there, and the workflow  *)
(* may run (a completed or cancelled one has no successor).                 *)
Runnable(w) ==
  /\ wf[w].kind \in registered
  /\ "running" \in Successors(wf[w].status)
  /\ wf[w].attempts < AttemptBound

(* What a run whose agent succeeds, or fails, leaves in the row and in the  *)
(* log: a failed workflow is reset to pending if an attempt is left, and    *)
(* escalated otherwise.                                                     *)
Outcome(attempts, ok) ==
  CASE ok -> "completed"
    [] ~ok /\ AttemptsLeft(attempts) -> "pending"
    [] ~ok /\ ~AttemptsLeft(attempts) -> "failed"

(* Bugs: a failure that is retried is not recorded; the last one is, but    *)
(* nobody is told.                                                          *)
EntriesOfFinalRuns(attempts, ok) ==
  IF ok THEN {"started", "completed"}
  ELSE IF AttemptsLeft(attempts) THEN {"started"} ELSE {"started", "failed", "escalated"}
EntriesNeverEscalated(attempts, ok) == {"started", IF ok THEN "completed" ELSE "failed"}

Entries(attempts, ok) ==
  CASE ok -> {"started", "completed"}
    [] ~ok /\ AttemptsLeft(attempts) -> {"started", "failed"}
    [] ~ok /\ ~AttemptsLeft(attempts) -> {"started", "failed", "escalated"}

Recorded(old, entries) == [e \in Entry |-> old[e] + (IF e \in entries THEN 1 ELSE 0)]

(* run_workflow; a refused call changes nothing. *)
Run(w, ok) ==
  LET attempts == wf[w].attempts + 1 IN
  /\ w \in held
  /\ Runnable(w)
  /\ wf' = [wf EXCEPT ![w].status = Outcome(attempts, ok), ![w].attempts = attempts]
  /\ log' = [log EXCEPT ![w] = Recorded(@, Entries(attempts, ok))]
  /\ UNCHANGED <<registered, held, forced>>

(* submit_and_run: the value reaches the caller only if the run succeeds.   *)
SubmitAndRun(w, ok) ==
  /\ wf[w].status = "none"
  /\ wf[w].kind \in registered
  /\ wf' = [wf EXCEPT ![w].status = Outcome(1, ok), ![w].attempts = 1]
  /\ log' = [log EXCEPT ![w] = Recorded(@, Entries(1, ok) \cup {"created"})]
  /\ held' = IF ok THEN held \cup {w} ELSE held
  /\ UNCHANGED <<registered, forced>>

(* submit_and_run of a kind without an agent: NoAgent, and the value is gone. *)
SubmitForNobody(w) ==
  /\ wf[w].status = "none"
  /\ wf[w].kind \notin registered
  /\ wf' = [wf EXCEPT ![w] = NewWorkflow(wf[w].kind)]
  /\ log' = [log EXCEPT ![w]["created"] = @ + 1]
  /\ UNCHANGED <<registered, held, forced>>

(* create_escalation: a public method that neither looks at the workflow's  *)
(* status nor at earlier escalations; the bound is one per workflow.        *)
CreateEscalation(w) ==
  /\ w \in held
  /\ log[w]["raised"] = 0
  /\ log' = [log EXCEPT ![w]["raised"] = @ + 1]
  /\ UNCHANGED <<registered, wf, held, forced>>

(***************************************************************************)
(* The specification                                                       *)
(***************************************************************************)
OwnerMoves(w) ==
  \/ MarkRunning(w) \/ MarkCancelled(w) \/ RetryWorkflow(w) \/ Drop(w)
  \/ \E to \in Status : Move(w, to)

Next ==
  \/ \E w \in Workflows :
       \/ Submit(w) \/ SubmitForNobody(w) \/ CreateEscalation(w) \/ OwnerMoves(w)
       \/ \E ok \in BOOLEAN : Run(w, ok) \/ SubmitAndRun(w, ok)
  \/ \E k \in Kinds : RegisterAgent(k)

Spec == Init /\ [][Next]_vars

(***************************************************************************)
(* Properties                                                              *)
(***************************************************************************)

(* A workflow that is pending, for the first time or again, has an attempt  *)
(* left, unless its owner has once forced it back by the bare transition,   *)
(* whatever else was done with the state machine in between: no run starts  *)
(* that the retry policy did not allow, but for the resumption of a         *)
(* workflow that waited and those an owner has forced.                      *)
PendingHasAttemptLeft ==
  \A w \in Workflows :
    wf[w].status = "pending" => wf[w].attempts < MaxAttempts \/ forced[w] > 0

(* An escalation is for good: but by force nothing runs the workflow again  *)
(* after it, and so there is one more at most than the workflow was forced  *)
(* back.  And it is not forgotten: a workflow that failed as often as it    *)
(* may be tried has one.                                                    *)
EscalatedOnceForGood ==
  \A w \in Workflows :
    /\ log[w]["escalated"] <= 1 + forced[w]
    /\ log[w]["escalated"] > forced[w] => wf[w].status \in {"failed", "cancelled"}
    /\ log[w]["failed"] >= MaxAttempts => log[w]["escalated"] >= 1

(* rust/src/orchestrator.rs:303, "Reset to Pending so it can be picked up   *)
(* again": a workflow whose attempt failed and which has been reset to      *)
(* pending is in the hands of somebody who can run it, unless that caller   *)
(* let it go. SubmitAndRun breaks it: the value is dropped with the error.  *)
RetriedCanBePickedUp ==
  [][\A w \in Workflows :
       log'[w]["failed"] > log[w]["failed"] /\ wf'[w].status = "pending" => w \in held']_vars
=============================================================================
