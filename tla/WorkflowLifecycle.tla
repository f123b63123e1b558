------------------------- MODULE WorkflowLifecycle -------------------------
(***************************************************************************)
(* What the README's "Workflow State Machine" promises of one table of     *)
(* workflows, without sessions, commits or audit entries: a pending        *)
(* workflow is run, at most MaxAttempts times, until it completes, waits   *)
(* for a human or fails, and a failure alerts an operator once.  The agent *)
(* may warn an operator of what it has found, once, in the run that then   *)
(* completes the workflow.                                                 *)
(***************************************************************************)
EXTENDS Integers

CONSTANTS
  Items,       \* the workflows
  MaxAttempts  \* Workflow.max_attempts

VARIABLES
  status,      \* [Items -> Phase]
  attempts,    \* [Items -> 0..MaxAttempts]
  alerts,      \* [Items -> Nat], how often an operator was told of its failure
  warnings     \* [Items -> Nat], how often its agent has told one of anything else

lvars == <<status, attempts, alerts, warnings>>

Phase == {"absent", "pending", "running", "waiting_for_human", "completed", "failed"}

Init ==
  /\ status = [w \in Items |-> "absent"]
  /\ attempts = [w \in Items |-> 0]
  /\ alerts = [w \in Items |-> 0]
  /\ warnings = [w \in Items |-> 0]

Move(w, from, to) == status[w] \in from /\ status' = [status EXCEPT ![w] = to]

Submit(w) == Move(w, {"absent"}, "pending") /\ UNCHANGED <<attempts, alerts, warnings>>

Start(w) ==
  /\ Move(w, {"pending"}, "running")
  /\ attempts[w] < MaxAttempts
  /\ attempts' = [attempts EXCEPT ![w] = @ + 1]
  /\ UNCHANGED <<alerts, warnings>>

Complete(w) == Move(w, {"running"}, "completed") /\ UNCHANGED <<attempts, alerts, warnings>>

(* What the agent warns of it warns of before the run completes. *)
Warn(w) ==
  /\ status[w] = "running" /\ warnings[w] = 0
  /\ warnings' = [warnings EXCEPT ![w] = 1]
  /\ UNCHANGED <<status, attempts, alerts>>

Wait(w) ==
  /\ Move(w, {"running"}, "waiting_for_human") /\ warnings[w] = 0
  /\ UNCHANGED <<attempts, alerts, warnings>>

(* An exception, before or after the workflow was parked. *)
RetryLater(w) ==
  /\ Move(w, {"running", "waiting_for_human"}, "pending")
  /\ attempts[w] < MaxAttempts /\ warnings[w] = 0
  /\ UNCHANGED <<attempts, alerts, warnings>>

Fail(w) ==
  /\ Move(w, {"running", "waiting_for_human"}, "failed")
  /\ attempts[w] = MaxAttempts /\ warnings[w] = 0
  /\ UNCHANGED <<attempts, alerts, warnings>>

Alert(w) ==
  /\ status[w] = "failed" /\ alerts[w] = 0
  /\ alerts' = [alerts EXCEPT ![w] = 1]
  /\ UNCHANGED <<status, attempts, warnings>>

Next ==
  \E w \in Items :
    \/ Submit(w) \/ Start(w) \/ Warn(w) \/ Complete(w) \/ Wait(w)
    \/ RetryLater(w) \/ Fail(w) \/ Alert(w)

Spec == Init /\ [][Next]_lvars
=============================================================================
