----------------------------- MODULE CoreTypes -----------------------------
(***************************************************************************)
(* The types of the Rust crate (rust/src/types.rs), as far as the modules  *)
(* that model the crate tell their values apart.  An optional field is a   *)
(* set of at most one value.                                               *)
(***************************************************************************)
EXTENDS Naturals

None == {}
Some(x) == {x}

WorkflowStatus == {"pending", "running", "waiting_for_human", "completed", "failed", "cancelled"}

(* What the type announces as successors of a status; the state machine of  *)
(* state_machine.rs has a table of its own.                                 *)
ValidTransitions(s) ==
  CASE s = "pending"           -> {"running", "cancelled"}
    [] s = "running"           -> {"waiting_for_human", "completed", "failed", "cancelled"}
    [] s = "waiting_for_human" -> {"running", "completed", "failed", "cancelled"}
    [] s = "failed"            -> {"running"}
    [] OTHER                   -> {}

CanTransitionTo(s, target) == target \in ValidTransitions(s)
IsTerminal(s) == s \in {"completed", "cancelled"}

TaskStatus     == {"queued", "running", "completed", "failed", "escalated"}
Decision       == {"approved", "rejected"}

(* ScoreTier::from_score *)
FromScore(score) ==
  CASE score >= 80                -> "A"
    [] score >= 55 /\ score < 80  -> "B"
    [] score < 55                 -> "C"

(* Workflow::new, with the kind the orchestrator gives it *)
NewWorkflow(kind) == [kind |-> kind, status |-> "pending", attempts |-> 0]

(* AgentTask::new; of its times only whether they are set matters. *)
NewTask == [status |-> "queued", started |-> FALSE, completed |-> FALSE]

(* HumanApproval::new at time t *)
NewApproval(id, w, t) ==
  [id |-> id, wf |-> w, status |-> "open", decidedBy |-> None, requestedAt |-> t, decidedAt |-> None]

(* Lead::new: no enrichment; an empty name or company is none.  A text is   *)
(* the set of the keywords it contains.                                     *)
NewLead ==
  [email |-> FALSE, name |-> {}, company |-> {}, confidence |-> None, employees |-> None,
   revenue |-> None, title |-> {}, industry |-> {}, intent |-> "null"]
=============================================================================
