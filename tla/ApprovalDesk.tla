---------------------------- MODULE ApprovalDesk ----------------------------
(***************************************************************************)
(* The chain of human approvals of the Rust crate (rust/src/approval.rs)   *)
(* behind its façade (rust/src/pipeline.rs), which keeps an audit log of   *)
(* its own beside that of the orchestrator.  A decision is kept in three   *)
(* places, the two lists and the façade's log, and readers come at any     *)
(* time: for the overdue approvals, the statistics, the trail of a         *)
(* workflow.                                                               *)
(***************************************************************************)
EXTENDS AuditTrail, FiniteSetsExt

CONSTANTS
  DeskWorkflows,  \* the workflows approvals are asked for; nobody looks them up
  ApprovalIds,    \* the ids of approvals there may be
  Deciders,       \* the humans
  OverdueAfter,   \* the timeout_secs a reader asks timeout_check for
  DeskEnd,        \* bound: the last instant
  CoreEntries     \* bound: entries of the orchestrator's log

ASSUME DeskOK == OverdueAfter \in Nat /\ DeskEnd \in Nat /\ CoreEntries \in Nat

VARIABLES
  deskNow,  \* the clock
  pending,  \* ApprovalService.pending
  decided,  \* ApprovalService.decided
  osLog,    \* BusinessOS.audit
  coreLog   \* the audit log of the orchestrator

deskVars == <<deskNow, pending, decided, osLog, coreLog>>

DeskInit == deskNow = 0 /\ pending = <<>> /\ decided = <<>> /\ osLog = <<>> /\ coreLog = <<>>

IdsOn(list) == {a.id : a \in ToSet(list)}

(* request_approval of the façade *)
DeskRequest(id, w) ==
  /\ id \notin IdsOn(pending) \cup IdsOn(decided)
  /\ pending' = Append(pending, NewApproval(id, w, deskNow))
  /\ osLog' = Record(osLog, ApprovalEntry("approval_requested", "system", w, deskNow))
  /\ UNCHANGED <<deskNow, decided, coreLog>>

(* ApprovalStateMachine::decide of an open approval *)
DecidedAs(a, verdict, by) ==
  [a EXCEPT !.status = verdict, !.decidedBy = Some(by), !.decidedAt = Some(deskNow)]

(* Bugs: the approval is copied, not moved; the oldest is taken off  *)
(* the list, not the one that was decided.                                  *)
TakenNever(i) == pending
TakenFirst(i) == RemoveAt(pending, 1)

Taken(i) == RemoveAt(pending, i)

(* The action a verdict is recorded as *)
ActionOf(verdict) == IF verdict = "approved" THEN "approval_granted" ELSE "approval_rejected"

(* approve and reject of the façade: an id that is not pending is NotFound. *)
DeskDecide(id, verdict, by) == \E i \in DOMAIN pending :
  /\ pending[i].id = id /\ pending[i].status = "open"
  /\ pending' = Taken(i)
  /\ decided' = Append(decided, DecidedAs(pending[i], verdict, by))
  /\ osLog' = Record(osLog, ApprovalEntry(ActionOf(verdict), by, pending[i].wf, deskNow))
  /\ UNCHANGED <<deskNow, coreLog>>

(* The orchestrator records something about the workflow: that it runs,     *)
(* that an agent works on a task of it, or that its escalation is resolved. *)
CoreRecords(w) ==
  /\ Len(coreLog) < CoreEntries
  /\ \E e \in {WorkflowEntry("workflow_started", w, deskNow),
               TaskEntry("task_started", "agent", w, deskNow),
               EscalationEntry("escalation_resolved", Some(w), deskNow)} :
       coreLog' = Record(coreLog, e)
  /\ UNCHANGED <<deskNow, pending, decided, osLog>>

DeskTick ==
  /\ deskNow < DeskEnd
  /\ deskNow' = deskNow + 1
  /\ UNCHANGED <<pending, decided, osLog, coreLog>>

DeskNext ==
  \/ \E id \in ApprovalIds :
       \/ \E w \in DeskWorkflows : DeskRequest(id, w)
       \/ \E verdict \in Decision, by \in Deciders : DeskDecide(id, verdict, by)
  \/ \E w \in DeskWorkflows : CoreRecords(w)
  \/ DeskTick

DeskSpec == DeskInit /\ [][DeskNext]_deskVars

(***************************************************************************)
(* What readers are told                                                   *)
(***************************************************************************)

(* get_by_workflow and is_pending *)
ByWorkflow(w) == SelectSeq(pending \o decided, LAMBDA a : a.wf = w)
IsPending(id) == id \in IdsOn(pending)

(* timeout_check *)
Overdue == {a.id : a \in {p \in ToSet(pending) : deskNow - p.requestedAt > OverdueAfter}}

CountOf(list, status) == Cardinality({i \in DOMAIN list : list[i].status = status})

(* stats, with the sum of the times decisions took, and health_check        *)
Stats ==
  [requested |-> Len(pending) + Len(decided), pending |-> Len(pending),
   approved |-> CountOf(decided, "approved"), rejected |-> CountOf(decided, "rejected"),
   deciding |-> FoldSeq(LAMBDA a, sum : sum + SumSet({t - a.requestedAt : t \in a.decidedAt}), 0, decided),
   entries |-> Len(osLog)]

(* audit_trail: the façade's entries, then the orchestrator's *)
AuditTrailOf(w) == EntriesForWorkflow(osLog, w) \o EntriesForWorkflow(coreLog, w)

(***************************************************************************)
(* Properties                                                              *)
(***************************************************************************)

(* However requests and decisions are interleaved, the lists, the           *)
(* statistics drawn from them and the façade's log tell the same: every     *)
(* approval ever requested is on one list once, as many are granted and     *)
(* rejected as were recorded, and each decision is recorded for the         *)
(* workflow, in the name and at the time that the decided approval says.    *)
DecisionsAgree ==
  LET Logged(action) == {i \in DOMAIN osLog : osLog[i].action = action} IN
  /\ Stats.requested = Cardinality(Logged("approval_requested"))
  /\ Stats.requested = Cardinality(IdsOn(pending) \cup IdsOn(decided))
  /\ Stats.approved = Cardinality(Logged("approval_granted"))
  /\ Stats.rejected = Cardinality(Logged("approval_rejected"))
  /\ Stats.entries = Stats.requested + Stats.approved + Stats.rejected
  /\ \A a \in ToSet(decided) : ~IsPending(a.id) /\ \E e \in ToSet(osLog) :
       /\ e.action = ActionOf(a.status) /\ e.wf = Some(a.wf)
       /\ Some(e.actor) = a.decidedBy /\ Some(e.at) = a.decidedAt

(* timeout_check keeps reporting an overdue approval until somebody decides *)
(* that very approval; a decision on another one does not take it off.      *)
OverdueUntilDecided ==
  [][\A id \in Overdue : id \in Overdue' \/ id \in IdsOn(decided')]_deskVars

(* What entries_for_workflow has shown of a log it shows again, at the same *)
(* place, however long the log has become: the limit of the query cuts off  *)
(* the latest entries, never the ones a reader has seen.  (The trail of     *)
(* both logs is in order within each of its two parts only.)                *)
ShownStaysShown ==
  [][\A w \in DeskWorkflows :
       /\ IsPrefix(EntriesForWorkflow(osLog, w), EntriesForWorkflow(osLog', w))
       /\ IsPrefix(EntriesForWorkflow(coreLog, w), EntriesForWorkflow(coreLog', w))]_deskVars
=============================================================================
