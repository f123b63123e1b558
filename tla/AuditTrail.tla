----------------------------- MODULE AuditTrail -----------------------------
(***************************************************************************)
(* The audit log of the Rust crate (rust/src/audit.rs): a sequence of      *)
(* entries that only grows, and the queries on it.  The services that own  *)
(* a log hold it in a variable of theirs.                                  *)
(***************************************************************************)
EXTENDS CoreTypes, FiniteSets, SequencesExt

CONSTANT QueryLimit   \* the limit of AuditQuery::new, 100 in the code

ASSUME QueryLimitOK == QueryLimit \in Nat

(* record: the only operation that changes a log *)
Record(log, entry) == Append(log, entry)

AuditEntry(action, actor, w, t) == [action |-> action, actor |-> actor, wf |-> w, at |-> t]

(* The record_* helpers: which of them names somebody else than "system"    *)
(* as the actor, and which of them belongs to no workflow.                  *)
WorkflowEntry(action, w, t) == AuditEntry(action, "system", Some(w), t)
TaskEntry(action, agent, w, t) ==
  AuditEntry(action, IF action = "task_started" THEN agent ELSE "system", Some(w), t)
ApprovalEntry(action, decidedBy, w, t) ==
  AuditEntry(action, IF action = "approval_requested" THEN "system" ELSE decidedBy, Some(w), t)
EscalationEntry(action, w, t) ==
  AuditEntry(action, "system", IF action = "escalation_resolved" THEN None ELSE w, t)

(***************************************************************************)
(* Queries                                                                 *)
(***************************************************************************)

(* AuditQuery::new; its builder methods set one field each.                 *)
NewQuery == [wf |-> None, action |-> None, actor |-> None, since |-> None, until |-> None,
             limit |-> QueryLimit]

(* The filters that are set must all hold; both bounds of time are inclusive. *)
Matches(query, e) ==
  /\ \A w \in query.wf : e.wf = Some(w)
  /\ \A a \in query.action : e.action = a
  /\ \A a \in query.actor : e.actor = a
  /\ \A t \in query.since : e.at >= t
  /\ \A t \in query.until : e.at <= t

(* A bug: the latest entries are kept when there are too many.              *)
TruncatedToLatest(s, n) == IF Len(s) <= n THEN s ELSE SubSeq(s, Len(s) - n + 1, Len(s))

Truncated(s, n) == IF Len(s) <= n THEN s ELSE SubSeq(s, 1, n)

(* The entries that match, in the order of the log: the n-th is the one     *)
(* with n of them up to its place.                                          *)
Hits(log, query) == {i \in DOMAIN log : Matches(query, log[i])}
Nth(hits, n) == CHOOSE i \in hits : Cardinality({j \in hits : j <= i}) = n
Filtered(log, query) ==
  [n \in 1..Cardinality(Hits(log, query)) |-> log[Nth(Hits(log, query), n)]]

(* query: the oldest `limit` entries that match *)
QueryLog(log, query) == Truncated(Filtered(log, query), query.limit)

(* entries_for_workflow *)
EntriesForWorkflow(log, w) == QueryLog(log, [NewQuery EXCEPT !.wf = Some(w)])
=============================================================================
