------------------------- MODULE DepartmentSignals --------------------------
(***************************************************************************)
(* The revenue signals of one department: a JSON column that every         *)
(* operating loop (app/agents/department.py) adds to by department_metrics *)
(* of rust/src/bridge.rs and writes back as a whole.  A loop computes from *)
(* the Department object its session holds, which is as old as the first   *)
(* look the session took at the department: a request, the schedules job   *)
(* and a poller look before the loop begins, and a job's session runs      *)
(* several.  A loop that fails writes nothing.                             *)
(***************************************************************************)
EXTENDS Naturals

CONSTANTS
  LoopSessions,  \* the database sessions that run loops of the department
  Found,         \* bound: how many leads or drafts one loop comes up with
  LoopRuns       \* bound: how many loops end

ASSUME SignalsOK == Found \subseteq Nat /\ LoopRuns \in Nat

VARIABLES
  kind,        \* department_type
  signals,     \* the committed revenue_signals
  health,      \* the committed health_score, in hundredths
  held,        \* the Department object in each session's identity map
  loopRuns,    \* how many loops ended
  found,       \* history: leads or drafts of the loops that ended
  overlapped   \* history: whether two sessions ever held the department at once

signalsVars == <<kind, signals, health, held, loopRuns, found, overlapped>>

Holds(s) == held[s] # {}
NoSignals == [lead_count |-> 0, pipeline_value |-> 0, content_outputs |-> 0]

SignalsInit ==
  /\ kind \in {"sales", "content", "other"}
  /\ signals = NoSignals /\ health = 100
  /\ held = [s \in LoopSessions |-> {}]
  /\ loopRuns = 0 /\ found = 0 /\ overlapped = FALSE

(* Bug: the pipeline is valued anew from all leads, on top of what it was.  *)
MetricsRevalued(type, old, n) ==
  IF type = "sales" THEN [old EXCEPT !.lead_count = @ + n,
                                     !.pipeline_value = @ + (old.lead_count + n) * 5000]
  ELSE old

(* department_metrics: what the output adds, by the type of the department. *)
DepartmentMetrics(type, old, n) ==
  CASE type = "sales"   -> [old EXCEPT !.lead_count = @ + n, !.pipeline_value = @ + n * 5000]
    [] type = "content" -> [old EXCEPT !.content_outputs = @ + n]
    [] OTHER            -> old

(* The other half of it; a loop is only begun in an active department.      *)
Health(active, approvals) ==
  (IF active THEN 95 ELSE 40) - (IF approvals > 10 THEN 10 ELSE 0)

(* session.get reads the row, unless the session holds the object.          *)
LoadDepartment(s) ==
  /\ ~Holds(s)
  /\ held' = [held EXCEPT ![s] = {[signals |-> signals, health |-> health]}]
  /\ overlapped' = (overlapped \/ \E other \in LoopSessions : Holds(other))
  /\ UNCHANGED <<kind, signals, health, loopRuns, found>>

(* A column is only written when the object's attribute has changed.        *)
Flushed(column, old, new) == IF new = old THEN column ELSE new

(* A loop commits what it made of the session's object; every lead and      *)
(* every draft asks for an approval.                                        *)
EndSignals(s, n) == \E old \in held[s] :
  LET new == [signals |-> DepartmentMetrics(kind, old.signals, n),
              health |-> Health(TRUE, IF kind = "other" THEN 0 ELSE n)]
  IN /\ loopRuns < LoopRuns /\ loopRuns' = loopRuns + 1
     /\ signals' = Flushed(signals, old.signals, new.signals)
     /\ health' = Flushed(health, old.health, new.health)
     /\ held' = [held EXCEPT ![s] = {new}]
     /\ found' = found + n
     /\ UNCHANGED <<kind, overlapped>>

(* The session ends, dies in the middle of a loop, or forgets an object     *)
(* that nobody refers to any more (its identity map is weak).               *)
CloseSession(s) ==
  /\ Holds(s)
  /\ held' = [held EXCEPT ![s] = {}]
  /\ UNCHANGED <<kind, signals, health, loopRuns, found, overlapped>>

SignalsNext == \E s \in LoopSessions :
  LoadDepartment(s) \/ CloseSession(s) \/ \E n \in Found : EndSignals(s, n)

SignalsSpec == SignalsInit /\ [][SignalsNext]_signalsVars

(***************************************************************************)
(* Properties                                                              *)
(***************************************************************************)

(* Sessions that hold the department at once overwrite each other's         *)
(* additions, those of whole loops that ended before theirs began too, but  *)
(* never half of them: the pipeline is always worth what the counted leads  *)
(* are, nothing is counted that was not found, and as long as sessions take *)
(* turns, whatever loops are lost, everything found is counted.             *)
SignalsConsistent ==
  LET counted == signals.lead_count + signals.content_outputs IN
  /\ signals.pipeline_value = 5000 * signals.lead_count
  /\ counted <= found
  /\ kind # "other" /\ ~overlapped => counted = found
=============================================================================
