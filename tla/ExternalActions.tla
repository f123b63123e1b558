-------------------------- MODULE ExternalActions --------------------------
(***************************************************************************)
(* The approval gate: a workflow run proposes external actions through     *)
(* GuardrailService.request_external_action, humans decide the approvals   *)
(* through the two decision routes, and a decision is copied to the action *)
(* it is about.                                                            *)
(*                                                                         *)
(* A proposal is up to five commits and a decision two; a human sees an    *)
(* approval as soon as it is committed, in the middle of the proposal.     *)
(* One action is one commit.  The audit entries are left out: nothing      *)
(* reads them.  One run at a time holds the workflow here (several at once *)
(* are the subject of WorkflowRuntime).                                    *)
(***************************************************************************)
EXTENDS Integers, FiniteSets

CONSTANTS
  NumActions,    \* bound: rows of external_actions
  NumApprovals,  \* bound: rows of human_approvals
  Deciders,      \* requests to a decision route
  MaxAttempts,   \* Workflow.max_attempts
  DecideBudget,  \* bound: how many decisions are taken
  CrashBudget    \* bound: how many sessions are lost half-way

Ids       == 1..NumActions
Approvals == 1..NumApprovals
None      == 0   \* SQL NULL in a reference

ASSUME ConstantsOK ==
  /\ NumActions \in Nat /\ NumApprovals \in Nat
  /\ MaxAttempts \in Nat \ {0}
  /\ DecideBudget \in Nat /\ CrashBudget \in Nat

VARIABLES
  action,     \* external_actions: status, requires_approval, approval_id
  approval,   \* human_approvals: status, and the action named in proposed_action
  packet,     \* the evidence packet of each action: status, the approval it names
  wf,         \* the workflow row: status, attempts
  pc,         \* what the run commits next
  cur,        \* the action being proposed; None for an approval without one
  asked,      \* the approval requested last
  dpc,        \* what each decider commits next
  dcopy,      \* the approval each decider has loaded, and its status as loaded
  verdicts,   \* history: what humans said of each approval
  overlapped, \* history: two decisions of one approval were under way at once
  decisions,  \* how many decisions were taken
  crashes     \* how many sessions were lost half-way

run    == <<pc, cur, asked>>
humans == <<dpc, dcopy, verdicts, overlapped, decisions>>
vars   == <<action, approval, packet, wf, pc, cur, asked, dpc, dcopy, verdicts,
            overlapped, decisions, crashes>>

Verdict        == {"approved", "rejected"}
ActionStatus   == {"absent", "proposed"} \cup Verdict
ApprovalStatus == {"absent", "open"} \cup Verdict

Action   == [status : ActionStatus, gated : BOOLEAN, approval : Approvals \cup {None}]
Approval == [status : ApprovalStatus, action : Ids \cup {None}]
Packet   == [status : {"absent", "waiting_for_approval", "approved_to_execute"},
             approval : Approvals \cup {None}]
Workflow == [status : {"pending", "running", "waiting_for_human", "completed", "failed"},
             attempts : 0..MaxAttempts]

TypeOK ==
  /\ action \in [Ids -> Action]
  /\ approval \in [Approvals -> Approval]
  /\ packet \in [Ids -> Packet]
  /\ wf \in Workflow
  /\ pc \in {"idle", "agent", "park", "ask", "link", "packet"}
  /\ cur \in Ids \cup {None}
  /\ asked \in Approvals \cup {None}
  /\ dpc \in [Deciders -> {"idle", "decide", "sync"}]
  /\ dcopy \in [Deciders -> [id : Approvals \cup {None}, status : ApprovalStatus]]
  /\ verdicts \in [Approvals -> SUBSET Verdict]
  /\ overlapped \in BOOLEAN
  /\ decisions \in 0..DecideBudget
  /\ crashes \in 0..CrashBudget

NothingLoaded == [id |-> None, status |-> "absent"]

Init ==
  /\ action = [i \in Ids |-> [status |-> "absent", gated |-> FALSE, approval |-> None]]
  /\ approval = [p \in Approvals |-> [status |-> "absent", action |-> None]]
  /\ packet = [i \in Ids |-> [status |-> "absent", approval |-> None]]
  /\ wf = [status |-> "pending", attempts |-> 0]
  /\ pc = "idle" /\ cur = None /\ asked = None
  /\ dpc = [d \in Deciders |-> "idle"]
  /\ dcopy = [d \in Deciders |-> NothingLoaded]
  /\ verdicts = [p \in Approvals |-> {}]
  /\ overlapped = FALSE
  /\ decisions = 0 /\ crashes = 0

Goto(from, to) == pc = from /\ pc' = to

(* The rows are numbered in the order of their insertion. *)
IsNewAction(i)   == action[i].status = "absent" /\ \A j \in 1..(i - 1) : action[j].status # "absent"
IsNewApproval(p) == approval[p].status = "absent" /\ \A q \in 1..(p - 1) : approval[q].status # "absent"

(* Bugs the proposal could have: an action that needs approval inserted as *)
(* approved, the request for approval skipped, the request made but never  *)
(* linked, the whole row written back where one column has changed.         *)
ProposeApproved(gated) ==
  /\ Goto("agent", IF gated THEN "park" ELSE "packet")
  /\ \E i \in Ids :
       /\ IsNewAction(i)
       /\ action' = [action EXCEPT ![i] = [status |-> "approved", gated |-> gated, approval |-> None]]
       /\ cur' = i
  /\ UNCHANGED <<approval, packet, wf, asked, humans, crashes>>

ParkOnly ==
  /\ Goto("park", "packet")
  /\ wf' = [wf EXCEPT !.status = "waiting_for_human"]
  /\ UNCHANGED <<action, approval, packet, cur, asked, humans, crashes>>

LinkForgotten == Goto("link", "packet") /\ UNCHANGED <<action, approval, packet, wf, cur, asked, humans, crashes>>

LinkWholeRow ==
  /\ Goto("link", "packet")
  /\ action' = [action EXCEPT ![cur].approval = asked, ![cur].status = "proposed"]
  /\ UNCHANGED <<approval, packet, wf, cur, asked, humans, crashes>>

(***************************************************************************)
(* The run                                                                 *)
(***************************************************************************)

(* mark_running *)
Start ==
  /\ wf.status = "pending"
  /\ Goto("idle", "agent")
  /\ wf' = [status |-> "running", attempts |-> wf.attempts + 1]
  /\ UNCHANGED <<action, approval, packet, cur, asked, humans, crashes>>

(* request_external_action, first commit: the action, by its classification. *)
Propose(gated) ==
  /\ Goto("agent", IF gated THEN "park" ELSE "packet")
  /\ \E i \in Ids :
       /\ IsNewAction(i)
       /\ action' = [action EXCEPT ![i] =
            [status |-> IF gated THEN "proposed" ELSE "approved", gated |-> gated, approval |-> None]]
       /\ cur' = i
  /\ UNCHANGED <<approval, packet, wf, asked, humans, crashes>>

Park ==
  /\ Goto("park", "ask")
  /\ wf' = [wf EXCEPT !.status = "waiting_for_human"]
  /\ UNCHANGED <<action, approval, packet, cur, asked, humans, crashes>>

(* The lead and finance agents park for an approval that is about no action. *)
ParkPlain ==
  /\ Goto("agent", "ask")
  /\ wf' = [wf EXCEPT !.status = "waiting_for_human"]
  /\ cur' = None
  /\ UNCHANGED <<action, approval, packet, asked, humans, crashes>>

(* ApprovalService.request *)
Ask ==
  /\ Goto("ask", IF cur = None THEN "agent" ELSE "link")
  /\ \E p \in Approvals :
       /\ IsNewApproval(p)
       /\ approval' = [approval EXCEPT ![p] = [status |-> "open", action |-> cur]]
       /\ asked' = p
  /\ UNCHANGED <<action, packet, wf, cur, humans, crashes>>

(* external_action.approval_id = approval.id: an UPDATE of that one column,  *)
(* though the session's copy of the row still says "proposed".             *)
Link ==
  /\ Goto("link", "packet")
  /\ action' = [action EXCEPT ![cur].approval = asked]
  /\ UNCHANGED <<approval, packet, wf, cur, asked, humans, crashes>>

(* record_external_action_packet *)
RecordPacket ==
  /\ Goto("packet", "agent")
  /\ packet' = [packet EXCEPT ![cur] =
       [status |-> IF action[cur].gated THEN "waiting_for_approval" ELSE "approved_to_execute",
        approval |-> action[cur].approval]]
  /\ cur' = None
  /\ UNCHANGED <<action, approval, wf, asked, humans, crashes>>

(* The agent raises (a tool, the governance core's classification, the hash *)
(* of the packet): retry or give up.  The rows of the attempt remain.       *)
Raise ==
  /\ pc \in {"agent", "packet"}
  /\ pc' = "idle" /\ cur' = None
  /\ wf' = [wf EXCEPT !.status = IF wf.attempts < MaxAttempts THEN "pending" ELSE "failed"]
  /\ UNCHANGED <<action, approval, packet, asked, humans, crashes>>

(* The agent returns: a parked workflow stays parked. *)
Finish ==
  /\ Goto("agent", "idle")
  /\ wf' = [wf EXCEPT !.status = IF @ = "waiting_for_human" THEN @ ELSE "completed"]
  /\ UNCHANGED <<action, approval, packet, cur, asked, humans, crashes>>

CrashRun ==
  /\ pc # "idle" /\ crashes < CrashBudget
  /\ crashes' = crashes + 1
  /\ pc' = "idle" /\ cur' = None
  /\ UNCHANGED <<action, approval, packet, wf, asked, humans>>

(***************************************************************************)
(* The decision routes.  Neither asks whether the approval is still open.  *)
(***************************************************************************)

(* Bugs a decision could have: the action gets the answer that is not the   *)
(* human's, or none at all when the answer is "rejected".                  *)
SyncApprovedOnly(d) ==
  LET p == dcopy[d].id IN
  /\ dpc[d] = "sync"
  /\ action' = IF approval[p].action = None \/ dcopy[d].status = "rejected" THEN action
               ELSE [action EXCEPT ![approval[p].action].status = dcopy[d].status]
  /\ dpc' = [dpc EXCEPT ![d] = "idle"]
  /\ dcopy' = [dcopy EXCEPT ![d] = NothingLoaded]
  /\ UNCHANGED <<approval, packet, wf, run, verdicts, overlapped, decisions, crashes>>

(* session.get(HumanApproval, approval_id) *)
Open(d, p) ==
  /\ dpc[d] = "idle" /\ approval[p].status # "absent"
  /\ decisions < DecideBudget
  /\ decisions' = decisions + 1
  /\ dpc' = [dpc EXCEPT ![d] = "decide"]
  /\ dcopy' = [dcopy EXCEPT ![d] = [id |-> p, status |-> approval[p].status]]
  /\ overlapped' = (overlapped \/ \E e \in Deciders : dcopy[e].id = p)
  /\ UNCHANGED <<action, approval, packet, wf, run, verdicts, crashes>>

(* ApprovalService.decide.  The column status is written only where the    *)
(* verdict differs from what the session has loaded.                       *)
Decide(d, v) ==
  LET p == dcopy[d].id IN
  /\ dpc[d] = "decide"
  /\ approval' = IF v = dcopy[d].status THEN approval ELSE [approval EXCEPT ![p].status = v]
  /\ verdicts' = [verdicts EXCEPT ![p] = @ \cup {v}]
  /\ dpc' = [dpc EXCEPT ![d] = "sync"]
  /\ dcopy' = [dcopy EXCEPT ![d].status = v]
  /\ UNCHANGED <<action, packet, wf, run, overlapped, decisions, crashes>>

(* sync_external_action_decision, with the verdict the session has; the    *)
(* action is loaded and written at once.                                   *)
Sync(d) ==
  LET p == dcopy[d].id IN
  /\ dpc[d] = "sync"
  /\ action' = IF approval[p].action = None THEN action
               ELSE [action EXCEPT ![approval[p].action].status = dcopy[d].status]
  /\ dpc' = [dpc EXCEPT ![d] = "idle"]
  /\ dcopy' = [dcopy EXCEPT ![d] = NothingLoaded]
  /\ UNCHANGED <<approval, packet, wf, run, verdicts, overlapped, decisions, crashes>>

CrashDecider(d) ==
  /\ dpc[d] # "idle" /\ crashes < CrashBudget
  /\ crashes' = crashes + 1
  /\ dpc' = [dpc EXCEPT ![d] = "idle"]
  /\ dcopy' = [dcopy EXCEPT ![d] = NothingLoaded]
  /\ UNCHANGED <<action, approval, packet, wf, run, verdicts, overlapped, decisions>>

RunStep ==
  \/ Start \/ Park \/ ParkPlain \/ Ask \/ Link \/ RecordPacket \/ Raise \/ Finish
  \/ \E gated \in BOOLEAN : Propose(gated)

DecideStep(d) == Sync(d) \/ \E v \in Verdict : Decide(d, v)

Next ==
  \/ RunStep \/ CrashRun
  \/ \E d \in Deciders : DecideStep(d) \/ CrashDecider(d) \/ \E p \in Approvals : Open(d, p)

Spec == Init /\ [][Next]_vars

(* A run that is under way and a decision that was sent go on to their end; *)
(* every approval is decided some time if nobody has decided it.            *)
FairSpec ==
  /\ Spec
  /\ WF_vars(RunStep)
  /\ \A d \in Deciders : WF_vars(DecideStep(d))
  /\ \A p \in Approvals : SF_vars(verdicts[p] = {} /\ \E d \in Deciders : Open(d, p))

(***************************************************************************)
(* Properties                                                              *)
(***************************************************************************)

(* No action that needs approval is ever "approved" unless some human       *)
(* approved an approval that names this very action, retries, crashes and   *)
(* decisions in the middle of the proposal included.                        *)
ApprovedByHuman ==
  \A i \in Ids :
    action[i].gated /\ action[i].status = "approved" =>
      \E p \in Approvals : approval[p].action = i /\ "approved" \in verdicts[p]

(* While no session is lost, every action that needs approval has exactly   *)
(* one approval for a human to find, or the run is about to request it.     *)
GatedIsAsked ==
  crashes = 0 =>
    \A i \in Ids :
      action[i].gated =>
        \/ cur = i /\ pc \in {"park", "ask"}
        \/ Cardinality({p \in Approvals : approval[p].action = i}) = 1

(* While no session is lost and no two decisions of one approval overlap,   *)
(* action and approval agree as soon as nobody is deciding the approval any *)
(* more, even if it was decided before the proposal was complete, and       *)
(* however often it was decided again                                       *)
(* (docs/AUTONOMOUS_ARCHITECTURE.md: "Human approvals update the            *)
(* corresponding external-action status").                                  *)
DecisionReachesAction ==
  crashes = 0 /\ ~overlapped =>
    \A p \in Approvals :
      approval[p].action # None /\ verdicts[p] # {} =>
        \/ \E d \in Deciders : dcopy[d].id = p
        \/ action[approval[p].action].status = approval[p].status

(* An evidence packet tells the truth: of an action that needs approval it  *)
(* says so and names the approval that is about this action, of another it  *)
(* says it may execute, and names none.                                     *)
PacketIsTrue ==
  \A i \in Ids :
    packet[i].status # "absent" =>
      LET p == packet[i].approval IN
      IF action[i].gated
      THEN packet[i].status = "waiting_for_approval" /\ p # None /\ approval[p].action = i
      ELSE packet[i].status = "approved_to_execute" /\ p = None

(* What a human has decided is not undone by the proposal that is still     *)
(* under way: a decided action is never "proposed" again.                   *)
DecidedStaysDecided ==
  [][\A i \in Ids : action[i].status \in Verdict => action'[i].status \in Verdict]_vars

(* A workflow that waits for a human goes on once its approvals are decided *)
(* (README: waiting_for_human leads to completed).                          *)
AllDecided == \A p \in Approvals : approval[p].status # "open"

WaitingResumes ==
  (wf.status = "waiting_for_human" /\ pc = "idle" /\ AllDecided) ~> wf.status # "waiting_for_human"
=============================================================================
