----------------------- MODULE ExternalActionsProofs -----------------------
(***************************************************************************)
(* The approval gate for any number of actions, approvals, deciders and    *)
(* crashes: what is approved was approved by a human, what is asked is     *)
(* asked once, and a decision reaches the action it is about.              *)
(***************************************************************************)
EXTENDS ExternalActions, FiniteSetTheorems, TLAPS

(***************************************************************************)
(* The inductive invariant                                                 *)
(***************************************************************************)

(* The run keeps its place: an action is in its hands from its row to its   *)
(* packet, and one that waits for its approval needs one.  A workflow that  *)
(* is pending has an attempt left.                                          *)
RunOK ==
  /\ pc \in {"idle", "agent"} => cur = None
  /\ pc \in {"park", "link", "packet"} => cur # None
  /\ cur # None => action[cur].status # "absent"
  /\ pc \in {"park", "ask", "link"} /\ cur # None => action[cur].gated
  /\ pc = "link" => asked # None /\ approval[asked].action = cur
  /\ pc = "packet" /\ action[cur].gated => action[cur].approval # None
  /\ wf.status = "pending" => wf.attempts < MaxAttempts

(* What the three tables say of each other: only an action that needs one   *)
(* has an approval, which is about it and about no other.                   *)
TablesOK ==
  /\ \A i \in Ids :
       /\ action[i].status = "absent" => ~action[i].gated /\ packet[i].status = "absent"
       /\ ~action[i].gated => action[i].approval = None
       /\ action[i].approval # None => approval[action[i].approval].action = i
  /\ \A p \in Approvals :
       /\ approval[p].action # None => action[approval[p].action].gated
       /\ approval[p].status = "absent" => approval[p].action = None /\ verdicts[p] = {}

(* A decider works on an approval that is there, and brings the action what *)
(* a human has said.                                                        *)
DecidersOK ==
  \A d \in Deciders :
    /\ dpc[d] = "idle" <=> dcopy[d].id = None
    /\ dpc[d] # "idle" => approval[dcopy[d].id].status # "absent"
    /\ dpc[d] = "sync" => dcopy[d].status \in verdicts[dcopy[d].id]

(* The status of an action that needs approval is what some human has said  *)
(* of an approval that names it.                                            *)
DecidedByHuman ==
  \A i \in Ids :
    action[i].gated /\ action[i].status \in Verdict =>
      \E p \in Approvals : approval[p].action = i /\ action[i].status \in verdicts[p]

(* While no session is lost: one approval at most names an action, one does *)
(* unless the run is about to request it, and not before that.              *)
AskedOnce ==
  crashes = 0 =>
    /\ \A p, q \in Approvals : approval[p].action # None /\ approval[q].action = approval[p].action => p = q
    /\ \A i \in Ids : action[i].gated =>
         (cur = i /\ pc \in {"park", "ask"}) \/ (\E p \in Approvals : approval[p].action = i)
    /\ pc \in {"park", "ask"} => \A p \in Approvals : approval[p].action = None \/ approval[p].action # cur

(* While no two decisions of one approval overlap, the copy of the only     *)
(* decider is what is on file.                                              *)
CopiesTrue ==
  ~overlapped =>
    \A d \in Deciders :
      /\ dcopy[d].id # None => dcopy[d].status = approval[dcopy[d].id].status
      /\ \A e \in Deciders : dcopy[d].id # None /\ dcopy[d].id = dcopy[e].id => d = e

GateInv ==
  /\ TypeOK
  /\ RunOK /\ TablesOK /\ DecidersOK /\ PacketIsTrue
  /\ DecidedByHuman /\ AskedOnce /\ CopiesTrue /\ DecisionReachesAction

(***************************************************************************)
(* The invariant is inductive                                              *)
(***************************************************************************)
LEMMA GateInvInit == Init => GateInv
<1> SUFFICES ASSUME Init PROVE GateInv
  OBVIOUS
<1> USE DEF Init, NothingLoaded
<1>1. TypeOK
  <2>1. /\ [status |-> "absent", gated |-> FALSE, approval |-> None] \in Action
        /\ [status |-> "absent", action |-> None] \in Approval
        /\ [status |-> "absent", approval |-> None] \in Packet
        /\ [id |-> None, status |-> "absent"] \in [id : Approvals \cup {None}, status : ApprovalStatus]
    BY DEF Action, Approval, Packet, ActionStatus, ApprovalStatus
  <2>2. wf \in Workflow
    BY ConstantsOK DEF Workflow
  <2>3. /\ action \in [Ids -> Action] /\ approval \in [Approvals -> Approval] /\ packet \in [Ids -> Packet]
        /\ dcopy \in [Deciders -> [id : Approvals \cup {None}, status : ApprovalStatus]]
    BY <2>1
  <2>4. dpc \in [Deciders -> {"idle", "decide", "sync"}] /\ verdicts \in [Approvals -> SUBSET Verdict]
    OBVIOUS
  <2>5. decisions \in 0..DecideBudget /\ crashes \in 0..CrashBudget
    BY ConstantsOK
  <2>6. overlapped \in BOOLEAN
    OBVIOUS
  <2> QED BY <2>2, <2>3, <2>4, <2>5, <2>6 DEF TypeOK
<1> USE DEF None
<1>2. RunOK /\ TablesOK /\ DecidersOK /\ PacketIsTrue
  BY ConstantsOK DEF RunOK, TablesOK, DecidersOK, PacketIsTrue
<1>3. DecidedByHuman /\ AskedOnce /\ CopiesTrue /\ DecisionReachesAction
  BY DEF DecidedByHuman, AskedOnce, CopiesTrue, DecisionReachesAction
<1> QED BY <1>1, <1>2, <1>3 DEF GateInv

(* The steps of the run that move it on and write its workflow row: the     *)
(* tables of the gate stay, and so does what is in the deciders' hands.     *)
LEMMA RunMovesOn ==
  ASSUME GateInv, UNCHANGED <<action, approval, packet, asked, humans>>,
         wf' \in Workflow, wf'.status = "pending" => wf'.attempts < MaxAttempts,
         crashes' \in 0..CrashBudget, crashes' = 0 => crashes = 0,
         \/ pc = "park" /\ pc' = "ask" /\ cur' = cur
         \/ pc = "agent" /\ pc' = "ask" /\ cur' = None
         \/ pc \in {"idle", "agent"} /\ pc' \in {"idle", "agent"} /\ cur' = cur
         \/ pc = "packet" /\ pc' = "idle" /\ cur' = None
         \/ crashes' # 0 /\ pc' = "idle" /\ cur' = None
  PROVE  GateInv'
<1>1. TypeOK'
  BY DEF GateInv, TypeOK, humans
<1>2. RunOK' /\ TablesOK' /\ DecidersOK' /\ PacketIsTrue'
  BY DEF GateInv, TypeOK, RunOK, TablesOK, DecidersOK, PacketIsTrue, humans, None, Ids
<1>3. DecidedByHuman' /\ CopiesTrue' /\ DecisionReachesAction'
  BY DEF GateInv, DecidedByHuman, CopiesTrue, DecisionReachesAction, humans
<1>4. AskedOnce'
  BY DEF GateInv, TypeOK, AskedOnce, humans, RunOK, None, Ids
<1> QED BY <1>1, <1>2, <1>3, <1>4 DEF GateInv

(* A new row of an action: no approval names it yet.                        *)
LEMMA ProposeKeeps ==
  ASSUME GateInv, NEW gated \in BOOLEAN, Propose(gated) PROVE GateInv'
<1> DEFINE row == [status |-> IF gated THEN "proposed" ELSE "approved", gated |-> gated, approval |-> None]
<1>1. PICK i \in Ids : /\ action[i].status = "absent" /\ cur' = i
                       /\ action' = [action EXCEPT ![i] = row]
  BY DEF Propose, IsNewAction
<1>2. /\ pc = "agent" /\ pc' = IF gated THEN "park" ELSE "packet"
      /\ UNCHANGED <<approval, packet, wf, asked, dpc, dcopy, verdicts, overlapped, decisions, crashes>>
  BY DEF Propose, Goto, humans
<1>3. /\ row \in Action /\ row.status = (IF gated THEN "proposed" ELSE "approved")
      /\ row.gated = gated /\ row.approval = None
  BY DEF Action, ActionStatus, Verdict
<1> HIDE DEF row
<1>4. /\ action' \in [Ids -> Action] /\ action'[i] = row
      /\ \A j \in Ids : j # i => action'[j] = action[j]
  BY <1>1, <1>3 DEF GateInv, TypeOK
<1>5. \A p \in Approvals : approval[p].action # i
  BY <1>1 DEF GateInv, TablesOK, TypeOK, Approval, None, Ids
<1>6. i # None
  BY DEF None, Ids
<1>a. \A p \in Approvals : approval[p].action # None => approval[p].action \in Ids
  BY DEF GateInv, TypeOK, Approval
<1>7. TypeOK'
  BY <1>1, <1>2, <1>4 DEF GateInv, TypeOK
<1>8. RunOK'
  BY <1>1, <1>2, <1>3, <1>4, <1>6 DEF GateInv, RunOK
<1>9. TablesOK' /\ DecidersOK' /\ PacketIsTrue'
  BY <1>1, <1>2, <1>3, <1>4, <1>5, <1>a DEF GateInv, TablesOK, DecidersOK, PacketIsTrue
<1>10. DecidedByHuman'
  BY <1>1, <1>2, <1>3, <1>4 DEF GateInv, DecidedByHuman, Verdict
<1>11. AskedOnce'
  BY <1>1, <1>2, <1>3, <1>4, <1>5 DEF GateInv, AskedOnce
<1>12. CopiesTrue' /\ DecisionReachesAction'
  BY <1>1, <1>2, <1>4, <1>5, <1>a DEF GateInv, CopiesTrue, DecisionReachesAction
<1> QED BY <1>7, <1>8, <1>9, <1>10, <1>11, <1>12 DEF GateInv

(* A new row of an approval: nobody has said anything of it.                *)
LEMMA AskKeeps ==
  ASSUME GateInv, Ask PROVE GateInv'
<1> DEFINE row == [status |-> "open", action |-> cur]
<1>1. PICK p \in Approvals : /\ approval[p].status = "absent" /\ asked' = p
                             /\ approval' = [approval EXCEPT ![p] = row]
  BY DEF Ask, IsNewApproval
<1>2. /\ pc = "ask" /\ pc' = IF cur = None THEN "agent" ELSE "link"
      /\ UNCHANGED <<action, packet, wf, cur, dpc, dcopy, verdicts, overlapped, decisions, crashes>>
  BY DEF Ask, Goto, humans
<1>3. row \in Approval /\ row.status = "open" /\ row.action = cur
  BY DEF GateInv, TypeOK, Approval, ApprovalStatus
<1> HIDE DEF row
<1>4. /\ approval' \in [Approvals -> Approval] /\ approval'[p] = row
      /\ \A q \in Approvals : q # p => approval'[q] = approval[q]
  BY <1>1, <1>3 DEF GateInv, TypeOK
<1>5. /\ approval[p].action = None /\ verdicts[p] = {}
      /\ \A d \in Deciders : dcopy[d].id # p
  BY <1>1 DEF GateInv, TablesOK, DecidersOK, None, Approvals
<1>6. /\ p # None /\ None \notin Ids
      /\ \A i \in Ids : action[i].approval # None => action[i].approval \in Approvals
      /\ \A i \in Ids : packet[i].approval # None => packet[i].approval \in Approvals
      /\ \A d \in Deciders : dcopy[d].id # None => dcopy[d].id \in Approvals
  BY DEF GateInv, TypeOK, Action, Packet, None, Ids, Approvals
<1>7. TypeOK'
  BY <1>1, <1>2, <1>4 DEF GateInv, TypeOK
<1>8. RunOK'
  BY <1>1, <1>2, <1>3, <1>4, <1>6 DEF GateInv, RunOK
<1>9. TablesOK'
  BY <1>1, <1>2, <1>3, <1>4, <1>5, <1>6 DEF GateInv, TablesOK, RunOK
<1>10. DecidersOK' /\ PacketIsTrue'
  BY <1>1, <1>2, <1>3, <1>4, <1>5, <1>6 DEF GateInv, DecidersOK, PacketIsTrue
<1>11. DecidedByHuman'
  BY <1>1, <1>2, <1>4, <1>5, <1>6 DEF GateInv, DecidedByHuman
<1>12. AskedOnce'
  BY <1>1, <1>2, <1>3, <1>4, <1>5, <1>6 DEF GateInv, AskedOnce, RunOK
<1>13. CopiesTrue' /\ DecisionReachesAction'
  BY <1>1, <1>2, <1>4, <1>5, <1>6 DEF GateInv, CopiesTrue, DecisionReachesAction
<1> QED BY <1>7, <1>8, <1>9, <1>10, <1>11, <1>12, <1>13 DEF GateInv

(* The approval is linked: the status of the action is not written.         *)
LEMMA LinkKeeps ==
  ASSUME GateInv, Link PROVE GateInv'
<1>1. /\ pc = "link" /\ pc' = "packet" /\ action' = [action EXCEPT ![cur].approval = asked]
      /\ UNCHANGED <<approval, packet, wf, cur, asked, dpc, dcopy, verdicts, overlapped, decisions, crashes>>
  BY DEF Link, Goto, humans
<1>2. /\ cur \in Ids /\ cur # None /\ asked \in Approvals /\ asked # None
      /\ approval[asked].action = cur /\ action[cur].gated
      /\ action \in [Ids -> Action]
  BY <1>1 DEF GateInv, TypeOK, RunOK
<1>3. /\ action' \in [Ids -> Action]
      /\ \A i \in Ids : action'[i].status = action[i].status /\ action'[i].gated = action[i].gated
      /\ action'[cur].approval = asked
      /\ \A i \in Ids : i # cur => action'[i].approval = action[i].approval
  BY <1>1, <1>2 DEF Action
<1>4. \A p \in Approvals : approval[p].action # None => approval[p].action \in Ids
  BY DEF GateInv, TypeOK, Approval
<1>5. TypeOK'
  BY <1>1, <1>3 DEF GateInv, TypeOK
<1>6. RunOK'
  BY <1>1, <1>2, <1>3 DEF GateInv, RunOK
<1>7. TablesOK' /\ DecidersOK' /\ PacketIsTrue'
  BY <1>1, <1>2, <1>3, <1>4 DEF GateInv, TablesOK, DecidersOK, PacketIsTrue
<1>8. DecidedByHuman' /\ AskedOnce'
  BY <1>1, <1>3 DEF GateInv, DecidedByHuman, AskedOnce
<1>9. CopiesTrue' /\ DecisionReachesAction'
  BY <1>1, <1>3, <1>4 DEF GateInv, CopiesTrue, DecisionReachesAction
<1> QED BY <1>5, <1>6, <1>7, <1>8, <1>9 DEF GateInv

LEMMA RecordPacketKeeps ==
  ASSUME GateInv, RecordPacket PROVE GateInv'
<1> DEFINE new == [status |-> IF action[cur].gated THEN "waiting_for_approval" ELSE "approved_to_execute",
                   approval |-> action[cur].approval]
<1>1. /\ pc = "packet" /\ pc' = "agent" /\ cur' = None /\ packet' = [packet EXCEPT ![cur] = new]
      /\ UNCHANGED <<action, approval, wf, asked, dpc, dcopy, verdicts, overlapped, decisions, crashes>>
  BY DEF RecordPacket, Goto, humans
<1>2. /\ cur \in Ids /\ action[cur].status # "absent" /\ action[cur] \in Action
      /\ action[cur].gated => action[cur].approval # None /\ approval[action[cur].approval].action = cur
      /\ ~action[cur].gated => action[cur].approval = None
  BY <1>1 DEF GateInv, TypeOK, RunOK, TablesOK
<1>3. /\ new \in Packet
      /\ new.status = (IF action[cur].gated THEN "waiting_for_approval" ELSE "approved_to_execute")
      /\ new.approval = action[cur].approval
  BY <1>2 DEF Packet, Action
<1> HIDE DEF new
<1>4. /\ packet' \in [Ids -> Packet] /\ packet'[cur] = new
      /\ \A i \in Ids : i # cur => packet'[i] = packet[i]
  BY <1>1, <1>2, <1>3 DEF GateInv, TypeOK
<1>5. TypeOK'
  BY <1>1, <1>4 DEF GateInv, TypeOK
<1>6. RunOK' /\ DecidersOK'
  BY <1>1 DEF GateInv, RunOK, DecidersOK
<1>7. TablesOK' /\ PacketIsTrue'
  BY <1>1, <1>2, <1>3, <1>4 DEF GateInv, TablesOK, PacketIsTrue
<1>8. DecidedByHuman' /\ AskedOnce'
  BY <1>1 DEF GateInv, DecidedByHuman, AskedOnce
<1>9. CopiesTrue' /\ DecisionReachesAction'
  BY <1>1 DEF GateInv, CopiesTrue, DecisionReachesAction
<1> QED BY <1>5, <1>6, <1>7, <1>8, <1>9 DEF GateInv

(* What a decider loads is on file, and true as long as it is alone.        *)
LEMMA OpenKeeps ==
  ASSUME GateInv, NEW d \in Deciders, NEW p \in Approvals, Open(d, p) PROVE GateInv'
<1> DEFINE c == [id |-> p, status |-> approval[p].status]
<1>1. /\ dpc[d] = "idle" /\ approval[p].status # "absent"
      /\ dpc' = [dpc EXCEPT ![d] = "decide"] /\ dcopy' = [dcopy EXCEPT ![d] = c]
      /\ overlapped' = (overlapped \/ \E e \in Deciders : dcopy[e].id = p)
      /\ decisions < DecideBudget /\ decisions' = decisions + 1
      /\ UNCHANGED <<action, approval, packet, wf, pc, cur, asked, verdicts, crashes>>
  BY DEF Open, run
<1>2. c.id = p /\ c.status = approval[p].status /\ p # None
      /\ c \in [id : Approvals \cup {None}, status : ApprovalStatus]
  BY DEF GateInv, TypeOK, Approval, None, Approvals
<1> HIDE DEF c
<1>3. /\ dpc' \in [Deciders -> {"idle", "decide", "sync"}]
      /\ dcopy' \in [Deciders -> [id : Approvals \cup {None}, status : ApprovalStatus]]
      /\ dpc'[d] = "decide" /\ dcopy'[d] = c
      /\ \A e \in Deciders : e # d => dpc'[e] = dpc[e] /\ dcopy'[e] = dcopy[e]
  BY <1>1, <1>2 DEF GateInv, TypeOK
<1>4. TypeOK'
  <2>1. decisions' \in 0..DecideBudget /\ overlapped' \in BOOLEAN
    BY <1>1, ConstantsOK DEF GateInv, TypeOK
  <2> QED BY <1>1, <1>3, <2>1 DEF GateInv, TypeOK
<1>5. RunOK' /\ TablesOK' /\ PacketIsTrue' /\ DecidedByHuman' /\ AskedOnce'
  BY <1>1 DEF GateInv, RunOK, TablesOK, PacketIsTrue, DecidedByHuman, AskedOnce
<1>6. DecidersOK'
  BY <1>1, <1>2, <1>3 DEF GateInv, DecidersOK
<1>7. CopiesTrue'
  BY <1>1, <1>2, <1>3 DEF GateInv, CopiesTrue
<1>8. DecisionReachesAction'
  <2>1. dcopy[d].id = None /\ \A q \in Approvals : q # None
    BY <1>1 DEF GateInv, DecidersOK, None, Approvals
  <2> SUFFICES ASSUME crashes = 0, ~overlapped', NEW q \in Approvals,
                      approval[q].action # None, verdicts[q] # {}
               PROVE  \/ \E e \in Deciders : dcopy'[e].id = q
                      \/ action[approval[q].action].status = approval[q].status
    BY <1>1 DEF DecisionReachesAction
  <2>2. \/ \E e \in Deciders : dcopy[e].id = q
        \/ action[approval[q].action].status = approval[q].status
    BY <1>1 DEF GateInv, DecisionReachesAction
  <2> QED BY <1>3, <2>1, <2>2
<1> QED BY <1>4, <1>5, <1>6, <1>7, <1>8 DEF GateInv

(* A verdict is written, or left out because the copy already says so.      *)
LEMMA DecideKeeps ==
  ASSUME GateInv, NEW d \in Deciders, NEW v \in Verdict, Decide(d, v) PROVE GateInv'
<1> DEFINE p == dcopy[d].id
<1>1. /\ dpc[d] = "decide" /\ dpc' = [dpc EXCEPT ![d] = "sync"] /\ dcopy' = [dcopy EXCEPT ![d].status = v]
      /\ approval' = IF v = dcopy[d].status THEN approval ELSE [approval EXCEPT ![p].status = v]
      /\ verdicts' = [verdicts EXCEPT ![p] = @ \cup {v}]
      /\ UNCHANGED <<action, packet, wf, pc, cur, asked, overlapped, decisions, crashes>>
  BY DEF Decide, run
<1>2. /\ p \in Approvals /\ p # None /\ approval[p].status # "absent" /\ v # "absent" /\ v \in ApprovalStatus
      /\ approval \in [Approvals -> Approval] /\ verdicts \in [Approvals -> SUBSET Verdict]
      /\ dcopy \in [Deciders -> [id : Approvals \cup {None}, status : ApprovalStatus]]
      /\ dpc \in [Deciders -> {"idle", "decide", "sync"}]
  BY <1>1 DEF GateInv, TypeOK, DecidersOK, Verdict, ApprovalStatus
<1>3. /\ dpc' \in [Deciders -> {"idle", "decide", "sync"}] /\ dpc'[d] = "sync"
      /\ dcopy' \in [Deciders -> [id : Approvals \cup {None}, status : ApprovalStatus]]
      /\ dcopy'[d].id = p /\ dcopy'[d].status = v
      /\ \A e \in Deciders : e # d => dpc'[e] = dpc[e] /\ dcopy'[e] = dcopy[e]
      /\ \A e \in Deciders : dcopy'[e].id = dcopy[e].id
  BY <1>1, <1>2
<1>4. /\ verdicts' \in [Approvals -> SUBSET Verdict] /\ v \in verdicts'[p]
      /\ \A q \in Approvals : verdicts[q] \subseteq verdicts'[q]
      /\ \A q \in Approvals : q # p => verdicts'[q] = verdicts[q]
  BY <1>1, <1>2
<1> HIDE DEF p
<1>5. /\ approval' \in [Approvals -> Approval]
      /\ \A q \in Approvals : approval'[q].action = approval[q].action
      /\ \A q \in Approvals : q # p => approval'[q] = approval[q]
      /\ approval'[p].status = v \/ approval'[p].status = approval[p].status
      /\ v = dcopy[d].status \/ approval'[p].status = v
  BY <1>1, <1>2 DEF Approval
<1>6. TypeOK'
  BY <1>1, <1>3, <1>4, <1>5 DEF GateInv, TypeOK
<1>7. RunOK' /\ PacketIsTrue' /\ AskedOnce'
  <2>1. /\ \A i \in Ids : packet[i].approval # None => packet[i].approval \in Approvals
        /\ asked # None => asked \in Approvals
    BY DEF GateInv, TypeOK, Packet
  <2> QED BY <1>1, <1>5, <2>1 DEF GateInv, RunOK, PacketIsTrue, AskedOnce
<1>8. TablesOK'
  <2>1. \A i \in Ids : action[i].approval # None => action[i].approval \in Approvals
    BY DEF GateInv, TypeOK, Action
  <2> QED BY <1>1, <1>2, <1>4, <1>5, <2>1 DEF GateInv, TablesOK
<1>9. DecidersOK'
  <2>1. \A e \in Deciders : dcopy[e].id # None => dcopy[e].id \in Approvals
    BY <1>2
  <2> QED BY <1>1, <1>2, <1>3, <1>4, <1>5, <2>1 DEF GateInv, DecidersOK
<1>10. DecidedByHuman'
  BY <1>1, <1>4, <1>5 DEF GateInv, DecidedByHuman
<1>11. CopiesTrue'
  <2>1. \A e \in Deciders : dcopy[e].id # None => dcopy[e].id \in Approvals
    BY <1>2
  <2> QED BY <1>1, <1>2, <1>3, <1>5, <2>1 DEF GateInv, CopiesTrue, p
<1>12. DecisionReachesAction'
  BY <1>1, <1>2, <1>3, <1>4, <1>5 DEF GateInv, DecisionReachesAction
<1> QED BY <1>6, <1>7, <1>8, <1>9, <1>10, <1>11, <1>12 DEF GateInv

(* The verdict is copied to the action the approval names.                  *)
LEMMA SyncKeeps ==
  ASSUME GateInv, NEW d \in Deciders, Sync(d) PROVE GateInv'
<1> DEFINE p == dcopy[d].id
           v == dcopy[d].status
           i == approval[p].action
<1>1. /\ dpc[d] = "sync" /\ dpc' = [dpc EXCEPT ![d] = "idle"] /\ dcopy' = [dcopy EXCEPT ![d] = NothingLoaded]
      /\ action' = IF i = None THEN action ELSE [action EXCEPT ![i].status = v]
      /\ UNCHANGED <<approval, packet, wf, pc, cur, asked, verdicts, overlapped, decisions, crashes>>
  BY DEF Sync, run
<1>2. /\ p \in Approvals /\ p # None /\ v \in verdicts[p] /\ v \in Verdict /\ i \in Ids \cup {None}
      /\ i # None => action[i].gated
      /\ action \in [Ids -> Action]
      /\ dcopy \in [Deciders -> [id : Approvals \cup {None}, status : ApprovalStatus]]
      /\ dpc \in [Deciders -> {"idle", "decide", "sync"}]
  BY <1>1 DEF GateInv, TypeOK, DecidersOK, Approval, TablesOK
<1>3. /\ dpc' \in [Deciders -> {"idle", "decide", "sync"}] /\ dpc'[d] = "idle"
      /\ dcopy' \in [Deciders -> [id : Approvals \cup {None}, status : ApprovalStatus]]
      /\ dcopy'[d].id = None
      /\ \A e \in Deciders : e # d => dpc'[e] = dpc[e] /\ dcopy'[e] = dcopy[e]
  BY <1>1, <1>2 DEF NothingLoaded, ApprovalStatus
<1>a. ~overlapped => /\ v = approval[p].status
                     /\ \A e \in Deciders : e # d => dcopy[e].id # p
  BY <1>2 DEF GateInv, CopiesTrue
<1> HIDE DEF p, v, i
<1>4. /\ action' \in [Ids -> Action]
      /\ \A j \in Ids : action'[j].gated = action[j].gated /\ action'[j].approval = action[j].approval
      /\ \A j \in Ids : j # i => action'[j] = action[j]
      /\ i # None => i \in Ids /\ action'[i].status = v
  BY <1>1, <1>2 DEF Action, ActionStatus
<1>5. v # "absent" /\ \A j \in Ids : action'[j].status = "absent" => action[j].status = "absent"
  BY <1>2, <1>4 DEF Verdict, None, Ids
<1>6. TypeOK'
  BY <1>1, <1>3, <1>4 DEF GateInv, TypeOK
<1>7. RunOK' /\ PacketIsTrue' /\ AskedOnce'
  <2>1. cur # None => cur \in Ids
    BY DEF GateInv, TypeOK
  <2>2. RunOK'
    <3>1. pc = "packet" => cur # None
      BY DEF GateInv, RunOK
    <3> QED BY <1>1, <1>4, <1>5, <2>1, <3>1 DEF GateInv, RunOK
  <2> QED BY <1>1, <1>4, <2>2 DEF GateInv, PacketIsTrue, AskedOnce
<1>8. TablesOK'
  <2>1. \A q \in Approvals : approval[q].action # None => approval[q].action \in Ids
    BY DEF GateInv, TypeOK, Approval
  <2> QED BY <1>1, <1>4, <1>5, <2>1 DEF GateInv, TablesOK
<1>9. DecidersOK'
  BY <1>1, <1>3 DEF GateInv, DecidersOK
<1>10. DecidedByHuman'
  <2>1. i # None => approval[p].action = i
    BY DEF i
  <2> QED BY <1>1, <1>2, <1>4, <2>1 DEF GateInv, DecidedByHuman
<1>11. CopiesTrue'
  BY <1>1, <1>3 DEF GateInv, CopiesTrue
<1>12. DecisionReachesAction'
  <2> SUFFICES ASSUME crashes = 0, ~overlapped, NEW q \in Approvals,
                      approval[q].action # None, verdicts[q] # {}
               PROVE  \/ \E e \in Deciders : dcopy'[e].id = q
                      \/ action'[approval[q].action].status = approval[q].status
    BY <1>1 DEF DecisionReachesAction
  <2>1. CASE q = p
    BY <1>2, <1>4, <1>a, <2>1 DEF i
  <2>2. CASE q # p
    <3>1. \/ \E e \in Deciders : dcopy[e].id = q
          \/ action[approval[q].action].status = approval[q].status
      BY DEF GateInv, DecisionReachesAction
    <3>2. dcopy[d].id # q
      BY <2>2 DEF p
    <3>3. approval[q].action # i /\ approval[q].action \in Ids
      BY <1>2, <2>2 DEF GateInv, AskedOnce, i, TypeOK, Approval
    <3> QED BY <1>3, <1>4, <3>1, <3>2, <3>3
  <2> QED BY <2>1, <2>2
<1> QED BY <1>6, <1>7, <1>8, <1>9, <1>10, <1>11, <1>12 DEF GateInv

(* A decider's session is lost: from then on nothing is promised of the     *)
(* decisions' arrival.                                                      *)
LEMMA CrashDeciderKeeps ==
  ASSUME GateInv, NEW d \in Deciders, CrashDecider(d) PROVE GateInv'
<1>1. /\ dpc' = [dpc EXCEPT ![d] = "idle"] /\ dcopy' = [dcopy EXCEPT ![d] = NothingLoaded]
      /\ crashes < CrashBudget /\ crashes' = crashes + 1
      /\ UNCHANGED <<action, approval, packet, wf, pc, cur, asked, verdicts, overlapped, decisions>>
  BY DEF CrashDecider, run
<1>2. /\ dpc' \in [Deciders -> {"idle", "decide", "sync"}] /\ dpc'[d] = "idle"
      /\ dcopy' \in [Deciders -> [id : Approvals \cup {None}, status : ApprovalStatus]]
      /\ dcopy'[d].id = None
      /\ \A e \in Deciders : e # d => dpc'[e] = dpc[e] /\ dcopy'[e] = dcopy[e]
  BY <1>1 DEF GateInv, TypeOK, NothingLoaded, ApprovalStatus
<1>3. crashes' \in 0..CrashBudget /\ crashes' # 0
  BY <1>1, ConstantsOK DEF GateInv, TypeOK
<1>4. TypeOK'
  BY <1>1, <1>2, <1>3 DEF GateInv, TypeOK
<1>5. RunOK' /\ TablesOK' /\ PacketIsTrue' /\ DecidedByHuman'
  BY <1>1 DEF GateInv, RunOK, TablesOK, PacketIsTrue, DecidedByHuman
<1>6. DecidersOK'
  BY <1>1, <1>2 DEF GateInv, DecidersOK
<1>7. CopiesTrue'
  BY <1>1, <1>2 DEF GateInv, CopiesTrue
<1> QED BY <1>3, <1>4, <1>5, <1>6, <1>7 DEF GateInv, AskedOnce, DecisionReachesAction

LEMMA GateInvNext == GateInv /\ [Next]_vars => GateInv'
<1> SUFFICES ASSUME GateInv, [Next]_vars PROVE GateInv'
  OBVIOUS
<1>0. /\ pc \in {"idle", "agent", "park", "ask", "link", "packet"}
      /\ wf \in Workflow /\ wf.attempts \in 0..MaxAttempts
      /\ wf.status = "pending" => wf.attempts < MaxAttempts
      /\ pc \in {"idle", "agent"} => cur = None
      /\ crashes \in 0..CrashBudget
  BY DEF GateInv, TypeOK, RunOK, Workflow
<1>1. CASE Start
  <2>1. wf' \in Workflow /\ wf'.status = "running"
    BY <1>0, <1>1, ConstantsOK DEF Start, Workflow
  <2> QED BY <1>0, <1>1, <2>1, RunMovesOn DEF Start, Goto
<1>2. CASE Park \/ ParkPlain
  <2>1. wf' \in Workflow /\ wf'.status = "waiting_for_human"
    BY <1>0, <1>2 DEF Park, ParkPlain, Workflow
  <2> QED BY <1>0, <1>2, <2>1, RunMovesOn DEF Park, ParkPlain, Goto
<1>3. CASE Raise
  <2>1. wf' \in Workflow /\ (wf'.status = "pending" => wf'.attempts < MaxAttempts)
    BY <1>0, <1>3 DEF Raise, Workflow
  <2> QED BY <1>0, <1>3, <2>1, RunMovesOn DEF Raise
<1>4. CASE Finish
  <2>1. wf' \in Workflow /\ wf'.status # "pending"
    BY <1>0, <1>4 DEF Finish, Workflow
  <2> QED BY <1>0, <1>4, <2>1, RunMovesOn DEF Finish, Goto
<1>5. CASE CrashRun
  <2>1. crashes' \in 0..CrashBudget /\ crashes' # 0
    BY <1>0, <1>5, ConstantsOK DEF CrashRun
  <2> QED BY <1>0, <1>5, <2>1, RunMovesOn DEF CrashRun
<1>6. CASE UNCHANGED vars
  <2>1. TypeOK' /\ RunOK' /\ TablesOK' /\ DecidersOK'
    BY <1>6 DEF GateInv, vars, TypeOK, RunOK, TablesOK, DecidersOK
  <2>2. PacketIsTrue' /\ DecidedByHuman' /\ AskedOnce' /\ CopiesTrue' /\ DecisionReachesAction'
    BY <1>6 DEF GateInv, vars, PacketIsTrue, DecidedByHuman, AskedOnce, CopiesTrue, DecisionReachesAction
  <2> QED BY <2>1, <2>2 DEF GateInv
<1> QED BY <1>1, <1>2, <1>3, <1>4, <1>5, <1>6, ProposeKeeps, AskKeeps, LinkKeeps, RecordPacketKeeps,
           OpenKeeps, DecideKeeps, SyncKeeps, CrashDeciderKeeps DEF Next, RunStep, DecideStep

LEMMA GateInvAlways == Spec => []GateInv
BY GateInvInit, GateInvNext, PTL DEF Spec

(***************************************************************************)
(* The theorems                                                            *)
(***************************************************************************)

(* The rows of the gate have their types, and no workflow is tried more     *)
(* often than it may be.                                                    *)
THEOREM GateTypes == Spec => []TypeOK
BY GateInvAlways, PTL DEF GateInv

(* No retry, crash or decision in the middle of a proposal makes an action  *)
(* that needs approval "approved" without a human who approved an approval  *)
(* that names it.                                                           *)
THEOREM NothingApprovesItself == Spec => []ApprovedByHuman
<1>1. GateInv => ApprovedByHuman
  BY DEF GateInv, DecidedByHuman, ApprovedByHuman, Verdict
<1> QED BY <1>1, GateInvAlways, PTL

(* request_external_action asks for every action that needs approval, and   *)
(* once, as long as no session is lost.                                     *)
THEOREM EachIsAskedOnce == Spec => []GatedIsAsked
<1>1. GateInv => GatedIsAsked
  <2> SUFFICES ASSUME GateInv, crashes = 0, NEW i \in Ids, action[i].gated,
                      ~(cur = i /\ pc \in {"park", "ask"})
               PROVE  Cardinality({p \in Approvals : approval[p].action = i}) = 1
    BY DEF GatedIsAsked
  <2>1. PICK p \in Approvals : approval[p].action = i
    BY DEF GateInv, AskedOnce
  <2>2. {q \in Approvals : approval[q].action = i} = {p}
    BY <2>1 DEF GateInv, AskedOnce, None, Ids
  <2> QED BY <2>2, FS_Singleton
<1> QED BY <1>1, GateInvAlways, PTL

(* sync_external_action_decision brings every decision to the action it is  *)
(* about, be it taken before the proposal is complete or taken again, as    *)
(* long as no session is lost and no two decisions of it overlap.           *)
THEOREM DecisionsArrive == Spec => []DecisionReachesAction
BY GateInvAlways, PTL DEF GateInv

(* What record_external_action_packet writes is true and stays true.        *)
THEOREM PacketsAreTrue == Spec => []PacketIsTrue
BY GateInvAlways, PTL DEF GateInv

(* No step of a proposal, which commits columns of a row it loaded before   *)
(* the decision, undoes a decision.                                         *)
THEOREM DecisionsStand == Spec => DecidedStaysDecided
<1>1. GateInv /\ [Next]_vars =>
        [\A i \in Ids : action[i].status \in Verdict => action'[i].status \in Verdict]_vars
  <2> SUFFICES ASSUME GateInv, Next, NEW i \in Ids, action[i].status \in Verdict
               PROVE  action'[i].status \in Verdict
    OBVIOUS
  <2>0. action \in [Ids -> Action]
    BY DEF GateInv, TypeOK
  <2>1. ASSUME NEW gated \in BOOLEAN, Propose(gated) PROVE action'[i] = action[i]
    BY <2>0, <2>1 DEF Propose, IsNewAction, Verdict
  <2>2. CASE Link
    BY <2>0, <2>2 DEF Link, Action
  <2>3. ASSUME NEW d \in Deciders, Sync(d) PROVE action'[i].status \in Verdict
    <3>1. dcopy[d].status \in Verdict
      BY <2>3 DEF Sync, GateInv, TypeOK, DecidersOK
    <3> QED BY <2>0, <2>3, <3>1 DEF Sync, Action
  <2>4. CASE UNCHANGED action
    BY <2>4
  <2> QED BY <2>1, <2>2, <2>3, <2>4
      DEF Next, RunStep, DecideStep, Start, Park, ParkPlain, Ask, RecordPacket, Raise, Finish, CrashRun,
          Decide, CrashDecider, Open
<1> QED BY <1>1, GateInvAlways, PTL DEF Spec, DecidedStaysDecided
=============================================================================
