------------------------- MODULE DepartmentRuntime -------------------------
(***************************************************************************)
(* One department: how it is launched, how its schedules fire, how its     *)
(* operating loop runs, and how it is paused and killed while all of that  *)
(* is going on in other sessions.                                          *)
(*                                                                         *)
(* A session keeps the Department row as it first loaded it                *)
(* (expire_on_commit=False): the scheduler's holds one object for all the  *)
(* schedules of its list, a request's loads it before it creates the       *)
(* workflow, and the operating loop asks that object, and never the table, *)
(* whether the department is active.                                       *)
(*                                                                         *)
(* One action is the code up to its next commit.  The agents of the        *)
(* department change together, so one status stands for all of them.  Of a *)
(* workflow only its being pending matters here; who runs it how often is  *)
(* the subject of WorkflowRuntime.                                         *)
(***************************************************************************)
EXTENDS Naturals

CONSTANTS
  Schedules,    \* department_schedules
  NoSchedule,   \* none of them
  DueAtOnce,    \* those whose next_run_at is the time of the launch
  Launcher,     \* the request that launches the department
  Scheduler,    \* the job process_due_department_schedules
  Pollers,      \* sessions that run pending workflows
  Requests,     \* requests to run the department
  Operators,    \* requests to pause or kill it
  DueBudget,    \* bound: how many times a schedule comes due
  PendingLimit, \* bound: how many workflows wait to be run again
  CrashBudget   \* bound: how many sessions are lost half-way

Runners == {Launcher, Scheduler} \cup Pollers \cup Requests
Actors  == Runners \cup Operators

ASSUME ConstantsOK ==
  /\ DueAtOnce \subseteq Schedules /\ NoSchedule \notin Schedules
  /\ Launcher # Scheduler
  /\ {Launcher, Scheduler} \cap (Pollers \cup Requests \cup Operators) = {}
  /\ Pollers \cap Requests = {} /\ Operators \cap Runners = {}
  /\ DueBudget \in Nat \ {0} /\ PendingLimit \in Nat /\ CrashBudget \in Nat

VARIABLES
  status,   \* departments.status
  agents,   \* agent_instances.status, the same of all agents of the department
  sched,    \* the schedules: inserted, enabled, next_run_at passed
  pending,  \* how many workflows of this department are pending and in no hand
  pc,       \* what each actor commits next
  copy,     \* the department's status as the actor's session has it
  todo,     \* the schedules the scheduler's session has still to fire
  firing,   \* the schedule it is firing
  dues,     \* history: how often each schedule came due
  fired,    \* history: how often a workflow was created for it
  crashes   \* how many sessions were lost half-way

table == <<status, agents, sched, pending>>
vars  == <<status, agents, sched, pending, pc, copy, todo, firing, dues, fired, crashes>>

Stopped  == {"paused", "killed"}
NotThere == "absent"

Init ==
  /\ status = NotThere /\ agents = NotThere
  /\ sched = [s \in Schedules |-> [there |-> FALSE, enabled |-> FALSE, due |-> FALSE]]
  /\ pending = 0
  /\ pc = [a \in Actors |-> "idle"]
  /\ copy = [a \in Actors |-> NotThere]
  /\ todo = {} /\ firing = NoSchedule
  /\ dues = [s \in Schedules |-> 0] /\ fired = [s \in Schedules |-> 0]
  /\ crashes = 0

Goto(a, from, to) == pc[a] = from /\ pc' = [pc EXCEPT ![a] = to]

(* The loop is left: the scheduler goes on with its list, anyone else       *)
(* closes the session.                                                      *)
LeaveLoop(r) ==
  /\ pc' = [pc EXCEPT ![r] = IF r = Scheduler THEN "fire" ELSE "idle"]
  /\ copy' = IF r = Scheduler THEN copy ELSE [copy EXCEPT ![r] = NotThere]
  /\ firing' = IF r = Scheduler THEN NoSchedule ELSE firing

(* session.get(Department): the object the session has, or a fresh load. *)
Loaded(a) == IF copy[a] = NotThere THEN status ELSE copy[a]

(* Bugs these steps could have: whole rows written back where a column has  *)
(* changed, the new time of a schedule not written, the check of the status *)
(* or a stop of the agents forgotten.                                       *)
EndLoopWholeRow(r) ==
  /\ pc[r] = "work"
  /\ \E s \in {"idle", "waiting_for_approval"} : agents' = s
  /\ status' = copy[r]
  /\ LeaveLoop(r)
  /\ UNCHANGED <<sched, pending, todo, dues, fired, crashes>>

RescheduleWholeRow ==
  /\ Goto(Scheduler, "reschedule", "created")
  /\ sched' = [sched EXCEPT ![firing] = [there |-> TRUE, enabled |-> TRUE, due |-> FALSE]]
  /\ UNCHANGED <<status, agents, pending, copy, todo, firing, dues, fired, crashes>>

RescheduleForgotten ==
  /\ Goto(Scheduler, "reschedule", "created")
  /\ UNCHANGED <<table, copy, todo, firing, dues, fired, crashes>>

BeginUnchecked(r) ==
  /\ Goto(r, "begin", "work")
  /\ agents' = IF agents = NotThere THEN agents ELSE "running"
  /\ UNCHANGED <<status, sched, pending, copy, todo, firing, dues, fired, crashes>>

(***************************************************************************)
(* launch_from_description: the row, visible at once, then the agents, then *)
(* all schedules in one commit, then the first run.                        *)
(***************************************************************************)
Launch ==
  /\ status = NotThere
  /\ Goto(Launcher, "idle", "spawn")
  /\ status' = "active"
  /\ copy' = [copy EXCEPT ![Launcher] = "active"]
  /\ UNCHANGED <<agents, sched, pending, todo, firing, dues, fired, crashes>>

SpawnAgents ==
  /\ Goto(Launcher, "spawn", "plan")
  /\ agents' = "idle"
  /\ UNCHANGED <<status, sched, pending, copy, todo, firing, dues, fired, crashes>>

AddSchedules ==
  /\ Goto(Launcher, "plan", "request")
  /\ sched' = [s \in Schedules |-> [there |-> TRUE, enabled |-> TRUE, due |-> s \in DueAtOnce]]
  /\ dues' = [s \in Schedules |-> IF s \in DueAtOnce THEN 1 ELSE 0]
  /\ UNCHANGED <<status, agents, pending, copy, todo, firing, fired, crashes>>

(* WorkflowService.create for the first run (run_immediately), or none. *)
CreateFirstRun ==
  /\ Goto(Launcher, "request", "created")
  /\ UNCHANGED <<table, copy, todo, firing, dues, fired, crashes>>

LaunchOnly ==
  /\ Goto(Launcher, "request", "idle")
  /\ copy' = [copy EXCEPT ![Launcher] = NotThere]
  /\ UNCHANGED <<table, todo, firing, dues, fired, crashes>>

(***************************************************************************)
(* Where runs come from                                                    *)
(***************************************************************************)

(* A request to run the department: loads it, whatever its status, and     *)
(* creates the workflow.                                                   *)
RequestRun(q) ==
  /\ q \in Requests /\ status # NotThere
  /\ Goto(q, "idle", "created")
  /\ copy' = [copy EXCEPT ![q] = status]
  /\ UNCHANGED <<table, todo, firing, dues, fired, crashes>>

(* A poller takes a pending workflow. *)
TakePending(p) ==
  /\ p \in Pollers /\ pending > 0
  /\ Goto(p, "idle", "created")
  /\ pending' = pending - 1
  /\ UNCHANGED <<status, agents, sched, copy, todo, firing, dues, fired, crashes>>

(* Time passes: next_run_at is over. *)
ComesDue(s) ==
  /\ sched[s].there /\ ~sched[s].due /\ dues[s] < DueBudget
  /\ sched' = [sched EXCEPT ![s].due = TRUE]
  /\ dues' = [dues EXCEPT ![s] = @ + 1]
  /\ UNCHANGED <<status, agents, pending, pc, copy, todo, firing, fired, crashes>>

(* process_due_department_schedules: the query, which joins the department. *)
FindDue ==
  /\ Goto(Scheduler, "idle", "fire")
  /\ todo' = {s \in Schedules : sched[s].there /\ sched[s].enabled /\ sched[s].due /\ status = "active"}
  /\ todo' # {}
  /\ UNCHANGED <<table, copy, firing, dues, fired, crashes>>

(* The next schedule of the list: its workflow is created ... *)
Fire(s) ==
  /\ s \in todo
  /\ Goto(Scheduler, "fire", "reschedule")
  /\ todo' = todo \ {s} /\ firing' = s
  /\ copy' = [copy EXCEPT ![Scheduler] = Loaded(Scheduler)]
  /\ fired' = [fired EXCEPT ![s] = @ + 1]
  /\ UNCHANGED <<table, dues, crashes>>

(* ... and only then its next_run_at is committed: those columns alone. *)
Reschedule ==
  /\ Goto(Scheduler, "reschedule", "created")
  /\ sched' = [sched EXCEPT ![firing].due = FALSE]
  /\ UNCHANGED <<status, agents, pending, copy, todo, firing, dues, fired, crashes>>

ListDone ==
  /\ todo = {}
  /\ Goto(Scheduler, "fire", "idle")
  /\ copy' = [copy EXCEPT ![Scheduler] = NotThere]
  /\ UNCHANGED <<table, todo, firing, dues, fired, crashes>>

(***************************************************************************)
(* The operating loop, DynamicDepartmentAgent.run                          *)
(***************************************************************************)
(* mark_running, then session.get(Department). *)
MarkRunning(r) ==
  /\ Goto(r, "created", "begin")
  /\ copy' = [copy EXCEPT ![r] = Loaded(r)]
  /\ UNCHANGED <<table, todo, firing, dues, fired, crashes>>

SkipLoop(r) ==
  /\ pc[r] = "begin" /\ copy[r] # "active"
  /\ LeaveLoop(r)
  /\ UNCHANGED <<table, todo, dues, fired, crashes>>

BeginLoop(r) ==
  /\ copy[r] = "active"
  /\ Goto(r, "begin", "work")
  /\ agents' = IF agents = NotThere THEN agents ELSE "running"
  /\ UNCHANGED <<status, sched, pending, copy, todo, firing, dues, fired, crashes>>

(* The output, health score and signals are written with the agents; the    *)
(* department's status is not, since the session has not changed it.        *)
EndLoop(r) ==
  /\ pc[r] = "work"
  /\ IF agents = NotThere THEN UNCHANGED agents
     ELSE \E s \in {"idle", "waiting_for_approval"} : agents' = s
  /\ LeaveLoop(r)
  /\ UNCHANGED <<status, sched, pending, todo, dues, fired, crashes>>

(* The loop raises: the agents stay as they are; the workflow is pending    *)
(* again, or it has failed for good.                                        *)
RetryLoop(r) ==
  /\ pc[r] = "work" /\ pending < PendingLimit
  /\ pending' = pending + 1
  /\ LeaveLoop(r)
  /\ UNCHANGED <<status, agents, sched, todo, dues, fired, crashes>>

FailLoop(r) ==
  /\ pc[r] = "work"
  /\ LeaveLoop(r)
  /\ UNCHANGED <<table, todo, dues, fired, crashes>>

(***************************************************************************)
(* Pause and kill, of whatever status the department has                   *)
(***************************************************************************)
LoadToStop(o) ==
  /\ o \in Operators /\ status # NotThere
  /\ Goto(o, "idle", "stop")
  /\ copy' = [copy EXCEPT ![o] = status]
  /\ UNCHANGED <<table, todo, firing, dues, fired, crashes>>

(* An UPDATE of the status only if it is not what the session has loaded. *)
Stop(o, s) ==
  /\ Goto(o, "stop", "idle")
  /\ status' = IF copy[o] = s THEN status ELSE s
  /\ agents' = IF agents = NotThere THEN agents ELSE "paused"
  /\ copy' = [copy EXCEPT ![o] = NotThere]
  /\ UNCHANGED <<pending, todo, firing, dues, fired, crashes>>

Pause(o) == Stop(o, "paused") /\ UNCHANGED sched

Kill(o) == Stop(o, "killed") /\ sched' = [s \in Schedules |-> [sched[s] EXCEPT !.enabled = FALSE]]

(* A session is lost.  A workflow it had created and not yet marked is      *)
(* pending; one that was marked stays "running".                            *)
Crash(a) ==
  /\ pc[a] # "idle" /\ crashes < CrashBudget
  /\ pending < PendingLimit
  /\ crashes' = crashes + 1
  /\ pc' = [pc EXCEPT ![a] = "idle"]
  /\ copy' = [copy EXCEPT ![a] = NotThere]
  /\ IF a = Scheduler THEN todo' = {} /\ firing' = NoSchedule ELSE UNCHANGED <<todo, firing>>
  /\ pending' = IF pc[a] \in {"created", "reschedule"} THEN pending + 1 ELSE pending
  /\ UNCHANGED <<status, agents, sched, dues, fired>>

LoopStep(r) ==
  MarkRunning(r) \/ SkipLoop(r) \/ BeginLoop(r)
  \/ EndLoop(r) \/ RetryLoop(r) \/ FailLoop(r)

LaunchStep   == SpawnAgents \/ AddSchedules \/ CreateFirstRun \/ LaunchOnly
ScheduleStep == FindDue \/ (\E s \in Schedules : Fire(s)) \/ Reschedule \/ ListDone

Next ==
  \/ Launch \/ LaunchStep \/ ScheduleStep
  \/ \E r \in Runners : LoopStep(r)
  \/ \E q \in Requests : RequestRun(q)
  \/ \E p \in Pollers : TakePending(p)
  \/ \E o \in Operators : LoadToStop(o) \/ Pause(o) \/ Kill(o)
  \/ \E s \in Schedules : ComesDue(s)
  \/ \E a \in Actors : Crash(a)

Spec == Init /\ [][Next]_vars

(* What has begun goes on, and the job fires for ever; nobody has to send a *)
(* request and no time has to pass.                                         *)
FairSpec ==
  /\ Spec
  /\ WF_vars(LaunchStep) /\ WF_vars(ScheduleStep)
  /\ \A r \in Runners : WF_vars(LoopStep(r))
  /\ \A p \in Pollers : WF_vars(TakePending(p))

(***************************************************************************)
(* Properties                                                              *)
(***************************************************************************)

(* While no session is lost, a schedule fires exactly once each time it     *)
(* comes due: no firing is lost and none is repeated, whatever requests,    *)
(* pauses and kills happen meanwhile.                                       *)
FiresOncePerDue ==
  crashes = 0 =>
    \A s \in Schedules :
      LET owed == IF sched[s].due /\ ~(firing = s /\ pc[Scheduler] = "reschedule") THEN 1 ELSE 0
      IN  fired[s] + owed = dues[s]

(* A stopped department is never active again: the loops, which commit the  *)
(* Department object long after they loaded it, do not undo a pause or kill.*)
StoppedStaysStopped == [][(status \in Stopped) => (status' \in Stopped)]_vars

(* A schedule that a kill has disabled stays disabled, also when the kill   *)
(* comes between the scheduler's query and its commit of the next time.     *)
DisabledStaysDisabled ==
  [][\A s \in Schedules : sched[s].there /\ ~sched[s].enabled => ~sched'[s].enabled]_vars

(* After a pause or kill the department comes to rest for good: sessions    *)
(* that saw it active finish, no schedule fires and no loop works any more, *)
(* though requests, retries and crashes go on.                              *)
AtRest ==
  /\ \A r \in Runners : pc[r] # "work"
  /\ pc[Scheduler] # "reschedule"

StoppedComesToRest == (status \in Stopped) ~> [](AtRest)

(* A department that is stopped has its agents stopped, once nobody is at   *)
(* work on it any more: none of them is running or waiting for an approval  *)
(* (docs/SECURITY.md: "which disables scheduled work and stops agents").    *)
StoppedAgentsAreStopped ==
  status \in Stopped /\ (\A a \in Actors : pc[a] = "idle") =>
    agents \notin {"running", "waiting_for_approval"}
=============================================================================
