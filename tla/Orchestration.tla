--------------------------- MODULE Orchestration ---------------------------
(***************************************************************************)
(* A run of a workflow in its steps (run_workflow of                       *)
(* rust/src/orchestrator.rs): the workflow is marked running, its agent    *)
(* works on tasks in a context of its own, and the outcome is written.     *)
(* The run borrows the orchestrator and the workflow; the other workflows  *)
(* are values their owners may change meanwhile.  BusinessOS, with a run   *)
(* as one step, is what this module implements.                            *)
(***************************************************************************)
EXTENDS BusinessOS

CONSTANTS
  Tasks,        \* the tasks an agent may spawn
  BaseBackoff,  \* OrchestratorConfig.base_backoff_ms
  Multiplier,   \* OrchestratorConfig.backoff_multiplier
  MaxBackoff,   \* OrchestratorConfig.max_backoff_ms
  JitterPct     \* OrchestratorConfig.jitter_pct, in percent

ASSUME BackoffOK ==
  /\ BaseBackoff \in Nat /\ MaxBackoff \in Nat
  /\ Multiplier \in Nat \ {0} /\ JitterPct \in 0..100

VARIABLES
  run,    \* the call of run_workflow under way, if any: its workflow, the row and
          \* the log before it, and whether the caller keeps the value if it fails
  tasks,  \* AgentContext.tasks of that call
  told    \* the delay the last failed run of each workflow recommended

ovars == <<registered, wf, held, log, forced, run, tasks, told>>

NoTasks == [t \in Tasks |-> NewTask]

OInit == Init /\ run = None /\ tasks = NoTasks /\ told = [w \in Workflows |-> 0]

Running == {r.wf : r \in run}

(***************************************************************************)
(* The retry decision                                                      *)
(***************************************************************************)
Cap(n) == IF n <= MaxBackoff THEN n ELSE MaxBackoff

(* The multiplier to the power of the attempt *)
Power[a \in Nat] == IF a = 0 THEN 1 ELSE Multiplier * Power[a - 1]

(* A bug: the exponent counts the attempts that are left.                   *)
BackoffByRemaining(a) == Cap(BaseBackoff * Power[MaxAttempts - a])

(* The delay before jitter; the first attempt's is neither capped nor jittered. *)
Backoff(a) == IF a = 0 THEN BaseBackoff ELSE Cap(BaseBackoff * Power[a])

(* compute_backoff: jitter is a fraction in [-JitterPct, JitterPct) of the  *)
(* capped delay, and the sum is truncated to whole milliseconds.            *)
Delays(a) ==
  IF a = 0 \/ JitterPct = 0 THEN {Backoff(a)}
  ELSE (Backoff(a) * (100 - JitterPct)) \div 100 .. (Backoff(a) * (100 + JitterPct) - 1) \div 100

(***************************************************************************)
(* A run                                                                   *)
(***************************************************************************)

(* run_workflow up to the call of the agent *)
Begin(w) ==
  /\ run = None /\ w \in held /\ Runnable(w)
  /\ run' = Some([wf |-> w, row |-> wf[w], log |-> log[w], kept |-> TRUE])
  /\ wf' = [wf EXCEPT ![w].status = "running", ![w].attempts = @ + 1]
  /\ log' = [log EXCEPT ![w]["started"] = @ + 1]
  /\ tasks' = NoTasks
  /\ UNCHANGED <<registered, held, forced, told>>

(* submit_and_run up to the call of the agent *)
SubmitAndBegin(w) ==
  /\ run = None /\ wf[w].status = "none" /\ wf[w].kind \in registered
  /\ run' = Some([wf |-> w, row |-> wf[w], log |-> log[w], kept |-> FALSE])
  /\ wf' = [wf EXCEPT ![w].status = "running", ![w].attempts = 1]
  /\ log' = [log EXCEPT ![w] = Recorded(@, {"created", "started"})]
  /\ tasks' = NoTasks
  /\ UNCHANGED <<registered, held, forced, told>>

TaskSuccessors(s) ==
  CASE s \in {"queued", "escalated"} -> {"running"}
    [] s = "running"                 -> {"completed", "failed", "escalated"}
    [] OTHER                         -> {}

(* TaskStateMachine::transition *)
Moved(task, to) ==
  [status |-> to, started |-> task.started \/ to = "running",
   completed |-> task.completed \/ to \in {"completed", "failed"}]

(* The agent moves a task of its context; nothing of the context, neither   *)
(* the tasks nor its audit entries, outlives the run.                       *)
MoveTask(t, to) ==
  /\ run # None
  /\ to \in TaskSuccessors(tasks[t].status)
  /\ tasks' = [tasks EXCEPT ![t] = Moved(@, to)]
  /\ UNCHANGED <<registered, wf, held, log, forced, run, told>>

HeldAfter(r, ok) == IF ok /\ ~r.kept THEN held \cup {r.wf} ELSE held
AttemptsAfter(r) == wf[r.wf].attempts

(* The agent returns, and run_workflow completes the workflow, resets it to *)
(* pending with a delay recommended, or gives it up.                        *)
Finish(ok) == \E r \in run :
  LET a == AttemptsAfter(r) IN
  /\ wf' = [wf EXCEPT ![r.wf].status = Outcome(a, ok), ![r.wf].attempts = a]
  /\ log' = [log EXCEPT ![r.wf] = Recorded(@, Entries(a, ok) \ {"started"})]
  /\ held' = HeldAfter(r, ok)
  /\ \E d \in Delays(a) :
       told' = IF ~ok /\ AttemptsLeft(a) THEN [told EXCEPT ![r.wf] = d] ELSE told
  /\ run' = None /\ tasks' = NoTasks
  /\ UNCHANGED <<registered, forced>>

(* What needs the orchestrator waits until the run has given it back.       *)
Orchestrate ==
  /\ run = None
  /\ \/ \E w \in Workflows : Submit(w) \/ SubmitForNobody(w) \/ CreateEscalation(w)
     \/ \E k \in Kinds : RegisterAgent(k)
  /\ UNCHANGED <<run, tasks, told>>

(* A bug: the owner can change the workflow that runs.                      *)
Movable == Workflows
Unborrowed == Workflows \ Running

Own == \E w \in Unborrowed : OwnerMoves(w) /\ UNCHANGED <<run, tasks, told>>

ONext ==
  \/ Orchestrate \/ Own
  \/ \E w \in Workflows : Begin(w) \/ SubmitAndBegin(w)
  \/ \E t \in Tasks, to \in TaskStatus : MoveTask(t, to)
  \/ \E ok \in BOOLEAN : Finish(ok)

OSpec == OInit /\ [][ONext]_ovars

(***************************************************************************)
(* Properties                                                              *)
(***************************************************************************)

(* Seen from outside, where the row and the log of a workflow are looked at *)
(* when its run is over, a run is one step: whatever the owners of other    *)
(* workflows and the agent do while it lasts, it ends as the retry policy   *)
(* says of the row as it was when the run began.                            *)
wfBar  == [w \in Workflows |-> IF w \in Running THEN (CHOOSE r \in run : TRUE).row ELSE wf[w]]
logBar == [w \in Workflows |-> IF w \in Running THEN (CHOOSE r \in run : TRUE).log ELSE log[w]]

Atomic == INSTANCE BusinessOS WITH wf <- wfBar, log <- logBar
ImplementsAtomicRun == Atomic!Spec

(* The log accounts for every run: each but the one under way has a start   *)
(* and one end, and there are no more of them than attempts were counted.   *)
EveryRunAccounted ==
  \A w \in Workflows :
    /\ log[w]["started"] =
         log[w]["completed"] + log[w]["failed"] + (IF w \in Running THEN 1 ELSE 0)
    /\ log[w]["started"] <= wf[w].attempts
    /\ log[w]["completed"] <= 1

(* What types.rs announces as valid transitions is what happens: whatever   *)
(* owners and runs do, a status is only followed by one that                *)
(* valid_transitions lists, and the terminal ones by none.  The exceptions  *)
(* are those of a failed workflow, which the state machine retries and      *)
(* cancels and the list does not, and which a run that fails passes through.*)
AnnouncedMoves ==
  [][\A w \in Workflows :
       LET from == wf[w].status  to == wf'[w].status IN
       /\ IsTerminal(from) => to = from
       /\ from \in {"none", "failed", to} \/ CanTransitionTo(from, to)
          \/ (from = "running" /\ to = "pending" /\ log'[w]["failed"] > log[w]["failed"])]_ovars

(* Where the delay grows by more than jitter can take away, a workflow that *)
(* fails again is not told to come back sooner than after the failure       *)
(* before; only the jitter of a delay that has reached the cap, and no      *)
(* more than that, may shorten it.                                          *)
GrowsPastJitter == Multiplier * (100 - JitterPct) >= 100 + JitterPct

BackoffNeverShortens ==
  [][GrowsPastJitter =>
       \A w \in Workflows : told'[w] # told[w] =>
         \/ told'[w] >= told[w]
         \/ /\ Backoff(wf'[w].attempts) = MaxBackoff
            /\ told'[w] >= (MaxBackoff * (100 - JitterPct)) \div 100]_ovars
=============================================================================
