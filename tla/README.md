# A TLA+ verification of the Autonomous Business OS

The repository holds two implementations of one idea, a back office run by agents under human control:
a Python application (`app/`: FastAPI, SQLAlchemy, APScheduler), which keeps everything in a database
that several processes share, and a Rust crate (`rust/`), which keeps everything in memory behind
`&mut self`. The Python side calls the crate as a process, through a JSON bridge. A third piece,
`crates/abos-governance-core`, holds the policy once more, with a signed ledger and a command line. These
modules say what the parts do, commit by commit or call by call, check it with TLC on small instances, and
prove the most important invariants with TLAPS for instances of every size.

Line numbers below are those of the commit beside this directory; `PROJECT.json` ("map") gives the lines
of every definition.

## 1. Inventory

### The Python application

| Component | State | Operations | Hard because |
|---|---|---|---|
| Workflow runtime (`services/workflows.py`, `agents/orchestrator.py`, `services/scheduler.py`, `worker.py`, `services/escalation.py`, `services/audit.py`) | tables `workflows`, `escalations`, `audit_logs` | create, poll, `run_workflow` | the API's scheduler job, the worker and the request that created a workflow all run it, each from its own session; a run is up to seven commits |
| Approval gate (`services/guardrails.py`, `approval.py`, `evidence.py`, two decision routes) | `external_actions`, `human_approvals`, `evidence_packets` | propose, decide, sync | a proposal is five commits, a human sees it half-way; retries propose again |
| Departments (`services/departments.py`, `agents/department.py`) | `departments`, `agent_instances`, `department_schedules` | launch, run, fire a schedule, pause, kill | loops work for a long time on a `Department` object they never read again, and which their session may have loaded long before |
| Tools (`agents/base.py`, `CircuitBreakerService`) | `agent_tasks`, `circuit_breakers` | `execute_tool`, `check` | read-modify-write of one shared row; times that SQLite returns without a zone |
| Agents (`agents/*.py`) | none of their own | `run` | they park, propose, escalate, return or raise in the middle of a run |
| Skills, memory, knowledge base | `skills`, `memory_entries`, `documents` | upserts, search | check-then-insert |
| HTTP routes, pages, signatures, settings, fifteen integrations | none | | I/O |

How they interact: a route or a schedule creates a workflow (a row); a route or a poller runs it; the run
calls an agent; the agent calls tools and the approval gate; the gate parks the workflow and leaves an
approval; a decision route writes the approval and the external action. All of it goes through SQLAlchemy
sessions with `expire_on_commit=False` and `autoflush=False` (`app/db.py:41`). Two consequences carry most
of the models: **what a session has loaded it never reads again**, and **a commit writes only the columns
the session has changed, with the values the session computed**. No query locks a row.

### The Rust crate

| Component | State | Operations | Hard because |
|---|---|---|---|
| Request guard (`rate_limit.rs`) | buckets, circuits | check, report, reset, replace | reports come when the circuit is no longer what it was; arithmetic of intervals |
| Orchestrator and state machine (`orchestrator.rs`, `state_machine.rs`, `types.rs`) | registry, log; the workflow is a value its caller owns | submit, run, retry, mark, cancel, escalate | any order of legal calls, also while another workflow runs; two transition tables |
| Approvals (`approval.rs`) and audit (`audit.rs`) | two lists, a log | request, decide, record, query | several records of one fact, read at any time |
| Façade (`pipeline.rs`) | all of the above | `submit_and_run`, approve, reject, verify | errors that lose a value; two logs |
| Security (`security.rs`) | the secrets | verify a webhook, Slack request, admin key, shared secret | late and repeated requests, clocks that are off, secrets that change |
| Scoring (`scoring.rs`) | none | score, tier | two rules (the engine's and the bridge's), `u32` |
| Bridge (`bridge.rs`, `bin/abos-core.rs`) | none, one request per process | nine commands | its lists are copies of the governance core's; skills are named by strings Python must know |
| Governance core (`crates/abos-governance-core`) | event and entry files | classify, inspect, sign, verify | files are edited between signing and verifying; null members are dropped, at every depth |

### What makes each part correct

* Runtime: nobody gives up early; every failure is seen by an operator; every wait has an approval; every
  run is in the audit log; each workflow comes to rest. The README adds: at most three attempts, durable.
* Approval gate: nothing that needs a human is approved without one; a decision reaches its action and is
  not undone; evidence packets are true; a decided workflow goes on.
* Departments: stopped stays stopped and comes to rest; each due time fires once; disabled stays disabled.
* Guard: rate, retry hint, probes, no wedge, no early closing.
* Orchestrator: attempts, escalations and the log agree under any sequence of calls; a run looks like one
  step from outside; statuses change as announced; delays grow.
* Approvals and logs: lists, statistics and log tell the same; what a reader has seen stays; an overdue
  approval is reported until it is decided.
* Security: a request is worth nothing after its window and what it promises within it.
* Scoring: more in a lead's favour never ranks it lower. Bridge and core: both judge alike, and an agent's
  skills exist and are guarded. Ledger: what verifies was signed. Tool breaker: a check that ran alone does
  what the core's pure rule says. Revenue signals: never half an addition, and none
  lost by sessions that take turns.

The list of hazards, each at its line and with the property that watches it, is in `PROJECT.json`.

## 2. Modules

| Module | Models | Granularity |
|---|---|---|
| `WorkflowRuntime` | the runtime, all sessions at once | one action per commit |
| `WorkflowLifecycle` | what the README's state machine promises, without sessions | abstract specification |
| `WorkflowRuntimeProofs` | theorems about `WorkflowRuntime`, `WorkflowLifecycle` | |
| `ExternalActions` | proposals, decisions, packets; one run at a time | one action per commit |
| `DepartmentRuntime` | one department, its sessions, schedules and operators | one action per commit |
| `RequestGuard` | one bucket and one circuit, their callers, the clock | one action per call |
| `RequestGuardProofs` | theorems about `RequestGuard` | |
| `CoreTypes` | the types of the crate that several modules share | operators |
| `BusinessOS` | orchestrator and state machine, a run as one step | one action per call |
| `Orchestration` | a run in its steps, the agent's tasks, the retry delay; implements `BusinessOS` | one action per stretch between calls out |
| `AuditTrail` | the audit log and its queries | operators |
| `ApprovalDesk` | façade and approval service, with both logs and the clock | one action per call |
| `RequestAuth` | signed requests, their clients, the network, the secrets | one action per request |
| `LeadScoring` | both scoring rules over a lead that changes | one action per change |
| `GovernanceCore` | policy, inspection, breaker rule, canonical JSON; the ledger at work | operators; one action per command |
| `CoreBridge` | the bridge's commands | one action per process |
| `ToolBreaker` | one tool's breaker row and the sessions that check it | one action per SQL statement |
| `DepartmentSignals` | the revenue signals of a department and its loops | one action per read and commit |
| `RustCore` | the modules that share no state, side by side | |
| `ExternalActionsProofs`, `OrchestrationProofs`, `ApprovalDeskProofs`, `RequestAuthProofs` | theorems about the modules of these names | |
| `DepartmentProofs` | theorems about `DepartmentRuntime` and `DepartmentSignals` | |
| `GovernanceProofs` | theorems about `GovernanceCore`, `ToolBreaker`, `CoreBridge`, `LeadScoring` | |
| `MCOrchestration` | the symmetry of `Orchestration`'s workflows | |

`RustCore` extends `RequestGuard`, `ApprovalDesk` (over `AuditTrail`), `RequestAuth`, `CoreBridge` (over
`GovernanceCore` and `LeadScoring`), `ToolBreaker` and `DepartmentSignals`. Its variable `part` says which
of them a behaviour exercises: no call of one reads or writes another, so that interleaving them adds
states and says nothing.

**WorkflowRuntime.** `row` holds the committed `status` and `attempts`; `copy[a]` what the session of `a`
believes; `pc[a]` names its next commit. `MarkRunning` is `mark_running` up to its commit, `AuditStarted`
its audit entry, `Park`/`AskApproval`/`ReturnParked`, `MarkCompleted`/`AuditCompleted`, `Retry`/`AuditRetry`
and `MarkFailed`/`AuditFailed`/`Escalate`/`AuditEscalation` are the branches of `run_workflow`
(`orchestrator.py:38-68`). `Poll` is the query of `process_pending_workflows`, oldest first with a limit.
`AlertRisks` and `AuditRisks` are the two commits by which `DeliveryMonitoringAgent` escalates the risks it
has found, in the middle of a run that then completes: they happen to the rows in `Monitored` and are
counted in `risks`, apart from the `escalations` of failures. `SetStatus` writes one column and leaves the
others to whoever wrote them last; only `MarkRunning` writes `attempts`, from the copy. `RefuseKind` is the
`ValueError` of a kind without an agent, raised before anything is written. `Crash` is a lost process or a
commit that raises. The history variable `runs` counts runs begun, which no column does.

**WorkflowLifecycle** is the diagram of `README.md:124-138` with the retry bound; `WorkflowRuntime`
instantiates it with the columns `status`, `attempts` and the numbers of escalations: of a failure
(`alerts`) and of what an agent has found (`warnings`), which the diagram does not show and `Warn` allows
once, in the run that completes the workflow.

**ExternalActions.** `Propose`, `Park`, `Ask`, `Link`, `RecordPacket` are the five commits of
`request_external_action`; `ParkPlain` is the lead and finance agents' approval about no action; `Open`,
`Decide`, `Sync` are a decision route. `Decide` writes the column only if the verdict differs from what the
session loaded, as SQLAlchemy does. `Raise` is an agent that raises between proposals, retried with its
rows left behind. Approving an action changes its row only: no code of the repository executes it.

**DepartmentRuntime.** `copy[a]` is the status in the session's `Department` object; the scheduler keeps one
object through its whole list (`Loaded`), a request and the launcher theirs, a poller loads its own. Agents
change together and share one status. Of workflows only their number pending is kept.

**RequestGuard.** Time in units dividing interval and timeout. `check` is `Admit`, `Refuse` or `Throttle`;
`CheckN` asks for up to `MaxRequest` tokens, more than the bucket can hold among them, as the code lets it;
reports are `RecordSuccess` and `RecordFailure` of a call admitted any time before; `Lose` is a caller that
never reports. `Refill` is part of every query of the bucket. The `f64` token count only ever holds whole
numbers (capacity, rate and requests are integers), so `Nat` loses nothing.

`register_circuit` puts a fresh circuit in the place of one that may be open (`RegisterCircuit`).

**BusinessOS.** Every call is one step. `held` says whose value still exists: `submit_and_run` drops it
when the run fails. A call the code refuses changes nothing and is no step. `create_escalation`, which is
public and looks at nothing, is `CreateEscalation`; its entries are counted apart (`raised`).
`Move` is `WorkflowStateMachine::transition`, which is public, with the three `mark_*` methods that only
call it: it moves a workflow to running without counting the attempt, and a failed one to pending without
asking whether an attempt is left (`state_machine.rs:39` has that only `retry` may do the latter, which
asks). How often it did so to a workflow that had none is counted in `forced`. The table it goes by lets a
failed workflow become pending and nothing else, `valid_transitions` of `types.rs` running and nothing else;
the crate acts by the first.

**Orchestration** splits `run_workflow` at its call of the agent: `Begin` (or `SubmitAndBegin` for
`submit_and_run`) up to the call, `MoveTask` the agent at work in its context, `Finish` the rest. Rust's
borrows are guards: while a run is under way nobody else has the orchestrator (`Orchestrate` waits) or that
workflow (`Unborrowed`), and owners of other workflows go on. `Delays` is `compute_backoff`, with the
jitter a choice from its interval; the code's `f64` is exact at the sizes concerned. `Atomic` is the
refinement mapping: until its run is over a workflow looks as it did before.

**AuditTrail and ApprovalDesk.** A log is a sequence, an entry its action, actor, workflow and time. The
façade's `approve` and `reject` are `DeskDecide`, which moves the approval and records the decision in one
call. `QueryLimit` is the 100 of `AuditQuery::new`, which `entries_for_workflow` does not lift although it
speaks of all entries.

**RequestAuth.** HMAC-SHA256 and SHA-256 are injective, their constant-time comparison is equality. A
client stamps with its own clock, at most `Skew` off; requests stay on the network and may `Arrive` any
number of times; `Configure` is a service made with another secret.

**LeadScoring.** A text is the set of keywords in it, one keyword for those both rules know and one for each
rule's own; `U32` is the modulus at which the engine truncates. **CoreBridge** and **GovernanceCore** have
texts as sets of markers too. Both cores use `Judge` and `Inspection`, each with the lists of its own
source. (One lowers ASCII letters and the other all: texts are ASCII here.) JSON values have up to three
levels, and either canonical form goes down to the last: `FormOf` treats one level, and is given the form of
the next (`CanonicalValue`, `CanonicalFlat`, `CanonicalScalar`; the bridge's `Canonicalize`). The bridge's
`serialize_sdk_result` and `serialize_department`, which only put what they are given into another envelope,
are left out. `EditEvent` and `EditEntry` are people with an editor; a signature cannot be edited into
another valid one.

**ToolBreaker.** `SelectRow` is the query, `InsertRow` the flush of a new row into a `UNIQUE` column,
`CountCall` the commit, which writes the columns that differ from what was loaded (`Written`). `zoned` says
whether the database keeps time zones (Postgres) or not (SQLite, the default): `aware` in a session's check
is whether the times of its copy have one, which those of a row it has just inserted always do, and
`CannotCompare` is the `TypeError` of `guardrails.py:203` or `:205`. On SQLite, then, a tool can be called
by the check that inserts its row and by no later one.

**DepartmentSignals.** `held[s]` is the `Department` object in the identity map of a session:
`LoadDepartment` is the first look the session takes, often before its loop (`routes_agents.py:225`,
`scheduler.py:54`), and every later `session.get` (`department.py:23`) returns that object as it is.
`DepartmentMetrics` is the bridge's function; `EndSignals` commits what it makes of the object, each column
only if the object's attribute changed (`Flushed`), and leaves the object in the session for its next loop.
`CloseSession` is its end, a lost loop, or an object nobody refers to any more.

## 3. Runs

Passing runs:

| Run | Instance | Shows |
|---|---|---|
| `RuntimeConcurrent` | scheduler, worker and one request on one workflow, two attempts, no crash (630 000 states) | `FailedIsEscalated`, `WaitingHasApproval`, `AuditAccountsForRuns`, and under fairness `ComesToRest`, all in spite of duplicate runs |
| `RuntimeSingle` | one worker, one webhook, three workflows (one of a kind nobody serves, one whose agent escalates), two attempts, one crash (17 000 states) | `GivesUpOnlyWhenExhausted`, `AttemptsCountRuns`, `AuditAccountsForRuns` with the agent's escalations, and the refinement `ImplementsLifecycle` |
| `ActionsDecided` | two actions, three approvals, two deciders, two attempts, three decisions, one crash | the approval gate |
| `DepartmentSchedules` | two schedules, launcher, scheduler, worker, request, operator, one crash | schedules, pause and kill |
| `DepartmentRest` | one schedule, the same actors, one crash, fairness | `StoppedComesToRest` |
| `Orchestration` | two workflows of one kind, three attempts and one beyond, one task, one forced reset each, delays 2 and 3 (the cap) with 10 % jitter (1 540 000 states) | the protocol of calls and the refinement `ImplementsAtomicRun` |
| `RustCore` | guard: capacity 3, requests of up to 5, rate 2 per 2 units, thresholds 2, three callers, one lost, time to 6; desk: two workflows, two approvals, time to 2, logs cut at 2; auth: two secrets, window 1, clocks off by 2, time to 4; ledger: two secrets, two edits; breaker: two sessions, limit 1, four checks, time to 6; signals: two sessions, four loops; every request of the bridge (910 000 states) | the sixteen properties of these parts |

What the shorthand of the table stands for:

* `ActionsDecided`: `ApprovedByHuman`, `GatedIsAsked`, `DecisionReachesAction`, `PacketIsTrue` and
  `DecidedStaysDecided`. `DepartmentSchedules`: `FiresOncePerDue`, `StoppedStaysStopped`,
  `DisabledStaysDisabled`.
* `Orchestration`: `PendingHasAttemptLeft` and `EscalatedOnceForGood` (no run the policy did not allow, and
  one escalation, after which nothing runs, but for workflows an owner has forced back), `EveryRunAccounted`
  (the log against the attempts), `AnnouncedMoves` (statuses follow one another as `valid_transitions` lists
  them, but for a failed workflow), `BackoffNeverShortens`, and `ImplementsAtomicRun`.
* `RustCore`, by part. Guard: `RateBound`, `RetryAfterSuffices`, `ProbesBounded`, `NeverWedged`,
  `OpenUntilTimeout`. Desk and logs: `DecisionsAgree`, `OverdueUntilDecided`, `ShownStaysShown`. Signed
  requests: `StaleNeverAccepted` and `HonestAccepted`, what the window refuses and what it must serve.
  Scoring: `BetterLeadNeverScoresLess`. Bridge and governance core: `CoresAgree`,
  `SkillsAreKnownAndGuarded`. Ledger: `VerifiedWasSigned`. Tables of the Python application:
  `MirrorsEvaluate` (breakers), `SignalsConsistent` (revenue signals).

Runs that find what a document says violated (the findings of `PROJECT.json`):

| Run: property | Says | The code |
|---|---|---|
| `RuntimeAttempts`: `AtMostMaxAttempts` | `README.md:136` "Up to 3 attempts" | scheduler and request both run the workflow, counting on their own copies: a fourth run |
| `RuntimeRestarts`: `SurvivesRestarts` | `README.md:39` "durable (survives restarts)" | a row left `running` is never selected again |
| `ActionsResume`: `WaitingResumes` | `README.md:127` `waiting_for_human ──▶ completed` | no code resumes a waiting workflow |
| `DepartmentAgents`: `StoppedAgentsAreStopped` | `docs/SECURITY.md:39` "stops agents" | the loop's end writes `idle` over `paused` |
| `BusinessOSRetried`: `RetriedCanBePickedUp` | `orchestrator.rs:303` "so it can be picked up again" | `submit_and_run` drops the workflow with the error |

**Why these bounds are enough.** Duplicate runs need two runners, and three give every pair of a poller and
the creator with a third to interfere; one workflow suffices there since sessions meet only in a row.
Batches, order and unsupported kinds need several rows, hence three in `RuntimeSingle`. Two attempts have a
first, a last and a retry between. A proposal can be decided half-way, decided twice, retried and left
behind with two actions and three approvals (the third for the approval without an action). Time to 6 holds
three refills and two full episodes of the circuit. `AttemptBound` in `BusinessOS` exceeds the maximum by
one, so that the resumption of a waiting workflow beyond it is among the behaviours; a `ForceBudget` of one
lets a workflow be escalated a second time. The delays of `Orchestration` are told as 1 or 2 and 2 or 3: the
second is capped, and jittered after that. In `RustCore` the clocks' error exceeds the window, so that
requests expire on arrival, and the end of time exceeds two windows; the limit of 1 opens the tool's breaker
at the second call and time 6 passes the five units it stays open; two entries and a query limit of 2 let a
log outgrow what a query returns; counts of 80 and 130 stand on either side of `U32 = 128`. `Minute = 1` and
`U32 = 128` stand for 60 s and 2^32. Constants that only bound the instance: `NumWorkflows`, `CrashBudget`,
`NumActions`, `NumApprovals`, `DecideBudget`, `DueBudget`, `PendingLimit`, `MaxTime`, `MaxRequest`,
`LossBudget`, `AttemptBound`, `ForceBudget`, `DeskEnd`, `CoreEntries`, `Skew`, `AuthEnd`, `Sendings`,
`Counts`, `Revenues`, `Edits`, `Most`, `ToolEnd`, `Checks`, `Found`, `LoopRuns`. Deadlock checking is off
where the bounds let the system end: `ActionsDecided`, `ActionsResume`, `BusinessOSRetried`, `Orchestration`
(every workflow may be done) and `RustCore` (a bridge process ends).

**Conditions inside properties.** `crashes = 0` stands in properties the code does not keep over a lost
process, because the two facts are two commits: `FailedIsEscalated`, `WaitingHasApproval`,
`AuditAccountsForRuns`, `GatedIsAsked`, `DecisionReachesAction`, `FiresOncePerDue`, `ComesToRest`.
`lost = 0` in `NeverWedged`: a half-open circuit has no timeout, and lost probes wedge it for ever.
`SuccessThreshold <= HalfOpenMax` there: the façade fixes both at 3, and a public configuration that closes
after more probes than it admits wedges by itself. `n <= MaxTokens` in `RetryAfterSuffices` is the exact
condition: for a larger request the finite hint never suffices, and the property says so.
`forced` in `PendingHasAttemptLeft` and `EscalatedOnceForGood` allows for what the bare transition does.
`GrowsPastJitter` in `BackoffNeverShortens`: where the jitter is as large as the growth, the intervals of
successive delays overlap and the later may be the shorter one at any time.
`~overlapped` in `DecisionReachesAction`: two overlapping decisions of one approval can leave it and its
action with different verdicts. `~overlapped` in `SignalsConsistent`: while two sessions hold the
department at once, one loop's commit overwrites the additions of the other session's, even if the loops
themselves do not overlap. `Better` in `BetterLeadNeverScoresLess` compares leads whose
numbers fit into 32 bits, since the engine truncates larger ones. `MirrorsEvaluate` judges the checks that
no other commit came into; those that one did lose counts, so that a tool may be called more often than its
limit says. `aware` there: without time zones the check raises instead of deciding.

**Fairness.** Both interval jobs fire for ever and Python goes on with an open session, hence weak
fairness of each actor's next commit (`Step`, `LoopStep`, `ScheduleStep`, `LaunchStep`, `TakePending`).
Requests, crashes, operators and due times are never fair: nobody has to come. The one strong fairness is
in `ActionsResume`, that every open approval is decided some time, and it only makes that run's
finding stronger: even so nothing resumes the workflow.

## 4. Proofs

Every safety property of the passing runs, the state invariants and the action properties, is a theorem
for every value of the constants; so are the two refinements. No proof takes a fact on trust: every lemma
is proved in its file, from the named `ASSUME`s on the constants alone, except where a hypothesis is named
below.

`WorkflowRuntimeProofs`, for any number of workflows, runners and lost sessions and any `MaxAttempts > 0`
(assumption `ConstantsOK`):

* `TypeCorrect`: `TypeOK`, with `InHand`: between two commits of a run the session has a workflow in hand.
* `NobodyGivesUpEarly`: `GivesUpOnlyWhenExhausted`. Not inductive alone: a runner may overwrite `attempts`
  with a smaller or a larger number than the row had. The strengthening `EarnedInv` says that no number
  anybody holds, in the row or in any copy, exceeds the runs begun (`CountsTrailRuns`), and that whoever is
  about to fail or escalate a workflow has decided so after enough of them (`DecidedLate`). The
  risks that an agent escalates in a first attempt are no failure and counted apart (`risks`).
* `NoFailureGoesUnseen`, `NobodyWaitsUnasked`: `FailedIsEscalated` and `WaitingHasApproval`. The
  strengthening `AnsweredInv` adds that a submitter never runs anything, so that the witness of either
  property is the runner itself; its own next commit then creates what is missing.
* `EveryRunIsAudited`: `AuditAccountsForRuns`, for concurrent runners. `AccountsInv` turns the inequality
  into equations: what the log lacks is the number of runners that stand before the commit that writes it,
  those of the delivery agent's escalation included: the run `RuntimeConcurrent` has duplicate runners, the
  run `RuntimeSingle` such an agent, and the theorem both at once. A step moves one actor, so each
  cardinality changes by at most one (`OneMoves`).
* `OneRunnerCountsRuns`, `OneRunnerImplementsLifecycle`: `AttemptsCountRuns` and the refinement
  `ImplementsLifecycle`, under the hypothesis `OneRunner`, that `Runners` has at most one element. It is the
  condition of the run `RuntimeSingle`, and needed: `RuntimeAttempts` refutes the bound on attempts, which
  the lifecycle contains, for two. `AloneInv` says that the copy of the only session is the row and that its
  label gives the row's status (`StatusAt`), whatever sessions were lost; every commit then is the action of
  the lifecycle of the same name, or a stutter.

`ExternalActionsProofs`, for any number of actions, approvals, deciders, retries and crashes. One inductive
invariant, `GateInv`, carries all six theorems: where the run is and what it has in hand (`RunOK`), what
actions and approvals say of each other (`TablesOK`), what a decider brings (`DecidersOK`), that the verdict
of an action was given by a human (`DecidedByHuman`), that one approval names an action (`AskedOnce`, without
lost sessions), and that a decider's copy is on file while no decisions overlap (`CopiesTrue`). `GateTypes`,
`NothingApprovesItself`, `EachIsAskedOnce`, `DecisionsArrive`, `PacketsAreTrue` and `DecisionsStand` follow.

`DepartmentProofs`: `NoFiringLostOrRepeated` (`FiresOncePerDue`), with `DeptInv`: the launcher writes
schedules once (`LaunchOK`), and what the scheduler has loaded is still due and is on its list once
(`ListOK`), which is what makes each due time fire once. `NoLoopUndoesAStop` and `NothingEnablesAgain` are the
action properties `StoppedStaysStopped` and `DisabledStaysDisabled`. `SignalsStayConsistent`, for any number
of sessions: the objects they hold are as sound as the column, and while they take turns the one that holds
the department holds what is committed (`SignalsInv`).

`OrchestrationProofs`, for any number of workflows, kinds, tasks and retries:

* `PendingCanBeRun`, `OneEscalationForGood`, `RunsAreAccounted`: the three invariants, from `OInv`. Its part
  `Accounted` relates log, row and `forced` of a workflow (one end for each start but the run's, no more
  starts than attempts, an escalation once the failures are used up, and one more at most for each forced
  reset), and `BorrowedOK` says that the workflow of the run under way is as the run has marked it, which is
  what Rust's borrow is for.
* `MovesAreAnnounced`: the action property `AnnouncedMoves`.
* `RunIsOneStep`: the refinement `ImplementsAtomicRun`. Rows and logs are mapped by `wfBar` and `logBar`,
  which show a workflow as it was until its run is over; `Begin` and `MoveTask` stutter, `Finish` is the run.
* `LaterFailuresWaitLonger`: `BackoffNeverShortens`, for any whole multiplier, any cap and jitter. Delays
  before jitter grow with the attempt (`BackoffGrows`), by the multiplier below the cap, which outdoes what
  jitter can take from the one and add to the other (`GrowthOutdoesJitter`); `ToldInv` says that what was
  told is a delay of an attempt that is over (`Past`).

`RequestGuardProofs`, for any configuration the `ASSUME`s of `RequestGuard` admit:

* `RateIsBounded`: with `Paid`, a bound on `tokens + spent` by the intervals since `born`, where
  `lastRefill` is `born` plus whole intervals. The division is dealt with once, in lemmas.
* `RetryAfterIsEnough`: from the same invariant and a lemma about rounding up; the other direction, for a
  request beyond the capacity, from the bucket never holding more (`NeverBeyondCapacity`).
* `GuardTypeCorrect`, and `OpenCircuitWaits`, the action property `OpenUntilTimeout`.
* `NeverTooManyProbes`, `HalfOpenNeverStuck`: `ProbesBounded` and `NeverWedged`. `ProbeInv` counts: the probes
  under way are probes the half-open circuit has counted, and, while no caller was lost, a counted one is
  under way or was a success.

`ApprovalDeskProofs`, for any number of workflows, approvals, deciders and any time:

* `ListsAndLogAgree`: `DecisionsAgree`. `DeskInv` adds that no id is twice on a list (`EachOnce`); the
  statistics and the log are compared as cardinalities of sets of places in a list.
* `OverdueStaysReported`: the action property `OverdueUntilDecided`.
* `ReadersSeeTheSame`: `ShownStaysShown`, for logs and limits of any length. An entry at the end leaves the
  places of the earlier hits alone (`NthStays`); that each hit has a place (`NthExists`) is an induction.

`RequestAuthProofs`, `NothingStale` and `HonestServed`, for any window, clock error, number of requests and
history of secrets: `AuthInv` says that what is on the network carries what its sender made of its secret
and clock, and ties an acceptance to the timestamp of its request; two acceptances of one request are then
within two windows of each other, and the age of a request follows from the error of its clock.

`GovernanceProofs`:

* `OnlySignedVerifies`, for any secrets and number of edits: `LedgerInv` says that an entry, whatever was
  edited in it, has the signature of the event and the secret it was made with.
* `PythonMirrorsTheCore`, for any number of sessions, any limit and any length of a minute: the types of rows
  and copies (`BreakerInv`), the equality of the two counting rules on one row (`CountsAsTheCore`), and that
  columns written over the row that was loaded are the new row. It is about times that can be compared.
* `BridgeAgreesWithCore`, `BridgeSkillsGuarded`: `CoresAgree` and `SkillsAreKnownAndGuarded` for texts and
  roles with any number of keywords. The lists of the two crates are compared as sets; that the
  canonical forms differ exactly where an object has a null member is shown level by level.
* `BetterIsNeverWorse`: `BetterLeadNeverScoresLess`, for numbers of any size. Each of the seven signals is
  monotone (the truncation to 32 bits is the identity below it), and so are the capped sum and the tiers.

The modules of `RustCore` are proved about one by one, each under its own specification (`Spec`, `DeskSpec`,
`AuthSpec`, `LeadSpec`, `LedgerSpec`, `BreakerSpec`, `BridgeSpec`, `SignalsSpec`), since no step of one changes
a variable of another.

Two proofs need induction over data, the powers of the multiplier and the places of hits. The library's
induction theorems have an operator as a parameter, which the provers cannot instantiate; `SetInduction`
derives the principle for a set of numbers from the least element of a non-empty set (`WFMin`), and `PowerIs`
uses it to show that the recursive function `Power` exists and satisfies its equation.

**Only model-checked:** what needs fairness (`ComesToRest`, `StoppedComesToRest`), since liveness is outside
the reach of the provers here; and the five runs that refute a document, whose counterexamples are TLC's.

## 5. Not modelled

Integrations, pages, configuration and deployment hold no state of the system. Result payloads, titles and
generated texts are left out: no property is about them. Nor are the `AgentTask` rows of `execute_tool`,
which nothing reads; `ensure_company_layer` and the upserts of skills and memory, one and the same
check-then-insert race whose duplicates change nothing the modules model; the two commands of the bridge
that only reshape a value; the façade's `audit_trail`, which puts the queries of two logs together
(`ShownStaysShown` is about the query of one); a caller that writes the façade's public fields and so goes
past its log; the Python copy of the scoring rule, used when the binary is missing; Python's own signature
checks. Of the crate, an agent that panics (the workflow stays running, a value its caller unwinds) and
accessors that return a copy of a field. `verification/Workflow.lean` is about an idealised table and not
about this code.

Database failures beyond a lost session (partial writes, isolation below read committed) are not modelled:
each commit is atomic, which is what SQLite and Postgres give a single `UPDATE` or `INSERT`.

## 6. Plan

In order of importance; 1 to 9 are done, the rest is ahead.

1. `WorkflowRuntime` with `WorkflowLifecycle`: every other Python part hangs on it. *Done.*
2. `WorkflowRuntimeProofs`: types, giving up, escalation, waiting. *Done.*
3. `ExternalActions`, `DepartmentRuntime`: the two components that compose with runs. *Done.*
4. `RequestGuard` with its proofs. *Done.*
5. `BusinessOS`, and `Orchestration`, which implements it. *Done.*
6. `ToolBreaker` against the breaker rule of `GovernanceCore`, with proofs. *Done.*
7. `AuditTrail`, `ApprovalDesk`, `RequestAuth`, `DepartmentSignals`, the latter two with proofs. *Done.*
8. The pure parts: `LeadScoring`, `CoreBridge`, `GovernanceCore`, the ledger with a proof. *Done.*
9. Theorems for the remaining safety properties, and the two refinements. *Done.*
10. Theorems beyond the runs: which steps two overlapping runners can take of `WorkflowLifecycle` all the
    same, an abstract specification of the approval gate that `ExternalActions` implements, and one of the
    bucket for `RequestGuard`.
11. Starvation of the polling loop by ten rows that only raise (`scheduler.py:21`), as a finding or with the
    liveness that remains.

Running it: in this directory, `tlc -workers 2 -config RuntimeSingle.cfg WorkflowRuntime` (and so on for
each line of "runs" in `PROJECT.json`), `tlapm` on each `*Proofs.tla`.
