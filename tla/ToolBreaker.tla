---------------------------- MODULE ToolBreaker -----------------------------
(***************************************************************************)
(* The circuit breaker of one tool in the Python application               *)
(* (CircuitBreakerService.check of app/services/guardrails.py, called by   *)
(* BaseAgent.execute_tool): a row that concurrent sessions read, count a   *)
(* call in and write back, a column at a time, without a lock.  SQLite,    *)
(* the default database, keeps no time zones: the times of a row that is   *)
(* selected there cannot be compared with the check's own.  Once the check *)
(* has returned, the tool is called; the task rows around the call are a   *)
(* trace nobody reads and are left out.                                    *)
(***************************************************************************)
EXTENDS GovernanceCore

CONSTANTS
  Sessions,  \* the sessions that call the tool
  Limit,     \* limit_per_minute
  ToolEnd,   \* bound: the last instant
  Checks     \* bound: how many checks are begun

ASSUME BreakerOK == Limit \in Nat /\ ToolEnd \in Nat /\ Checks \in Nat

VARIABLES
  zoned,    \* whether the database keeps the time zones of times
  toolNow,  \* the clock
  row,      \* the committed row of the tool, if there is one
  checks,   \* how many checks were begun
  check     \* each session's check: its stage, its `now`, its copy of the row,
            \* and whether the times in the copy have a time zone

breakerVars == <<zoned, toolNow, row, checks, check>>

FreshRow(at) == [calls |-> 0, windowStart |-> at, state |-> "closed", openedUntil |-> None]
Outside(outcome) == [stage |-> outcome, at |-> 0, copy |-> FreshRow(0), aware |-> FALSE]

BreakerInit ==
  /\ zoned \in BOOLEAN
  /\ toolNow = 0 /\ row = None /\ checks = 0
  /\ check = [s \in Sessions |-> Outside("allowed")]

Ends(s, outcome) == check' = [check EXCEPT ![s] = Outside(outcome)]

BeginCheck(s) ==
  /\ check[s].stage \in {"allowed", "raised"} /\ checks < Checks
  /\ checks' = checks + 1
  /\ check' = [check EXCEPT ![s] = [Outside("select") EXCEPT !.at = toolNow]]
  /\ UNCHANGED <<zoned, toolNow, row>>

(* The row is read; without one a new one is in the session, with the times *)
(* it was given.                                                            *)
SelectRow(s) ==
  /\ check[s].stage = "select"
  /\ check' = [check EXCEPT ![s].stage = IF row = None THEN "insert" ELSE "loaded",
                            ![s].aware = zoned \/ row = None,
                            ![s].copy = CHOOSE b \in (IF row = None THEN {FreshRow(check[s].at)} ELSE row) : TRUE]
  /\ UNCHANGED <<zoned, toolNow, row, checks>>

(* The insert; the column integration is UNIQUE, the second one raises.     *)
InsertRow(s) ==
  /\ check[s].stage = "insert"
  /\ IF row = None
     THEN row' = Some(check[s].copy) /\ check' = [check EXCEPT ![s].stage = "loaded"]
     ELSE Ends(s, "raised") /\ UNCHANGED row
  /\ UNCHANGED <<zoned, toolNow, checks>>

IsOpen(b, at) == b.state = "open" /\ \E t \in b.openedUntil : t > at

(* Bug: the window is a new one, but its count is that of the old one.      *)
RenewedWindowOnly(b, at) ==
  IF b.windowStart + Minute <= at THEN [FreshRow(at) EXCEPT !.calls = b.calls] ELSE b

(* An expired window is replaced, state and all. *)
Renewed(b, at) == IF b.windowStart + Minute <= at THEN FreshRow(at) ELSE b

(* The call is counted, and one too many opens the breaker. *)
Counted(b, at) ==
  LET c == [Renewed(b, at) EXCEPT !.calls = @ + 1] IN
  IF c.calls > Limit THEN [c EXCEPT !.state = "open", !.openedUntil = Some(at + 5 * Minute)] ELSE c

(* The commit writes the columns that are no longer as they were loaded.    *)
Written(was, is, committed) ==
  [column \in DOMAIN is |-> IF is[column] # was[column] THEN is[column] ELSE committed[column]]

(* The first comparison raises, that of an open breaker's time or that of   *)
(* the window.                                                              *)
CannotCompare(s) ==
  /\ check[s].stage = "loaded" /\ ~check[s].aware
  /\ Ends(s, "raised")
  /\ UNCHANGED <<zoned, toolNow, row, checks>>

RefuseCall(s) ==
  /\ check[s].stage = "loaded" /\ check[s].aware /\ IsOpen(check[s].copy, check[s].at)
  /\ Ends(s, "raised")
  /\ UNCHANGED <<zoned, toolNow, row, checks>>

CountCall(s) == \E b \in row :
  LET was == check[s].copy  is == Counted(was, check[s].at) IN
  /\ check[s].stage = "loaded" /\ check[s].aware /\ ~IsOpen(was, check[s].at)
  /\ row' = Some(Written(was, is, b))
  /\ Ends(s, IF is.calls > Limit THEN "raised" ELSE "allowed")
  /\ UNCHANGED <<zoned, toolNow, checks>>

ToolTick == toolNow < ToolEnd /\ toolNow' = toolNow + 1 /\ UNCHANGED <<zoned, row, checks, check>>

BreakerNext ==
  \/ ToolTick
  \/ \E s \in Sessions :
       \/ BeginCheck(s) \/ SelectRow(s) \/ InsertRow(s)
       \/ CannotCompare(s) \/ RefuseCall(s) \/ CountCall(s)

BreakerSpec == BreakerInit /\ [][BreakerNext]_breakerVars

(***************************************************************************)
(* Properties                                                              *)
(***************************************************************************)

(* What a breaker does at an instant: refuse, or go on counting.            *)
Effect(b, at) == IF IsOpen(b, at) THEN b ELSE [b EXCEPT !.state = "closed", !.openedUntil = None]

(* A check that no other session's commit came into, on whatever row the    *)
(* interleaved checks before it have left, decides and counts as the        *)
(* governance core's evaluate_circuit_breaker does (which closes a breaker  *)
(* whose time is over, where Python leaves it open and without effect), if  *)
(* the times it has loaded can be compared at all.                          *)
MirrorsEvaluate ==
  [][\A s \in Sessions :
       check[s].stage = "loaded" /\ check'[s].stage # "loaded" /\ check[s].aware
         /\ row = Some(check[s].copy) =>
         LET at == check[s].at
             d == EvaluateCircuitBreaker(check[s].copy, Limit, at) IN
         /\ (check'[s].stage = "allowed") = d.allowed
         /\ \A b \in row' : Effect(b, at) = Effect(d.breaker, at)]_breakerVars
=============================================================================
