--------------------------- MODULE RequestGuard ----------------------------
(***************************************************************************)
(* The request guard of the Rust crate (rust/src/rate_limit.rs): a token   *)
(* bucket for one key and a circuit breaker for one dependency.  Callers   *)
(* ask the guard, call the dependency, and report how it went; the guard   *)
(* is a plain `&mut` object, so that every call on it is one step, but     *)
(* between a caller's question and its report anything may happen: other   *)
(* callers report, the circuit opens, time passes, the caller is lost.     *)
(*                                                                         *)
(* Time is counted in units that divide both the refill interval and the   *)
(* timeout of the circuit.  The token count, an f64 in the code, only ever *)
(* holds whole numbers.                                                    *)
(***************************************************************************)
EXTENDS Integers, FiniteSets

CONSTANTS
  MaxTokens,         \* BucketConfig.max_tokens
  RefillRate,        \* BucketConfig.refill_rate
  RefillInterval,    \* BucketConfig.refill_interval_ms
  FailureThreshold,  \* CircuitBreakerConfig.failure_threshold
  SuccessThreshold,  \* CircuitBreakerConfig.success_threshold
  Timeout,           \* CircuitBreakerConfig.timeout_secs
  HalfOpenMax,       \* CircuitBreakerConfig.half_open_max_calls
  Callers,           \* who may have a call under way
  MaxRequest,        \* bound: the most tokens a call of check_n asks for
  MaxTime,           \* bound: the last instant
  LossBudget         \* bound: how many callers never report

ASSUME BucketOK ==
  /\ MaxTokens \in Nat /\ RefillRate \in Nat /\ RefillInterval \in Nat \ {0}
  /\ MaxTime \in Nat /\ MaxRequest \in Nat

ASSUME CircuitOK ==
  /\ FailureThreshold \in Nat \ {0} /\ SuccessThreshold \in Nat \ {0}
  /\ Timeout \in Nat /\ HalfOpenMax \in Nat /\ LossBudget \in Nat

VARIABLES
  now,        \* the clock
  tokens,     \* BucketState.tokens
  lastRefill, \* BucketState.last_refill
  born,       \* when the bucket was created or reset last
  spent,      \* history: tokens taken since then
  circuit,    \* CircuitBreaker: state, counters, opened_at
  calls,      \* what each caller has under way
  lost        \* how many callers never reported

bucket == <<tokens, lastRefill, born, spent>>
vars   == <<now, tokens, lastRefill, born, spent, circuit, calls, lost>>

(* A call is a probe as long as the half-open episode that admitted it lasts. *)
Call == {"none", "call", "probe"}

Circuit == [state : {"closed", "open", "half_open"}, failures : Nat, successes : Nat,
            openedAt : Nat, probes : Nat]

BucketTypeOK ==
  /\ now \in 0..MaxTime
  /\ tokens \in 0..MaxTokens
  /\ lastRefill \in 0..MaxTime /\ born \in 0..MaxTime
  /\ spent \in Nat

TypeOK ==
  /\ BucketTypeOK
  /\ circuit \in Circuit
  /\ circuit.failures <= FailureThreshold /\ circuit.successes < SuccessThreshold
  /\ calls \in [Callers -> Call]
  /\ lost \in 0..LossBudget

Closed == [state |-> "closed", failures |-> 0, successes |-> 0, openedAt |-> 0, probes |-> 0]

Init ==
  /\ now = 0
  /\ tokens = MaxTokens /\ lastRefill = 0 /\ born = 0 /\ spent = 0
  /\ circuit = Closed
  /\ calls = [c \in Callers |-> "none"]
  /\ lost = 0

Least(a, b) == IF a <= b THEN a ELSE b

(***************************************************************************)
(* The bucket                                                              *)
(***************************************************************************)

(* Bugs the arithmetic could have: the clock of the refill not advanced, a  *)
(* waiting time rounded down.                                               *)
RefilledAtStuck(t) == lastRefill
RetryAfterRoundedDown(n) == ((n - tokens) \div RefillRate) * RefillInterval

(* _refill at time t: whole intervals only, and the clock of the refill     *)
(* advances by just these.                                                 *)
Intervals(t)   == (t - lastRefill) \div RefillInterval
TokensAt(t)    == Least(tokens + Intervals(t) * RefillRate, MaxTokens)

RefilledAt(t)  == lastRefill + Intervals(t) * RefillInterval

(* retry_after_ms of check_n, in whole intervals, rounded up (RefillRate > 0) *)
RetryAfter(n) == ((n - tokens + RefillRate - 1) \div RefillRate) * RefillInterval

Refill ==
  /\ lastRefill' = RefilledAt(now)
  /\ tokens' = TokensAt(now)

(* check_n finds n tokens and takes them. *)
Take(n) ==
  /\ TokensAt(now) >= n
  /\ lastRefill' = RefilledAt(now)
  /\ tokens' = TokensAt(now) - n
  /\ spent' = spent + n
  /\ UNCHANGED born

(* check_n does not find them, or `available` is asked: refilled all the same. *)
TakeNothing == Refill /\ UNCHANGED <<born, spent>>

ResetBucket ==
  /\ tokens' = MaxTokens
  /\ lastRefill' = now /\ born' = now /\ spent' = 0
  /\ UNCHANGED <<now, circuit, calls, lost>>

(* check_n; check is CheckN(1), and so is the guard's check of a key alone  *)
(* or with a circuit nobody registered.                                     *)
CheckN(n) ==
  /\ IF TokensAt(now) >= n THEN Take(n) ELSE TakeNothing
  /\ UNCHANGED <<now, circuit, calls, lost>>

Available == TakeNothing /\ UNCHANGED <<now, circuit, calls, lost>>

(***************************************************************************)
(* The circuit                                                             *)
(***************************************************************************)

(* Bugs the circuit could have: one probe too many; one success more than   *)
(* the threshold needed to close it; late failures that move the deadline.  *)
ProbeOneMore(c) == c.probes <= HalfOpenMax
SuccessOneMore(c) ==
  IF c.state = "half_open"
  THEN IF c.successes + 1 > SuccessThreshold
       THEN [c EXCEPT !.state = "closed", !.failures = 0, !.successes = 0, !.probes = 0]
       ELSE [c EXCEPT !.successes = @ + 1]
  ELSE IF c.state = "closed" THEN [c EXCEPT !.failures = 0] ELSE c
FailureMovesDeadline(c) ==
  IF c.state = "closed" /\ c.failures + 1 < FailureThreshold
  THEN [c EXCEPT !.failures = @ + 1]
  ELSE [c EXCEPT !.state = "open", !.openedAt = now, !.successes = 0, !.probes = 0]

(* check_timeout *)
CheckTimeout ==
  IF circuit.state = "open" /\ now - circuit.openedAt >= Timeout
  THEN [circuit EXCEPT !.state = "half_open", !.probes = 0, !.successes = 0]
  ELSE circuit

MayProbe(c) == c.probes < HalfOpenMax

(* allow_request, after check_timeout: admitted, and as what *)
Admits(c) == c.state = "closed" \/ (c.state = "half_open" /\ MayProbe(c))
AdmittedAs(c) == IF c.state = "half_open" THEN "probe" ELSE "call"
AfterAllow(c) ==
  IF c.state = "half_open" /\ MayProbe(c) THEN [c EXCEPT !.probes = @ + 1] ELSE c

AfterSuccess(c) ==
  CASE c.state = "closed" -> [c EXCEPT !.failures = 0]
    [] c.state = "half_open" /\ c.successes + 1 >= SuccessThreshold ->
         [c EXCEPT !.state = "closed", !.failures = 0, !.successes = 0, !.probes = 0]
    [] c.state = "half_open" /\ c.successes + 1 < SuccessThreshold -> [c EXCEPT !.successes = @ + 1]
    [] c.state = "open" -> c

AfterFailure(c) ==
  CASE c.state = "closed" /\ c.failures + 1 >= FailureThreshold ->
         [c EXCEPT !.failures = @ + 1, !.state = "open", !.openedAt = now]
    [] c.state = "closed" /\ c.failures + 1 < FailureThreshold -> [c EXCEPT !.failures = @ + 1]
    [] c.state = "half_open" ->
         [c EXCEPT !.state = "open", !.openedAt = now, !.successes = 0, !.probes = 0]
    [] c.state = "open" -> c

(* The calls under way once the circuit has become c: probes are probes of  *)
(* the present half-open episode only.                                      *)
Under(c) == IF c.state = "half_open" /\ circuit.state = "half_open" THEN calls
            ELSE [k \in Callers |-> IF calls[k] = "probe" THEN "call" ELSE calls[k]]

(***************************************************************************)
(* The guard                                                               *)
(***************************************************************************)

(* check(key, Some(circuit)): a token first, then the circuit; the token is *)
(* gone even if the circuit then refuses.                                   *)
Admit(k) ==
  LET c == CheckTimeout IN
  /\ calls[k] = "none"
  /\ Take(1) /\ Admits(c)
  /\ circuit' = AfterAllow(c)
  /\ calls' = [Under(c) EXCEPT ![k] = AdmittedAs(c)]
  /\ UNCHANGED <<now, lost>>

Refuse(k) ==
  LET c == CheckTimeout IN
  /\ calls[k] = "none"
  /\ Take(1) /\ ~Admits(c)
  /\ circuit' = c
  /\ calls' = Under(c)
  /\ UNCHANGED <<now, lost>>

Throttle(k) ==
  /\ calls[k] = "none" /\ TokensAt(now) < 1
  /\ TakeNothing
  /\ UNCHANGED <<now, circuit, calls, lost>>

Report(k, after(_)) ==
  LET c == after(circuit) IN
  /\ calls[k] # "none"
  /\ circuit' = c
  /\ calls' = [Under(c) EXCEPT ![k] = "none"]
  /\ UNCHANGED <<now, bucket, lost>>

RecordSuccess(k) == Report(k, AfterSuccess)
RecordFailure(k) == Report(k, AfterFailure)

(* The caller dies, or returns early, and reports nothing. *)
Lose(k) ==
  /\ calls[k] # "none" /\ lost < LossBudget
  /\ calls' = [calls EXCEPT ![k] = "none"]
  /\ lost' = lost + 1
  /\ UNCHANGED <<now, bucket, circuit>>

(* reset puts everything back as it was created; register_circuit, called   *)
(* again for a name, puts a new breaker in the place of the old one, open or *)
(* not.                                                                     *)
AfterReset(c) == Closed

Replace(c) ==
  /\ circuit' = c
  /\ calls' = Under(c)
  /\ UNCHANGED <<now, bucket, lost>>

ResetCircuit == Replace(AfterReset(circuit))
RegisterCircuit == Replace(Closed)

Tick == now < MaxTime /\ now' = now + 1 /\ UNCHANGED <<bucket, circuit, calls, lost>>

Next ==
  \/ \E k \in Callers :
       Admit(k) \/ Refuse(k) \/ Throttle(k) \/ RecordSuccess(k) \/ RecordFailure(k) \/ Lose(k)
  \/ \E n \in 0..MaxRequest : CheckN(n)
  \/ Available \/ ResetBucket \/ ResetCircuit \/ RegisterCircuit \/ Tick

Spec == Init /\ [][Next]_vars

(***************************************************************************)
(* Properties                                                              *)
(***************************************************************************)

(* However calls, refills and pauses are interleaved, the bucket hands out  *)
(* no more than its capacity and what the time since its creation or last   *)
(* reset has refilled; rounding to whole intervals never gains a token.     *)
RateBound == spent <= MaxTokens + ((now - born) \div RefillInterval) * RefillRate

(* A caller that is refused n tokens is told when to come back.  If nobody  *)
(* takes tokens meanwhile, it finds them at that time exactly when the      *)
(* bucket can hold that many at all: check_n answers a request beyond       *)
(* max_tokens with a finite retry_after_ms as well, and that never suffices. *)
RetryAfterSuffices ==
  \A n \in 1..MaxRequest :
    RefillRate > 0 /\ lastRefill = RefilledAt(now) /\ tokens < n =>
      (TokensAt(now + RetryAfter(n)) >= n <=> n <= MaxTokens)

(* No more than HalfOpenMax probes are under way in one half-open episode,  *)
(* late answers to calls of earlier episodes notwithstanding; and none of   *)
(* them is forgotten by the count.                                          *)
ProbesBounded ==
  /\ Cardinality({k \in Callers : calls[k] = "probe"}) <= circuit.probes
  /\ circuit.probes <= HalfOpenMax

(* If a half-open circuit admits as many probes as it takes to close it     *)
(* (the facade fixes 3 and 3, the public config does not check it), and as  *)
(* long as every admitted call is reported, it is never stuck: it admits    *)
(* another probe, or some probe is under way whose report will close it or  *)
(* open it again.                                                           *)
NeverWedged ==
  SuccessThreshold <= HalfOpenMax /\ lost = 0 /\ circuit.state = "half_open" /\ ~MayProbe(circuit) =>
    \E k \in Callers : calls[k] = "probe"

(* An open circuit stays open until its timeout is over, or it is reset or  *)
(* registered anew: neither late successes nor late failures of calls that  *)
(* were admitted before close it or move its deadline.                      *)
OpenUntilTimeout ==
  [][circuit.state = "open" /\ now - circuit.openedAt < Timeout =>
       circuit' \in {circuit, AfterReset(circuit)}]_vars
=============================================================================
