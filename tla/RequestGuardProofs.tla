------------------------- MODULE RequestGuardProofs -------------------------
(***************************************************************************)
(* The token bucket of RequestGuard for every capacity, rate, interval and *)
(* set of callers: it never hands out more than its capacity and what the  *)
(* time has refilled.                                                      *)
(*                                                                         *)
(* RateBound is not inductive: a refill could add tokens for time that was *)
(* counted before.  What makes it so is that the clock of the refill moves *)
(* by whole intervals, each of which has paid for its tokens:              *)
(* lastRefill is k intervals after born, and tokens held or spent are at   *)
(* most MaxTokens + k * RefillRate.                                        *)
(***************************************************************************)
EXTENDS RequestGuard, FiniteSetTheorems, TLAPS

(* Elapsed time is k whole intervals, which pay for k refills. *)
Paid(k) ==
  /\ lastRefill = born + k * RefillInterval
  /\ tokens + spent <= MaxTokens + k * RefillRate

BucketInv ==
  /\ now \in Nat /\ tokens \in Nat /\ spent \in Nat /\ born \in Nat /\ lastRefill \in Nat
  /\ tokens <= MaxTokens
  /\ lastRefill <= now
  /\ \E k \in Nat : Paid(k)

(* Division by the interval: what the code's integer division returns.      *)
LEMMA Division ==
  ASSUME NEW a \in Nat, NEW n \in Nat, n > 0
  PROVE  /\ a \div n \in Nat
         /\ (a \div n) * n <= a
         /\ a < (a \div n) * n + n
  OBVIOUS

(* A time that is at least k intervals long divides into at least k.        *)
LEMMA AtLeast ==
  ASSUME NEW a \in Nat, NEW k \in Nat, NEW n \in Nat, n > 0, k * n <= a
  PROVE  k <= a \div n
  <1> DEFINE q == a \div n
  <1>1. q \in Nat /\ a < q * n + n
    BY Division
  <1> HIDE DEF q
  <1>2. k * n < (q + 1) * n
    BY <1>1
  <1>3. k < q + 1
    BY <1>1, <1>2
  <1> QED BY <1>1, <1>3 DEF q

(* Multiplication by the rate is monotone.                                  *)
LEMMA Monotone ==
  ASSUME NEW a \in Nat, NEW b \in Nat, NEW r \in Nat, a <= b
  PROVE  a * r <= b * r
  OBVIOUS

(* The bucket is full when it starts.                                       *)
LEMMA BucketStarts == Init => BucketInv
  <1> SUFFICES ASSUME Init PROVE BucketInv
    OBVIOUS
  <1>1. Paid(0)
    BY BucketOK DEF Init, Paid
  <1> QED BY <1>1, BucketOK DEF Init, BucketInv

(* A refill advances the clock by whole intervals, not beyond the present,  *)
(* and adds at most what they pay for, up to the capacity.                  *)
LEMMA RefillPays ==
  ASSUME BucketInv
  PROVE  /\ RefilledAt(now) \in Nat /\ TokensAt(now) \in 0..MaxTokens
         /\ RefilledAt(now) <= now
         /\ \E k \in Nat : /\ RefilledAt(now) = born + k * RefillInterval
                          /\ TokensAt(now) + spent <= MaxTokens + k * RefillRate
  <1> DEFINE q == Intervals(now)
             a == now - lastRefill
  <1>1. PICK k \in Nat : Paid(k)
    BY DEF BucketInv
  <1>2. a \in Nat /\ RefillInterval \in Nat /\ RefillInterval > 0 /\ RefillRate \in Nat /\ MaxTokens \in Nat
    BY BucketOK DEF BucketInv
  <1>3. q \in Nat /\ q * RefillInterval <= a
    BY <1>2, Division DEF Intervals
  <1>4. RefilledAt(now) = lastRefill + q * RefillInterval
    BY DEF RefilledAt
  <1>5. TokensAt(now) = Least(tokens + q * RefillRate, MaxTokens)
    BY DEF TokensAt
  <1> HIDE DEF q
  <1>6. q * RefillRate \in Nat /\ q * RefillInterval \in Nat
    BY <1>2, <1>3
  <1>7. RefilledAt(now) \in Nat /\ RefilledAt(now) <= now
    BY <1>3, <1>4, <1>6 DEF BucketInv
  <1>8. /\ TokensAt(now) \in 0..MaxTokens
        /\ TokensAt(now) <= tokens + q * RefillRate
    BY <1>2, <1>5, <1>6 DEF BucketInv, Least
  <1>9. /\ k + q \in Nat
        /\ (k + q) * RefillInterval = k * RefillInterval + q * RefillInterval
        /\ (k + q) * RefillRate = k * RefillRate + q * RefillRate
        /\ k * RefillInterval \in Nat /\ k * RefillRate \in Nat
    BY <1>1, <1>2, <1>3
  <1>10. RefilledAt(now) = born + (k + q) * RefillInterval
    BY <1>1, <1>4, <1>6, <1>9 DEF Paid, BucketInv
  <1>11. TokensAt(now) + spent <= MaxTokens + (k + q) * RefillRate
    BY <1>1, <1>2, <1>6, <1>8, <1>9 DEF Paid, BucketInv
  <1> QED BY <1>7, <1>8, <1>9, <1>10, <1>11

(* Whoever takes tokens takes them from a refilled bucket.                  *)
LEMMA TakePays ==
  ASSUME BucketInv, NEW n \in Nat, Take(n), now' = now
  PROVE  BucketInv'
  <1>1. PICK k \in Nat : /\ RefilledAt(now) = born + k * RefillInterval
                         /\ TokensAt(now) + spent <= MaxTokens + k * RefillRate
    BY RefillPays
  <1>2. /\ lastRefill' = RefilledAt(now) /\ tokens' = TokensAt(now) - n /\ TokensAt(now) >= n
        /\ spent' = spent + n /\ born' = born
    BY DEF Take
  <1>3. RefilledAt(now) \in Nat /\ TokensAt(now) \in 0..MaxTokens /\ RefilledAt(now) <= now
    BY RefillPays
  <1>4. k * RefillRate \in Nat /\ MaxTokens \in Nat
    BY BucketOK
  <1>5. Paid(k)'
    BY <1>1, <1>2, <1>3, <1>4 DEF Paid, BucketInv
  <1> QED BY <1>2, <1>3, <1>4, <1>5 DEF BucketInv

(* Asking in vain refills, and that is all.                                 *)
LEMMA AskPays ==
  ASSUME BucketInv, TakeNothing, now' = now
  PROVE  BucketInv'
  <1>1. PICK k \in Nat : /\ RefilledAt(now) = born + k * RefillInterval
                         /\ TokensAt(now) + spent <= MaxTokens + k * RefillRate
    BY RefillPays
  <1>2. /\ lastRefill' = RefilledAt(now) /\ tokens' = TokensAt(now)
        /\ spent' = spent /\ born' = born
    BY DEF TakeNothing, Refill
  <1>3. RefilledAt(now) \in Nat /\ TokensAt(now) \in 0..MaxTokens /\ RefilledAt(now) <= now
    BY RefillPays
  <1>4. Paid(k)'
    BY <1>1, <1>2 DEF Paid
  <1> QED BY <1>2, <1>3, <1>4, BucketOK DEF BucketInv

(* No call on the guard, no reset and no passing of time disturbs it.       *)
LEMMA BucketStep == BucketInv /\ [Next]_vars => BucketInv'
  <1> SUFFICES ASSUME BucketInv, [Next]_vars PROVE BucketInv'
    OBVIOUS
  <1>1. ASSUME NEW k \in Callers, Admit(k) \/ Refuse(k) PROVE BucketInv'
    <2>1. Take(1) /\ now' = now
      BY <1>1 DEF Admit, Refuse
    <2> QED BY <2>1, TakePays
  <1>2. ASSUME NEW k \in Callers, Throttle(k) PROVE BucketInv'
    <2>1. TakeNothing /\ now' = now
      BY <1>2 DEF Throttle
    <2> QED BY <2>1, AskPays
  <1>3. ASSUME UNCHANGED <<now, bucket>> PROVE BucketInv'
    BY <1>3 DEF BucketInv, Paid, bucket
  <1>4. ASSUME NEW k \in Callers, RecordSuccess(k) \/ RecordFailure(k) \/ Lose(k) PROVE BucketInv'
    <2>1. UNCHANGED <<now, bucket>>
      BY <1>4 DEF RecordSuccess, RecordFailure, Report, Lose
    <2> QED BY <2>1, <1>3
  <1>5. ASSUME NEW n \in 0..MaxRequest, CheckN(n) PROVE BucketInv'
    <2>1. now' = now /\ n \in Nat
      BY <1>5, BucketOK DEF CheckN
    <2>2. Take(n) \/ TakeNothing
      BY <1>5 DEF CheckN
    <2> QED BY <2>1, <2>2, TakePays, AskPays
  <1>6. CASE Available
    <2>1. TakeNothing /\ now' = now
      BY <1>6 DEF Available
    <2> QED BY <2>1, AskPays
  <1>7. CASE ResetBucket
    <2>1. /\ now' = now /\ tokens' = MaxTokens /\ spent' = 0
          /\ lastRefill' = now /\ born' = now
      BY <1>7 DEF ResetBucket
    <2>2. Paid(0)'
      BY <2>1, BucketOK DEF Paid, BucketInv
    <2> QED BY <2>1, <2>2, BucketOK DEF BucketInv
  <1>8. CASE ResetCircuit \/ RegisterCircuit
    BY <1>3, <1>8 DEF ResetCircuit, RegisterCircuit, Replace
  <1>9. CASE Tick
    <2>1. now' = now + 1 /\ UNCHANGED bucket
      BY <1>9 DEF Tick
    <2>2. PICK k \in Nat : Paid(k)
      BY DEF BucketInv
    <2>3. Paid(k)'
      BY <2>1, <2>2 DEF Paid, bucket
    <2> QED BY <2>1, <2>3 DEF BucketInv, bucket
  <1>10. CASE UNCHANGED vars
    BY <1>3, <1>10 DEF vars, bucket
  <1> QED BY <1>1, <1>2, <1>4, <1>5, <1>6, <1>7, <1>8, <1>9, <1>10 DEF Next

(* The invariant gives the bound: the intervals paid for are over.          *)
LEMMA InvBounds == BucketInv => RateBound
  <1> SUFFICES ASSUME BucketInv PROVE RateBound
    OBVIOUS
  <1> DEFINE a == now - born
             q == a \div RefillInterval
  <1>1. PICK k \in Nat : Paid(k)
    BY DEF BucketInv
  <1>2. RefillInterval \in Nat /\ RefillInterval > 0 /\ RefillRate \in Nat /\ MaxTokens \in Nat
    BY BucketOK
  <1>3. k * RefillInterval \in Nat /\ k * RefillRate \in Nat
    BY <1>2
  <1>4. a \in Nat /\ k * RefillInterval <= a
    BY <1>1, <1>3 DEF Paid, BucketInv
  <1>5. q \in Nat /\ k <= q
    BY <1>2, <1>4, Division, AtLeast
  <1> HIDE DEF q
  <1>6. k * RefillRate <= q * RefillRate /\ q * RefillRate \in Nat
    BY <1>2, <1>5, Monotone
  <1>7. spent <= MaxTokens + q * RefillRate
    BY <1>1, <1>2, <1>3, <1>6 DEF Paid, BucketInv
  <1> QED BY <1>7 DEF RateBound, q

(* For every capacity, rate and interval, and any callers: the bucket       *)
(* (RateLimiter::check_n and _refill) hands out no more than its capacity   *)
(* and RefillRate for every whole interval since it was created or reset.   *)
THEOREM RateIsBounded == Spec => []RateBound
  <1>1. Init => BucketInv
    BY BucketStarts
  <1>2. BucketInv /\ [Next]_vars => BucketInv'
    BY BucketStep
  <1>3. BucketInv => RateBound
    BY InvBounds
  <1> QED BY <1>1, <1>2, <1>3, PTL DEF Spec

(***************************************************************************)
(* The waiting time                                                        *)
(***************************************************************************)

(* Rounding up: as many refills as RetryAfter waits for bring the deficit.  *)
LEMMA RoundedUp ==
  ASSUME NEW d \in Nat, NEW r \in Nat, r > 0
  PROVE  /\ (d + r - 1) \div r \in Nat
         /\ d <= ((d + r - 1) \div r) * r
  <1> DEFINE q == (d + r - 1) \div r
  <1>1. d + r - 1 \in Nat
    OBVIOUS
  <1>2. q \in Nat /\ d + r - 1 < q * r + r
    BY <1>1, Division
  <1> HIDE DEF q
  <1>3. q * r \in Nat
    BY <1>2
  <1>4. d <= q * r
    BY <1>2, <1>3
  <1> QED BY <1>2, <1>4 DEF q

(* Whatever the rate, the interval and the time that has passed: who waits  *)
(* as long as check_n says finds the tokens, if nobody takes any meanwhile. *)
LEMMA FitsSuffices ==
  ASSUME BucketInv, NEW n \in 1..MaxTokens, RefillRate > 0, tokens < n
  PROVE  TokensAt(now + RetryAfter(n)) >= n
  <1> DEFINE d == n - tokens
             m == (d + RefillRate - 1) \div RefillRate
             t == now + m * RefillInterval
             a == t - lastRefill
             q == a \div RefillInterval
  <1>1. RefillInterval \in Nat /\ RefillInterval > 0 /\ RefillRate \in Nat /\ MaxTokens \in Nat
    BY BucketOK
  <1>2. d \in Nat
    BY <1>1 DEF BucketInv
  <1>3. m \in Nat /\ d <= m * RefillRate
    BY <1>1, <1>2, RoundedUp
  <1>4. RetryAfter(n) = m * RefillInterval
    BY DEF RetryAfter
  <1> HIDE DEF m, d
  <1>5. TokensAt(t) = Least(tokens + q * RefillRate, MaxTokens)
    <2> HIDE DEF t
    <2> QED BY DEF TokensAt, Intervals
  <1>6. m * RefillInterval \in Nat /\ m * RefillRate \in Nat
    BY <1>1, <1>3
  <1>7. a \in Nat /\ m * RefillInterval <= a
    BY <1>6 DEF BucketInv
  <1>8. q \in Nat /\ m <= q
    BY <1>1, <1>3, <1>7, Division, AtLeast
  <1> HIDE DEF q
  <1>9. m * RefillRate <= q * RefillRate /\ q * RefillRate \in Nat
    BY <1>1, <1>3, <1>8, Monotone
  <1>10. n <= tokens + q * RefillRate
    BY <1>2, <1>3, <1>6, <1>9 DEF d, BucketInv
  <1>11. TokensAt(t) >= n
    BY <1>1, <1>5, <1>9, <1>10 DEF Least, BucketInv
  <1> QED BY <1>4, <1>11

(* And no bucket ever holds more than it can.                               *)
LEMMA NeverBeyondCapacity ==
  ASSUME BucketInv, NEW t \in Nat, lastRefill <= t
  PROVE  TokensAt(t) \in Nat /\ TokensAt(t) <= MaxTokens
  <1> DEFINE q == (t - lastRefill) \div RefillInterval
             x == tokens + q * RefillRate
  <1>1. t - lastRefill \in Nat /\ RefillInterval \in Nat /\ RefillInterval > 0
        /\ RefillRate \in Nat /\ MaxTokens \in Nat /\ tokens \in Nat
    BY BucketOK DEF BucketInv
  <1>2. q \in Nat
    BY <1>1, Division
  <1> HIDE DEF q
  <1>3. q * RefillRate \in Nat
    BY <1>1, <1>2
  <1>4. TokensAt(t) = Least(x, MaxTokens)
    BY DEF TokensAt, Intervals, q
  <1> QED BY <1>1, <1>3, <1>4 DEF Least

LEMMA InvSuffices == BucketInv => RetryAfterSuffices
  <1> SUFFICES ASSUME BucketInv, NEW n \in 1..MaxRequest, RefillRate > 0, tokens < n
               PROVE  TokensAt(now + RetryAfter(n)) >= n <=> n <= MaxTokens
    BY DEF RetryAfterSuffices
  <1>1. MaxTokens \in Nat /\ n \in Nat /\ n >= 1
    BY BucketOK
  <1>2. CASE n <= MaxTokens
    <2>1. n \in 1..MaxTokens
      BY <1>1, <1>2
    <2> QED BY <1>2, <2>1, FitsSuffices
  <1>3. CASE n > MaxTokens
    <2> DEFINE t == now + RetryAfter(n)
    <2>1. n - tokens \in Nat /\ RefillRate \in Nat /\ RefillInterval \in Nat
      BY <1>1, BucketOK DEF BucketInv
    <2> DEFINE m == (n - tokens + RefillRate - 1) \div RefillRate
    <2>2. m \in Nat
      BY <2>1, RoundedUp
    <2> HIDE DEF m
    <2>3. m * RefillInterval \in Nat
      BY <2>1, <2>2
    <2>4. RetryAfter(n) \in Nat
      BY <2>3 DEF RetryAfter, m
    <2>5. t \in Nat /\ lastRefill <= t
      BY <2>4 DEF BucketInv
    <2> HIDE DEF t
    <2>6. TokensAt(t) \in Nat /\ TokensAt(t) <= MaxTokens
      BY <2>5, NeverBeyondCapacity
    <2>7. ~(TokensAt(t) >= n) /\ ~(n <= MaxTokens)
      BY <1>1, <1>3, <2>6
    <2> QED BY <2>7 DEF t
  <1> QED BY <1>1, <1>2, <1>3

(* For every bucket and every request: the retry_after_ms of a refusal is   *)
(* long enough if the bucket can hold what was asked for, and is never long *)
(* enough if it cannot (check_n).                                           *)
THEOREM RetryAfterIsEnough == Spec => []RetryAfterSuffices
  <1> QED BY BucketStarts, BucketStep, InvSuffices, PTL DEF Spec

(***************************************************************************)
(* The open circuit                                                        *)
(***************************************************************************)

(* What the circuit's counters may hold; a closed circuit has not reached   *)
(* the threshold that opens it.                                             *)
Fine(c) ==
  /\ c \in Circuit
  /\ c.failures <= FailureThreshold
  /\ c.state = "closed" => c.failures < FailureThreshold
  /\ c.successes < SuccessThreshold

CircuitInv == Fine(circuit)

GuardInv ==
  /\ BucketInv /\ now <= MaxTime
  /\ CircuitInv
  /\ calls \in [Callers -> Call]
  /\ lost \in 0..LossBudget

(* check_timeout keeps the counters in their ranges.                        *)
LEMMA FineAfterTimeout ==
  ASSUME Fine(circuit)
  PROVE  Fine(CheckTimeout)
  <1> DEFINE d == [circuit EXCEPT !.state = "half_open", !.probes = 0, !.successes = 0]
  <1>1. d \in Circuit
    BY DEF Fine, Circuit
  <1>2. d.state = "half_open" /\ d.failures = circuit.failures /\ d.successes = 0
    BY DEF Fine, Circuit
  <1> HIDE DEF d
  <1>3. Fine(d)
    BY <1>1, <1>2, CircuitOK DEF Fine
  <1>4. CheckTimeout \in {circuit, d}
    BY DEF CheckTimeout, d
  <1> QED BY <1>3, <1>4

(* So does allow_request.                                                   *)
LEMMA FineAfterAllow ==
  ASSUME NEW c, Fine(c)
  PROVE  Fine(AfterAllow(c))
  <1> DEFINE d == [c EXCEPT !.probes = @ + 1]
  <1>1. d \in Circuit
    BY DEF Fine, Circuit
  <1>2. d.state = c.state /\ d.failures = c.failures /\ d.successes = c.successes
    BY DEF Fine, Circuit
  <1> HIDE DEF d
  <1>3. Fine(d)
    BY <1>1, <1>2 DEF Fine
  <1>4. AfterAllow(c) \in {c, d}
    BY DEF AfterAllow, d
  <1> QED BY <1>3, <1>4

(* So does record_success.                                                  *)
LEMMA FineAfterSuccess ==
  ASSUME NEW c, Fine(c)
  PROVE  Fine(AfterSuccess(c))
  <1> DEFINE healed == [c EXCEPT !.failures = 0]
             closed == [c EXCEPT !.state = "closed", !.failures = 0, !.successes = 0, !.probes = 0]
             passed == [c EXCEPT !.successes = @ + 1]
  <1>1. healed \in Circuit /\ closed \in Circuit /\ passed \in Circuit
    <2>1. healed \in Circuit
      BY DEF Fine, Circuit
    <2>2. closed \in Circuit
      BY DEF Fine, Circuit
    <2>3. passed \in Circuit
      BY DEF Fine, Circuit
    <2> QED BY <2>1, <2>2, <2>3
  <1>2. /\ healed.state = c.state /\ healed.failures = 0 /\ healed.successes = c.successes
        /\ closed.state = "closed" /\ closed.failures = 0 /\ closed.successes = 0
        /\ passed.state = c.state /\ passed.failures = c.failures
        /\ passed.successes = c.successes + 1
    BY DEF Fine, Circuit
  <1>3. /\ c.state \in {"closed", "open", "half_open"} /\ c.successes \in Nat
        /\ SuccessThreshold \in Nat \ {0} /\ FailureThreshold \in Nat \ {0}
    BY CircuitOK DEF Fine, Circuit
  <1>4. /\ c.state = "closed" => AfterSuccess(c) = healed
        /\ c.state = "open" => AfterSuccess(c) = c
        /\ c.state = "half_open" /\ c.successes + 1 >= SuccessThreshold => AfterSuccess(c) = closed
        /\ c.state = "half_open" /\ c.successes + 1 < SuccessThreshold => AfterSuccess(c) = passed
    BY <1>3 DEF AfterSuccess
  <1> HIDE DEF healed, closed, passed
  <1>5. Fine(healed) /\ Fine(closed)
    BY <1>1, <1>2, <1>3 DEF Fine
  <1>6. c.state = "half_open" /\ c.successes + 1 < SuccessThreshold => Fine(passed)
    BY <1>1, <1>2, <1>3 DEF Fine
  <1> QED BY <1>3, <1>4, <1>5, <1>6

(* So does record_failure.                                                  *)
LEMMA FineAfterFailure ==
  ASSUME NEW c, Fine(c), now \in Nat
  PROVE  Fine(AfterFailure(c))
  <1> DEFINE opened   == [c EXCEPT !.failures = @ + 1, !.state = "open", !.openedAt = now]
             counted  == [c EXCEPT !.failures = @ + 1]
             reopened == [c EXCEPT !.state = "open", !.openedAt = now, !.successes = 0, !.probes = 0]
  <1>1. opened \in Circuit /\ counted \in Circuit /\ reopened \in Circuit
    <2>1. counted \in Circuit
      BY DEF Fine, Circuit
    <2>2. opened \in Circuit
      <3> DEFINE d == counted
      <3>1. opened = [d EXCEPT !.state = "open", !.openedAt = now]
        OBVIOUS
      <3> HIDE DEF d, opened
      <3> QED BY <2>1, <3>1 DEF Circuit, d
    <2>3. reopened \in Circuit
      BY DEF Fine, Circuit
    <2> QED BY <2>1, <2>2, <2>3
  <1>2. /\ opened.state = "open" /\ opened.failures = c.failures + 1
        /\ opened.successes = c.successes
        /\ counted.state = c.state /\ counted.failures = c.failures + 1
        /\ counted.successes = c.successes
        /\ reopened.state = "open" /\ reopened.failures = c.failures /\ reopened.successes = 0
    BY DEF Fine, Circuit
  <1>3. /\ c.state \in {"closed", "open", "half_open"} /\ c.failures \in Nat
        /\ SuccessThreshold \in Nat \ {0} /\ FailureThreshold \in Nat \ {0}
    BY CircuitOK DEF Fine, Circuit
  <1>4. /\ c.state = "closed" /\ c.failures + 1 >= FailureThreshold => AfterFailure(c) = opened
        /\ c.state = "closed" /\ c.failures + 1 < FailureThreshold => AfterFailure(c) = counted
        /\ c.state = "half_open" => AfterFailure(c) = reopened
        /\ c.state = "open" => AfterFailure(c) = c
    BY <1>3 DEF AfterFailure
  <1> HIDE DEF opened, counted, reopened
  <1>5. Fine(reopened)
    BY <1>1, <1>2, <1>3 DEF Fine
  <1>6. c.state = "closed" => Fine(opened)
    BY <1>1, <1>2, <1>3 DEF Fine
  <1>7. c.state = "closed" /\ c.failures + 1 < FailureThreshold => Fine(counted)
    BY <1>1, <1>2, <1>3 DEF Fine
  <1> QED BY <1>3, <1>4, <1>5, <1>6, <1>7

(* So does reset.                                                           *)
LEMMA FineAfterReset ==
  ASSUME NEW c
  PROVE  Fine(AfterReset(c))
  BY CircuitOK DEF AfterReset, Closed, Fine, Circuit

(* Whatever the circuit becomes, each caller has one kind of call under way. *)
LEMMA CallsKept ==
  ASSUME NEW c, calls \in [Callers -> Call]
  PROVE  Under(c) \in [Callers -> Call]
  BY DEF Under, Call

(* The invariant of the whole guard holds at the start.                     *)
LEMMA GuardStarts == Init => GuardInv
  <1> SUFFICES ASSUME Init PROVE GuardInv
    OBVIOUS
  <1>1. BucketInv
    BY BucketStarts
  <1>2. CircuitInv
    BY CircuitOK DEF Init, Closed, CircuitInv, Fine, Circuit
  <1> QED BY <1>1, <1>2, BucketOK, CircuitOK DEF Init, GuardInv, Call

(* Every step keeps it.                                                     *)
LEMMA GuardStep == GuardInv /\ [Next]_vars => GuardInv'
  <1> SUFFICES ASSUME GuardInv, [Next]_vars PROVE GuardInv'
    OBVIOUS
  <1> DEFINE Rest == /\ now <= MaxTime /\ CircuitInv /\ calls \in [Callers -> Call]
                     /\ lost \in 0..LossBudget
             Becomes == {circuit, CheckTimeout, AfterAllow(CheckTimeout), AfterSuccess(circuit),
                         AfterFailure(circuit), AfterReset(circuit)}
  <1>0. BucketInv'
    BY BucketStep DEF GuardInv
  <1>1. CircuitInv /\ now \in Nat /\ now <= MaxTime /\ calls \in [Callers -> Call]
        /\ lost \in 0..LossBudget
    BY DEF GuardInv, BucketInv
  <1>2. ASSUME circuit' \in Becomes PROVE CircuitInv'
    <2>1. Fine(circuit) /\ Fine(CheckTimeout) /\ Fine(AfterAllow(CheckTimeout))
      BY <1>1, FineAfterTimeout, FineAfterAllow DEF CircuitInv
    <2>2. Fine(AfterSuccess(circuit)) /\ Fine(AfterFailure(circuit)) /\ Fine(AfterReset(circuit))
      BY <1>1, <2>1, FineAfterSuccess, FineAfterFailure, FineAfterReset
    <2> DEFINE c == circuit'
    <2>3. c \in Becomes
      BY <1>2
    <2> HIDE DEF c
    <2>4. Fine(c)
      BY <2>1, <2>2, <2>3
    <2> QED BY <2>4 DEF c, CircuitInv, Fine
  <1>3. ASSUME NEW k \in Callers, Admit(k) PROVE Rest'
    <2>1. /\ now' = now /\ lost' = lost /\ circuit' = AfterAllow(CheckTimeout)
          /\ calls' = [Under(CheckTimeout) EXCEPT ![k] = AdmittedAs(CheckTimeout)]
      BY <1>3 DEF Admit
    <2>2. calls' \in [Callers -> Call]
      BY <1>1, <2>1, CallsKept DEF AdmittedAs, Call
    <2>3. CircuitInv'
      BY <1>2, <2>1
    <2> QED BY <1>1, <2>1, <2>2, <2>3
  <1>4. ASSUME NEW k \in Callers, Refuse(k) PROVE Rest'
    <2>1. /\ now' = now /\ lost' = lost /\ circuit' = CheckTimeout
          /\ calls' = Under(CheckTimeout)
      BY <1>4 DEF Refuse
    <2>2. CircuitInv'
      BY <1>2, <2>1
    <2> QED BY <1>1, <2>1, <2>2, CallsKept
  <1>5. ASSUME NEW k \in Callers, RecordSuccess(k) \/ RecordFailure(k) PROVE Rest'
    <2>1. PICK c \in {AfterSuccess(circuit), AfterFailure(circuit)} :
            /\ now' = now /\ lost' = lost /\ circuit' = c
            /\ calls' = [Under(c) EXCEPT ![k] = "none"]
      BY <1>5 DEF RecordSuccess, RecordFailure, Report
    <2>2. calls' \in [Callers -> Call]
      BY <1>1, <2>1, CallsKept DEF Call
    <2>3. CircuitInv'
      BY <1>2, <2>1
    <2> QED BY <1>1, <2>1, <2>2, <2>3
  <1>6. ASSUME NEW k \in Callers, Lose(k) PROVE Rest'
    <2>1. /\ now' = now /\ circuit' = circuit /\ lost < LossBudget /\ lost' = lost + 1
          /\ calls' = [calls EXCEPT ![k] = "none"]
      BY <1>6 DEF Lose
    <2>2. calls' \in [Callers -> Call]
      BY <1>1, <2>1 DEF Call
    <2>3. CircuitInv'
      BY <1>2, <2>1
    <2>4. lost' \in 0..LossBudget
      BY <1>1, <2>1, CircuitOK
    <2> QED BY <1>1, <2>1, <2>2, <2>3, <2>4
  <1>7. ASSUME UNCHANGED <<now, circuit, calls, lost>> PROVE Rest'
    BY <1>1, <1>7 DEF CircuitInv, Fine
  <1>8. ASSUME NEW k \in Callers, Throttle(k) PROVE Rest'
    BY <1>7, <1>8 DEF Throttle
  <1>9. ASSUME NEW n \in 0..MaxRequest, CheckN(n) PROVE Rest'
    BY <1>7, <1>9 DEF CheckN
  <1>10. ASSUME Available \/ ResetBucket \/ UNCHANGED vars PROVE Rest'
    <2>1. UNCHANGED <<now, circuit, calls, lost>>
      BY <1>10 DEF Available, ResetBucket, vars
    <2> QED BY <1>7, <2>1
  <1>11. ASSUME ResetCircuit \/ RegisterCircuit PROVE Rest'
    <2>1. /\ now' = now /\ lost' = lost /\ circuit' = AfterReset(circuit)
          /\ calls' = Under(AfterReset(circuit))
      BY <1>11 DEF ResetCircuit, RegisterCircuit, Replace, AfterReset
    <2>2. CircuitInv'
      BY <1>2, <2>1
    <2> QED BY <1>1, <2>1, <2>2, CallsKept
  <1>12. ASSUME Tick PROVE Rest'
    <2>1. /\ now < MaxTime /\ now' = now + 1 /\ lost' = lost /\ circuit' = circuit
          /\ calls' = calls
      BY <1>12 DEF Tick
    <2>2. now' <= MaxTime
      BY <1>1, <2>1, BucketOK
    <2> QED BY <1>1, <2>1, <2>2 DEF CircuitInv, Fine
  <1>13. Rest'
    BY <1>3, <1>4, <1>5, <1>6, <1>8, <1>9, <1>10, <1>11, <1>12 DEF Next
  <1> QED BY <1>0, <1>13 DEF GuardInv

(* For every choice of the constants: no counter of the guard ever leaves   *)
(* its range.                                                               *)
THEOREM GuardTypeCorrect == Spec => []TypeOK
  <1>1. GuardInv => TypeOK
    <2> SUFFICES ASSUME GuardInv PROVE TypeOK
      OBVIOUS
    <2>1. BucketInv /\ now <= MaxTime
      BY DEF GuardInv
    <2>2. PICK k \in Nat : Paid(k)
      BY <2>1 DEF BucketInv
    <2>3. k * RefillInterval \in Nat
      BY BucketOK
    <2>4. born <= lastRefill
      BY <2>1, <2>2, <2>3 DEF Paid, BucketInv
    <2>5. BucketTypeOK
      BY <2>1, <2>4, BucketOK DEF BucketTypeOK, BucketInv
    <2> QED BY <2>5 DEF GuardInv, CircuitInv, Fine, TypeOK
  <1> QED BY <1>1, GuardStarts, GuardStep, PTL DEF Spec

(* No call moves an open circuit before its timeout, but for a reset.       *)
LEMMA OpenStep ==
  ASSUME circuit.state = "open", now - circuit.openedAt < Timeout, now \in Nat,
         circuit.openedAt \in Nat, [Next]_vars
  PROVE  circuit' \in {circuit, AfterReset(circuit)}
  <1>1. CheckTimeout = circuit
    BY CircuitOK DEF CheckTimeout
  <1>2. AfterAllow(circuit) = circuit
    BY DEF AfterAllow
  <1>3. AfterSuccess(circuit) = circuit
    BY DEF AfterSuccess
  <1>4. AfterFailure(circuit) = circuit
    BY DEF AfterFailure
  <1>5. ASSUME NEW k \in Callers,
               Admit(k) \/ Refuse(k) \/ Throttle(k) \/ Lose(k)
        PROVE  circuit' = circuit
    BY <1>1, <1>2, <1>5 DEF Admit, Refuse, Throttle, Lose
  <1>6. ASSUME NEW k \in Callers, RecordSuccess(k) \/ RecordFailure(k)
        PROVE  circuit' = circuit
    BY <1>3, <1>4, <1>6 DEF RecordSuccess, RecordFailure, Report
  <1>7. ASSUME NEW n \in 0..MaxRequest, CheckN(n) PROVE circuit' = circuit
    BY <1>7 DEF CheckN
  <1>8. CASE Available \/ ResetBucket \/ Tick \/ UNCHANGED vars
    BY <1>8 DEF Available, ResetBucket, Tick, vars
  <1>9. CASE ResetCircuit \/ RegisterCircuit
    BY <1>9 DEF ResetCircuit, RegisterCircuit, Replace, AfterReset
  <1> QED BY <1>5, <1>6, <1>7, <1>8, <1>9 DEF Next

(* For every threshold and timeout and any callers: an open circuit stays   *)
(* open, with its deadline, until the timeout is over or somebody resets it *)
(* (record_success and record_failure of late answers included).            *)
THEOREM OpenCircuitWaits == Spec => OpenUntilTimeout
  <1> DEFINE Stays == circuit.state = "open" /\ now - circuit.openedAt < Timeout =>
                        circuit' \in {circuit, AfterReset(circuit)}
  <1>1. GuardInv /\ [Next]_vars => Stays
    <2> SUFFICES ASSUME GuardInv, [Next]_vars, circuit.state = "open",
                        now - circuit.openedAt < Timeout
                 PROVE  circuit' \in {circuit, AfterReset(circuit)}
      OBVIOUS
    <2>1. now \in Nat /\ circuit.openedAt \in Nat
      BY DEF GuardInv, BucketInv, CircuitInv, Fine, Circuit
    <2> QED BY <2>1, OpenStep
  <1>2. GuardInv /\ [Next]_vars => [Stays]_vars
    BY <1>1
  <1> QED BY <1>2, GuardStarts, GuardStep, PTL DEF Spec, OpenUntilTimeout

(***************************************************************************)
(* The probes                                                              *)
(***************************************************************************)

ProbesOf(f) == {k \in Callers : f[k] = "probe"}

(* A circuit c, the calls f under way and the number n of lost callers fit: *)
(* probes exist in a half-open circuit only, which counted each of them,    *)
(* and a probe it has counted is under way or was a success, unless it was  *)
(* lost.                                                                    *)
Fit(c, f, n) ==
  /\ IsFiniteSet(ProbesOf(f))
  /\ c.state # "half_open" => ProbesOf(f) = {}
  /\ Cardinality(ProbesOf(f)) <= c.probes /\ c.probes <= HalfOpenMax
  /\ n = 0 /\ c.state = "half_open" => c.probes <= Cardinality(ProbesOf(f)) + c.successes

ProbeInv == Fit(circuit, calls, lost)

(* An empty set of probes fits any circuit that has counted none.           *)
LEMMA NoProbesFit ==
  ASSUME NEW c, NEW f, NEW n, ProbesOf(f) = {}, c.probes \in 0..HalfOpenMax, c.successes \in Nat,
         c.state = "half_open" => c.probes = 0
  PROVE  Fit(c, f, n)
  BY FS_EmptySet, CircuitOK DEF Fit

(* One probe more or one less: how the number of probes changes.            *)
LEMMA ProbesChange ==
  ASSUME NEW f \in [Callers -> Call], NEW k \in Callers, NEW v \in Call, IsFiniteSet(ProbesOf(f)),
         NEW g, g = [f EXCEPT ![k] = v]
  PROVE  /\ IsFiniteSet(ProbesOf(g))
         /\ Cardinality(ProbesOf(f)) \in Nat /\ Cardinality(ProbesOf(g)) \in Nat
         /\ v = "probe" /\ f[k] # "probe" => Cardinality(ProbesOf(g)) = Cardinality(ProbesOf(f)) + 1
         /\ v # "probe" => Cardinality(ProbesOf(g)) \in
              {Cardinality(ProbesOf(f)) - 1, Cardinality(ProbesOf(f))}
  <1>1. Cardinality(ProbesOf(f)) \in Nat
    BY FS_CardinalityType
  <1>2. CASE v = "probe"
    <2>1. ProbesOf(g) = ProbesOf(f) \cup {k}
      BY <1>2 DEF ProbesOf
    <2>2. k \in ProbesOf(f) <=> f[k] = "probe"
      BY DEF ProbesOf
    <2>3. /\ IsFiniteSet(ProbesOf(g))
          /\ Cardinality(ProbesOf(g)) =
               IF k \in ProbesOf(f) THEN Cardinality(ProbesOf(f)) ELSE Cardinality(ProbesOf(f)) + 1
      <3> DEFINE S == ProbesOf(f)
      <3>1. /\ IsFiniteSet(S \cup {k})
            /\ Cardinality(S \cup {k}) = IF k \in S THEN Cardinality(S) ELSE Cardinality(S) + 1
        <4> HIDE DEF S
        <4> QED BY FS_AddElement DEF S
      <3> QED BY <2>1, <3>1
    <2> QED BY <1>1, <1>2, <2>2, <2>3
  <1>3. CASE v # "probe"
    <2>1. ProbesOf(g) = ProbesOf(f) \ {k}
      BY <1>3 DEF ProbesOf
    <2>2. k \in ProbesOf(f) <=> f[k] = "probe"
      BY DEF ProbesOf
    <2>3. /\ IsFiniteSet(ProbesOf(g))
          /\ Cardinality(ProbesOf(g)) =
               IF k \in ProbesOf(f) THEN Cardinality(ProbesOf(f)) - 1 ELSE Cardinality(ProbesOf(f))
      BY <2>1, FS_RemoveElement
    <2>4. Cardinality(ProbesOf(g)) \in Nat
      BY <2>3, FS_CardinalityType
    <2> QED BY <1>1, <1>3, <2>2, <2>3, <2>4
  <1> QED BY <1>2, <1>3

(* Probes outlive a change of the circuit only within a half-open episode.  *)
LEMMA ProbesUnder ==
  ASSUME NEW c, calls \in [Callers -> Call]
  PROVE  /\ Under(c) \in [Callers -> Call]
         /\ c.state = "half_open" /\ circuit.state = "half_open" => Under(c) = calls
         /\ ~(c.state = "half_open" /\ circuit.state = "half_open") => ProbesOf(Under(c)) = {}
  BY CallsKept DEF Under, ProbesOf, Call

(* check_timeout keeps the fit; the episode it begins has no probes yet.    *)
LEMMA FitAfterTimeout ==
  ASSUME Fine(circuit), calls \in [Callers -> Call], ProbeInv
  PROVE  Fit(CheckTimeout, Under(CheckTimeout), lost)
  <1> DEFINE c == CheckTimeout
  <1>1. CASE circuit.state = "open" /\ now - circuit.openedAt >= Timeout
    <2>1. c.state = "half_open" /\ c.probes = 0 /\ c.successes = 0
      BY <1>1 DEF CheckTimeout, Fine, Circuit
    <2> HIDE DEF c
    <2>2. ProbesOf(Under(c)) = {}
      BY <1>1, ProbesUnder
    <2>3. Fit(c, Under(c), lost)
      BY <2>1, <2>2, NoProbesFit, CircuitOK
    <2> QED BY <2>3 DEF c
  <1>2. CASE ~(circuit.state = "open" /\ now - circuit.openedAt >= Timeout)
    <2>1. c = circuit
      BY <1>2 DEF CheckTimeout
    <2>2. CASE circuit.state = "half_open"
      BY <2>1, <2>2, ProbesUnder DEF ProbeInv
    <2>3. CASE circuit.state # "half_open"
      <3>1. ProbesOf(Under(circuit)) = {}
        BY <2>3, ProbesUnder
      <3>2. circuit.probes \in 0..HalfOpenMax /\ circuit.successes \in Nat
        <4>1. circuit.probes \in Nat /\ circuit.successes \in Nat
          BY DEF Fine, Circuit
        <4> QED BY <4>1, CircuitOK DEF ProbeInv, Fit
      <3> QED BY <2>1, <2>3, <3>1, <3>2, NoProbesFit
    <2> QED BY <2>2, <2>3
  <1> QED BY <1>1, <1>2

(* allow_request: a probe more, and counted.                                *)
LEMMA FitAfterAllow ==
  ASSUME NEW c, Fine(c), NEW f \in [Callers -> Call], NEW n, Fit(c, f, n),
         NEW k \in Callers, f[k] # "probe", Admits(c)
  PROVE  Fit(AfterAllow(c), [f EXCEPT ![k] = AdmittedAs(c)], n)
  <1> DEFINE d == [c EXCEPT !.probes = @ + 1]
             g == [f EXCEPT ![k] = AdmittedAs(c)]
  <1>1. /\ c.state \in {"closed", "open", "half_open"} /\ c.probes \in Nat /\ c.successes \in Nat
        /\ d.state = c.state /\ d.probes = c.probes + 1 /\ d.successes = c.successes
    BY DEF Fine, Circuit
  <1>2. CASE c.state = "half_open"
    <2>1. MayProbe(c) /\ AdmittedAs(c) = "probe" /\ AfterAllow(c) = d
      BY <1>2 DEF Admits, AdmittedAs, AfterAllow
    <2>2. g = [f EXCEPT ![k] = "probe"]
      BY <2>1
    <2> HIDE DEF d, g
    <2>3. /\ IsFiniteSet(ProbesOf(g)) /\ Cardinality(ProbesOf(f)) \in Nat
          /\ Cardinality(ProbesOf(g)) = Cardinality(ProbesOf(f)) + 1
      <3>1. IsFiniteSet(ProbesOf(f)) /\ "probe" \in Call
        BY DEF Fit, Call
      <3>2. IsFiniteSet(ProbesOf(g)) /\ Cardinality(ProbesOf(f)) \in Nat
        BY <2>2, <3>1, ProbesChange
      <3>3. Cardinality(ProbesOf(g)) = Cardinality(ProbesOf(f)) + 1
        BY <2>2, <3>1, ProbesChange
      <3> QED BY <3>2, <3>3
    <2>4. c.probes + 1 <= HalfOpenMax
      BY <1>1, <2>1, CircuitOK DEF MayProbe
    <2>5. Fit(d, g, n)
      BY <1>1, <1>2, <2>3, <2>4, CircuitOK DEF Fit
    <2> QED BY <2>1, <2>5 DEF g
  <1>3. CASE c.state # "half_open"
    <2>1. AdmittedAs(c) = "call" /\ AfterAllow(c) = c
      BY <1>3 DEF AdmittedAs, AfterAllow
    <2>2. g = [f EXCEPT ![k] = "call"]
      BY <2>1
    <2> HIDE DEF g
    <2>3. ProbesOf(g) = {}
      BY <1>3, <2>2 DEF Fit, ProbesOf
    <2>4. c.probes \in 0..HalfOpenMax
      BY <1>1, CircuitOK DEF Fit
    <2>5. Fit(c, g, n)
      BY <1>1, <1>3, <2>3, <2>4, NoProbesFit
    <2> QED BY <2>1, <2>5 DEF g
  <1> QED BY <1>2, <1>3

(* record_success: a success more for at most one probe less.               *)
LEMMA FitAfterSuccess ==
  ASSUME Fine(circuit), calls \in [Callers -> Call], ProbeInv, NEW k \in Callers
  PROVE  Fit(AfterSuccess(circuit), [Under(AfterSuccess(circuit)) EXCEPT ![k] = "none"], lost)
  <1> DEFINE c      == AfterSuccess(circuit)
             g      == [Under(c) EXCEPT ![k] = "none"]
             closed == [circuit EXCEPT !.state = "closed", !.failures = 0, !.successes = 0, !.probes = 0]
             passed == [circuit EXCEPT !.successes = @ + 1]
             healed == [circuit EXCEPT !.failures = 0]
  <1>1. /\ circuit.state \in {"closed", "open", "half_open"}
        /\ circuit.probes \in Nat /\ circuit.successes \in Nat
        /\ SuccessThreshold \in Nat /\ HalfOpenMax \in Nat
    BY CircuitOK DEF Fine, Circuit
  <1>2. /\ closed.state = "closed" /\ closed.probes = 0 /\ closed.successes = 0
        /\ passed.state = circuit.state /\ passed.probes = circuit.probes
        /\ passed.successes = circuit.successes + 1
        /\ healed.state = circuit.state /\ healed.probes = circuit.probes
        /\ healed.successes = circuit.successes
    BY DEF Fine, Circuit
  <1>3. /\ circuit.state = "closed" => c = healed
        /\ circuit.state = "open" => c = circuit
        /\ circuit.state = "half_open" => c \in {closed, passed}
    BY <1>1 DEF AfterSuccess
  <1> HIDE DEF closed, passed, healed
  <1>4. CASE circuit.state = "half_open" /\ c = passed
    <2>1. Under(c) = calls /\ g = [calls EXCEPT ![k] = "none"]
      BY <1>2, <1>4, ProbesUnder
    <2> HIDE DEF c, g
    <2>2. /\ IsFiniteSet(ProbesOf(g))
          /\ Cardinality(ProbesOf(calls)) \in Nat /\ Cardinality(ProbesOf(g)) \in Nat
          /\ \/ Cardinality(ProbesOf(g)) = Cardinality(ProbesOf(calls))
             \/ Cardinality(ProbesOf(g)) = Cardinality(ProbesOf(calls)) - 1
      <3>1. IsFiniteSet(ProbesOf(calls)) /\ "none" \in Call
        BY DEF ProbeInv, Fit, Call
      <3>2. /\ IsFiniteSet(ProbesOf(g))
            /\ Cardinality(ProbesOf(calls)) \in Nat /\ Cardinality(ProbesOf(g)) \in Nat
        BY <2>1, <3>1, ProbesChange
      <3>3. \/ Cardinality(ProbesOf(g)) = Cardinality(ProbesOf(calls))
            \/ Cardinality(ProbesOf(g)) = Cardinality(ProbesOf(calls)) - 1
        BY <2>1, <3>1, ProbesChange
      <3> QED BY <3>2, <3>3
    <2>3. Fit(passed, g, lost)
      BY <1>1, <1>2, <1>4, <2>2 DEF ProbeInv, Fit
    <2> QED BY <1>4, <2>3 DEF c, g
  <1>5. CASE ~(circuit.state = "half_open" /\ c = passed)
    <2>1. c.state # "half_open" /\ c.probes \in 0..HalfOpenMax /\ c.successes \in Nat
      BY <1>1, <1>2, <1>3, <1>5 DEF ProbeInv, Fit
    <2> HIDE DEF c
    <2>2. Under(c) \in [Callers -> Call] /\ ProbesOf(Under(c)) = {}
      BY <2>1, ProbesUnder
    <2>3. ProbesOf(g) = {}
      BY <2>2 DEF ProbesOf
    <2> HIDE DEF g
    <2>4. Fit(c, g, lost)
      BY <2>1, <2>3, NoProbesFit
    <2> QED BY <2>4 DEF c, g
  <1> QED BY <1>4, <1>5

(* record_failure: a half-open circuit opens, and no call is a probe more.  *)
LEMMA FitAfterFailure ==
  ASSUME Fine(circuit), calls \in [Callers -> Call], ProbeInv, NEW k \in Callers
  PROVE  Fit(AfterFailure(circuit), [Under(AfterFailure(circuit)) EXCEPT ![k] = "none"], lost)
  <1> DEFINE c == AfterFailure(circuit)
             g == [Under(c) EXCEPT ![k] = "none"]
             opened   == [circuit EXCEPT !.failures = @ + 1, !.state = "open", !.openedAt = now]
             counted  == [circuit EXCEPT !.failures = @ + 1]
             reopened == [circuit EXCEPT !.state = "open", !.openedAt = now, !.successes = 0, !.probes = 0]
  <1>1. /\ circuit.state \in {"closed", "open", "half_open"} /\ circuit.failures \in Nat
        /\ circuit.probes \in Nat /\ circuit.successes \in Nat /\ HalfOpenMax \in Nat
        /\ FailureThreshold \in Nat
    BY CircuitOK DEF Fine, Circuit
  <1>2. /\ opened.state = "open" /\ opened.probes = circuit.probes /\ opened.successes = circuit.successes
        /\ counted.state = circuit.state /\ counted.probes = circuit.probes
        /\ counted.successes = circuit.successes
        /\ reopened.state = "open" /\ reopened.probes = 0 /\ reopened.successes = 0
    BY DEF Fine, Circuit
  <1>3. /\ circuit.state = "closed" => c \in {opened, counted}
        /\ circuit.state = "open" => c = circuit
        /\ circuit.state = "half_open" => c = reopened
    BY <1>1 DEF AfterFailure
  <1> HIDE DEF opened, counted, reopened
  <1>4. c.state # "half_open" /\ c.probes \in 0..HalfOpenMax /\ c.successes \in Nat
    BY <1>1, <1>2, <1>3 DEF ProbeInv, Fit
  <1> HIDE DEF c
  <1>5. Under(c) \in [Callers -> Call] /\ ProbesOf(Under(c)) = {}
    BY <1>4, ProbesUnder
  <1>6. ProbesOf(g) = {}
    BY <1>5 DEF ProbesOf
  <1> HIDE DEF g
  <1>7. Fit(c, g, lost)
    BY <1>4, <1>6, NoProbesFit
  <1> QED BY <1>7 DEF c, g

(* The circuit and its probes fit at the start, and every step keeps it so. *)
LEMMA ProbesStart == Init => ProbeInv
  <1> SUFFICES ASSUME Init PROVE ProbeInv
    OBVIOUS
  <1>1. circuit.state = "closed" /\ circuit.probes = 0 /\ circuit.successes = 0
    BY DEF Init, Closed
  <1>2. ProbesOf(calls) = {}
    BY DEF Init, ProbesOf
  <1> QED BY <1>1, <1>2, NoProbesFit, CircuitOK DEF ProbeInv

LEMMA ProbesStep == GuardInv /\ ProbeInv /\ [Next]_vars => ProbeInv'
  <1> SUFFICES ASSUME GuardInv, ProbeInv, [Next]_vars PROVE ProbeInv'
    OBVIOUS
  <1>1. Fine(circuit) /\ calls \in [Callers -> Call] /\ lost \in Nat
    BY CircuitOK DEF GuardInv, CircuitInv
  <1> DEFINE c == CheckTimeout
  <1>2. /\ Fine(c) /\ Fit(c, Under(c), lost) /\ Under(c) \in [Callers -> Call]
    BY <1>1, FineAfterTimeout, FitAfterTimeout, CallsKept
  <1> HIDE DEF c
  <1>3. ASSUME NEW k \in Callers, Admit(k) PROVE ProbeInv'
    <2>1. /\ calls[k] = "none" /\ Admits(c) /\ circuit' = AfterAllow(c) /\ lost' = lost
          /\ calls' = [Under(c) EXCEPT ![k] = AdmittedAs(c)]
      BY <1>3 DEF Admit, c
    <2>2. Under(c)[k] # "probe"
      BY <2>1 DEF Under
    <2> QED BY <1>2, <2>1, <2>2, FitAfterAllow DEF ProbeInv
  <1>4. ASSUME NEW k \in Callers, Refuse(k) PROVE ProbeInv'
    <2>1. circuit' = c /\ calls' = Under(c) /\ lost' = lost
      BY <1>4 DEF Refuse, c
    <2> QED BY <1>2, <2>1 DEF ProbeInv
  <1>5. ASSUME NEW k \in Callers, RecordSuccess(k) PROVE ProbeInv'
    BY <1>1, <1>5, FitAfterSuccess DEF RecordSuccess, Report, ProbeInv
  <1>6. ASSUME NEW k \in Callers, RecordFailure(k) PROVE ProbeInv'
    BY <1>1, <1>6, FitAfterFailure DEF RecordFailure, Report, ProbeInv
  <1>7. ASSUME NEW k \in Callers, Lose(k) PROVE ProbeInv'
    <2>1. circuit' = circuit /\ lost' = lost + 1 /\ calls' = [calls EXCEPT ![k] = "none"]
      BY <1>7 DEF Lose
    <2> DEFINE g == [calls EXCEPT ![k] = "none"]
    <2>2. IsFiniteSet(ProbesOf(calls)) /\ circuit.probes \in Nat
      BY <1>1 DEF ProbeInv, Fit, Fine, Circuit
    <2>3. ProbesOf(g) \subseteq ProbesOf(calls)
      BY <1>1 DEF ProbesOf
    <2> HIDE DEF g
    <2>4. /\ IsFiniteSet(ProbesOf(g)) /\ Cardinality(ProbesOf(g)) <= Cardinality(ProbesOf(calls))
          /\ Cardinality(ProbesOf(g)) \in Nat /\ Cardinality(ProbesOf(calls)) \in Nat
      BY <2>2, <2>3, FS_Subset, FS_CardinalityType
    <2>5. Fit(circuit, g, lost + 1)
      BY <1>1, <2>2, <2>3, <2>4, CircuitOK DEF ProbeInv, Fit
    <2> QED BY <2>1, <2>5 DEF ProbeInv, g
  <1>8. ASSUME ResetCircuit \/ RegisterCircuit PROVE ProbeInv'
    <2>1. circuit' = Closed /\ calls' = Under(Closed) /\ lost' = lost
      BY <1>8 DEF ResetCircuit, RegisterCircuit, Replace, AfterReset
    <2>2. Closed.state = "closed" /\ Closed.probes = 0 /\ Closed.successes = 0
      BY DEF Closed
    <2>3. ProbesOf(Under(Closed)) = {}
      BY <1>1, <2>2, ProbesUnder
    <2> QED BY <2>1, <2>2, <2>3, NoProbesFit, CircuitOK DEF ProbeInv
  <1>9. ASSUME \/ \E k \in Callers : Throttle(k)
               \/ \E n \in 0..MaxRequest : CheckN(n)
               \/ Available \/ ResetBucket \/ Tick \/ UNCHANGED vars
        PROVE  ProbeInv'
    <2>1. circuit' = circuit /\ calls' = calls /\ lost' = lost
      BY <1>9 DEF Throttle, CheckN, Available, ResetBucket, Tick, vars
    <2> QED BY <2>1 DEF ProbeInv
  <1> QED BY <1>3, <1>4, <1>5, <1>6, <1>7, <1>8, <1>9 DEF Next

LEMMA ProbesAlways == Spec => [](GuardInv /\ ProbeInv)
  BY GuardStarts, GuardStep, ProbesStart, ProbesStep, PTL DEF Spec

(* For any callers, however late they report and whether they report at     *)
(* all: no half-open episode has more than half_open_max_calls probes under *)
(* way (CircuitBreaker::allow_request).                                     *)
THEOREM NeverTooManyProbes == Spec => []ProbesBounded
  <1>1. ProbeInv => ProbesBounded
    BY DEF ProbeInv, Fit, ProbesOf, ProbesBounded
  <1> QED BY <1>1, ProbesAlways, PTL

(* And if a half-open circuit admits as many probes as close it and every   *)
(* admitted call is reported: one that admits nobody waits for the report   *)
(* of a probe that is under way.                                            *)
THEOREM HalfOpenNeverStuck == Spec => []NeverWedged
  <1>1. GuardInv /\ ProbeInv => NeverWedged
    <2> SUFFICES ASSUME GuardInv, ProbeInv, SuccessThreshold <= HalfOpenMax,
                        lost = 0, circuit.state = "half_open", ~MayProbe(circuit)
                 PROVE  \E k \in Callers : calls[k] = "probe"
      BY DEF NeverWedged
    <2>1. /\ circuit.probes \in Nat /\ circuit.successes \in Nat
          /\ circuit.successes < SuccessThreshold
      BY DEF GuardInv, CircuitInv, Fine, Circuit
    <2>2. Cardinality(ProbesOf(calls)) \in Nat
      BY FS_CardinalityType DEF ProbeInv, Fit
    <2>3. Cardinality(ProbesOf(calls)) # 0
      BY <2>1, <2>2, CircuitOK DEF MayProbe, ProbeInv, Fit
    <2>4. ProbesOf(calls) # {}
      BY <2>3, FS_EmptySet
    <2> QED BY <2>4 DEF ProbesOf
  <1> QED BY <1>1, ProbesAlways, PTL
=============================================================================
