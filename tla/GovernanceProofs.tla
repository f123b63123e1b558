-------------------------- MODULE GovernanceProofs --------------------------
(***************************************************************************)
(* The governance core and those who mirror it: the signed ledger for      *)
(* every set of secrets and any number of edits; the breaker of a tool for *)
(* any number of sessions, any limit and any time; the bridge, which has   *)
(* lists and a canonical form of its own, for texts of any length; and the *)
(* scoring of leads, for numbers of any size.                              *)
(***************************************************************************)
EXTENDS ToolBreaker, CoreBridge, TLAPS

(***************************************************************************)
(* The signed ledger                                                       *)
(***************************************************************************)

(* An entry file, whatever was edited in it, still carries the signature of *)
(* what it was signed from.                                                 *)
Carries(x, h, alg, e, k) ==
  x = [entry |-> [event_hash |-> h, algorithm |-> alg, signature |-> <<k, AuditEventHash(e)>>],
       signed |-> e, key |-> k]

(* The inductive invariant: edits reach the hash and the algorithm of an    *)
(* entry, but its signature stays that of the event and the secret.         *)
LedgerInv ==
  /\ \A x \in entries : \E h, alg, e : \E k \in SigningKeys : Carries(x, h, alg, e, k)
  /\ VerifiedWasSigned

(* An entry made by sign_audit_event, which refuses an empty secret.        *)
LEMMA SignedCarries ==
  ASSUME NEW e, NEW k \in SigningKeys \cup {NoKey}, NEW y \in SignAuditEvent(e, k)
  PROVE  /\ k \in SigningKeys
         /\ y = [event_hash |-> AuditEventHash(e), algorithm |-> Algorithm,
                 signature |-> <<k, AuditEventHash(e)>>]
  BY DEF SignAuditEvent, None, Some

(* verify_signed_audit_event says true only of the verifier's own secret    *)
(* and an event of the same canonical form.                                 *)
LEMMA VerifiedCarries ==
  ASSUME NEW e, NEW k \in SigningKeys \cup {NoKey}, NEW x, NEW h, NEW alg, NEW f,
         NEW j \in SigningKeys, Carries(x, h, alg, f, j),
         VerifySignedAuditEvent(e, x.entry, k)
  PROVE  k = x.key /\ k # NoKey /\ CanonicalValue(x.signed) = CanonicalValue(e)
  <1>1. PICK y \in SignAuditEvent(e, k) : x.entry.signature = y.signature
    BY DEF VerifySignedAuditEvent
  <1>2. k \in SigningKeys /\ y.signature = <<k, AuditEventHash(e)>>
    BY SignedCarries
  <1>3. x.entry.signature = <<j, AuditEventHash(f)>> /\ x.key = j /\ x.signed = f
    BY DEF Carries
  <1>4. j = k /\ AuditEventHash(f) = AuditEventHash(e)
    BY <1>1, <1>2, <1>3
  <1> QED BY <1>2, <1>3, <1>4, GovernanceOK DEF AuditEventHash

LEMMA LedgerInvInit == LedgerInit => LedgerInv
  BY DEF LedgerInit, LedgerInv, VerifiedWasSigned, None

LEMMA LedgerInvStep == LedgerInv /\ [LedgerNext]_ledgerVars => LedgerInv'
  <1> SUFFICES ASSUME LedgerInv, [LedgerNext]_ledgerVars PROVE LedgerInv'
    OBVIOUS
  <1>1. CASE EditEvent
    BY <1>1 DEF EditEvent, LedgerInv, VerifiedWasSigned
  <1>2. ASSUME NEW known \in BOOLEAN, NEW complete \in BOOLEAN, Answer(known, complete)
        PROVE  LedgerInv'
    BY <1>2 DEF Answer, LedgerInv, VerifiedWasSigned, None
  <1>3. ASSUME NEW k \in SigningKeys \cup {NoKey}, SignEvent(k) PROVE LedgerInv'
    <2>1. exit'.of = None
      BY <1>3 DEF SignEvent
    <2>2. ASSUME NEW x \in entries', x \notin entries
          PROVE  \E h, alg, e : \E j \in SigningKeys : Carries(x, h, alg, e, j)
      <3>1. PICK y \in SignAuditEvent(event, k) : x = [entry |-> y, signed |-> event, key |-> k]
        BY <1>3, <2>2 DEF SignEvent, None
      <3>2. k \in SigningKeys /\ Carries(x, AuditEventHash(event), Algorithm, event, k)
        BY <3>1, SignedCarries DEF Carries
      <3> QED BY <3>2
    <2> QED BY <2>1, <2>2 DEF LedgerInv, VerifiedWasSigned, None
  <1>4. ASSUME NEW k \in SigningKeys \cup {NoKey}, NEW x \in entries, VerifyEvent(x, k)
        PROVE  LedgerInv'
    <2>1. PICK h, alg, e : \E j \in SigningKeys : Carries(x, h, alg, e, j)
      BY DEF LedgerInv
    <2>2. ASSUME NEW v \in exit'.of
          PROVE  /\ v.key = v.entry.key /\ v.key # NoKey
                 /\ CanonicalValue(v.entry.signed) = CanonicalValue(v.event)
      <3>1. /\ VerifySignedAuditEvent(event, x.entry, k)
            /\ v = [entry |-> x, event |-> event, key |-> k]
        BY <1>4, <2>2 DEF VerifyEvent, None, Some
      <3> QED BY <2>1, <3>1, VerifiedCarries
    <2> QED BY <1>4, <2>2 DEF VerifyEvent, LedgerInv, VerifiedWasSigned
  <1>5. ASSUME NEW x \in entries, EditEntry(x) PROVE LedgerInv'
    <2>1. PICK h, alg, e : \E j \in SigningKeys : Carries(x, h, alg, e, j)
      BY DEF LedgerInv
    <2>2. PICK j \in SigningKeys : Carries(x, h, alg, e, j)
      BY <2>1
    <2>3. PICK y : /\ y \in {[x EXCEPT !.entry.event_hash = AuditEventHash(event)],
                             [x EXCEPT !.entry.algorithm = "none"]}
                   /\ entries' = (entries \ {x}) \cup {y}
      BY <1>5 DEF EditEntry
    <2>4. \/ Carries(y, AuditEventHash(event), alg, e, j)
          \/ Carries(y, h, "none", e, j)
      BY <2>2, <2>3 DEF Carries
    <2>5. exit' = exit
      BY <1>5 DEF EditEntry
    <2> QED BY <2>3, <2>4, <2>5 DEF LedgerInv, VerifiedWasSigned
  <1>6. CASE UNCHANGED ledgerVars
    BY <1>6 DEF ledgerVars, LedgerInv, VerifiedWasSigned
  <1> QED BY <1>1, <1>2, <1>3, <1>4, <1>5, <1>6 DEF LedgerNext

(* verify-event never confirms an entry that was not signed with the        *)
(* verifier's secret from what the event file holds, for every secret and   *)
(* any number of edits of either file.                                      *)
THEOREM OnlySignedVerifies == LedgerSpec => []VerifiedWasSigned
  <1>1. LedgerInv => VerifiedWasSigned
    BY DEF LedgerInv
  <1> QED BY <1>1, LedgerInvInit, LedgerInvStep, PTL DEF LedgerSpec

(***************************************************************************)
(* The breaker of a tool                                                   *)
(***************************************************************************)

Breaker == [calls : Nat, windowStart : Nat, state : {"closed", "open"}, openedUntil : SUBSET Nat]

Stage == {"allowed", "raised", "select", "insert", "loaded"}

(* The inductive invariant: rows and copies of rows are rows, times are     *)
(* times.                                                                   *)
BreakerInv ==
  /\ zoned \in BOOLEAN /\ toolNow \in Nat
  /\ row \subseteq Breaker
  /\ check \in [Sessions -> [stage : Stage, at : Nat, copy : Breaker, aware : BOOLEAN]]

LEMMA FreshIsBreaker == ASSUME NEW at \in Nat PROVE FreshRow(at) \in Breaker
  BY DEF FreshRow, Breaker, None

LEMMA RenewedIsBreaker ==
  ASSUME NEW b \in Breaker, NEW at \in Nat PROVE Renewed(b, at) \in Breaker
  BY FreshIsBreaker DEF Renewed

LEMMA CountedIsBreaker ==
  ASSUME NEW b \in Breaker, NEW at \in Nat PROVE Counted(b, at) \in Breaker
  <1> DEFINE r == Renewed(b, at)
             c == [r EXCEPT !.calls = r.calls + 1]
  <1>1. r \in Breaker
    BY RenewedIsBreaker
  <1>2. c \in Breaker
    <2> HIDE DEF r
    <2> QED BY <1>1 DEF Breaker
  <1>3. at + 5 * Minute \in Nat
    BY GovernanceOK
  <1>4. [c EXCEPT !.state = "open", !.openedUntil = Some(at + 5 * Minute)] \in Breaker
    <2> HIDE DEF c
    <2>1. Some(at + 5 * Minute) \in SUBSET Nat
      BY <1>3 DEF Some
    <2> QED BY <1>2, <2>1 DEF Breaker
  <1>5. Counted(b, at) = IF c.calls > Limit
                         THEN [c EXCEPT !.state = "open", !.openedUntil = Some(at + 5 * Minute)] ELSE c
    BY DEF Counted
  <1> QED BY <1>2, <1>4, <1>5

(* Columns written over a row of the same table give a row.                 *)
LEMMA WrittenIsBreaker ==
  ASSUME NEW was \in Breaker, NEW is \in Breaker, NEW committed \in Breaker
  PROVE  Written(was, is, committed) \in Breaker
  BY DEF Written, Breaker

(* Over the row that was loaded, the columns written are the new row.       *)
LEMMA WrittenOverLoaded ==
  ASSUME NEW was \in Breaker, NEW is \in Breaker
  PROVE  Written(was, is, was) = is
  BY DEF Written, Breaker

LEMMA BreakerInvInit == BreakerInit => BreakerInv
  <1> SUFFICES ASSUME BreakerInit PROVE BreakerInv
    OBVIOUS
  <1>1. Outside("allowed") \in [stage : Stage, at : Nat, copy : Breaker, aware : BOOLEAN]
    BY FreshIsBreaker DEF Outside, Stage
  <1> QED BY <1>1 DEF BreakerInit, BreakerInv, None

LEMMA BreakerInvStep == BreakerInv /\ [BreakerNext]_breakerVars => BreakerInv'
  <1> DEFINE Check == [stage : Stage, at : Nat, copy : Breaker, aware : BOOLEAN]
  <1> SUFFICES ASSUME BreakerInv, [BreakerNext]_breakerVars PROVE BreakerInv'
    OBVIOUS
  <1>0. ASSUME NEW outcome \in Stage PROVE Outside(outcome) \in Check
    BY FreshIsBreaker DEF Outside
  <1>1. CASE ToolTick
    BY <1>1 DEF ToolTick, BreakerInv
  <1>2. ASSUME NEW s \in Sessions, BeginCheck(s) PROVE BreakerInv'
    <2>1. [Outside("select") EXCEPT !.at = toolNow] \in Check
      BY <1>0, FreshIsBreaker DEF BreakerInv, Stage, Outside
    <2> QED BY <1>2, <2>1 DEF BeginCheck, BreakerInv
  <1>3. ASSUME NEW s \in Sessions, SelectRow(s) PROVE BreakerInv'
    <2> DEFINE b == CHOOSE b \in (IF row = None THEN {FreshRow(check[s].at)} ELSE row) : TRUE
    <2>1. check[s] \in Check
      BY DEF BreakerInv
    <2>2. b \in Breaker
      <3>1. CASE row = None
        BY <2>1, <3>1, FreshIsBreaker
      <3>2. CASE row # None
        BY <3>2 DEF BreakerInv, None
      <3> QED BY <3>1, <3>2
    <2>3. /\ check' = [check EXCEPT ![s].stage = IF row = None THEN "insert" ELSE "loaded",
                                    ![s].aware = zoned \/ row = None, ![s].copy = b]
          /\ UNCHANGED <<zoned, toolNow, row>>
      BY <1>3 DEF SelectRow
    <2>4. (zoned \/ row = None) \in BOOLEAN
      BY DEF BreakerInv
    <2> HIDE DEF b
    <2> QED BY <2>1, <2>2, <2>3, <2>4 DEF BreakerInv, Stage
  <1>4. ASSUME NEW s \in Sessions, InsertRow(s) PROVE BreakerInv'
    <2>1. check[s] \in Check /\ Outside("raised") \in Check
      BY <1>0 DEF BreakerInv, Stage
    <2>2. CASE row = None
      <3>1. /\ row' = Some(check[s].copy) /\ check' = [check EXCEPT ![s].stage = "loaded"]
            /\ UNCHANGED <<zoned, toolNow>>
        BY <1>4, <2>2 DEF InsertRow
      <3> QED BY <2>1, <3>1 DEF BreakerInv, Stage, Some
    <2>3. CASE row # None
      BY <1>4, <2>1, <2>3 DEF InsertRow, Ends, BreakerInv
    <2> QED BY <2>2, <2>3
  <1>5. ASSUME NEW s \in Sessions, CannotCompare(s) \/ RefuseCall(s) PROVE BreakerInv'
    BY <1>5, <1>0 DEF CannotCompare, RefuseCall, Ends, BreakerInv, Stage
  <1>6. ASSUME NEW s \in Sessions, CountCall(s) PROVE BreakerInv'
    <2> DEFINE was == check[s].copy
               is == Counted(was, check[s].at)
    <2>1. PICK b \in row : /\ row' = Some(Written(was, is, b)) /\ UNCHANGED <<zoned, toolNow>>
                           /\ Ends(s, IF is.calls > Limit THEN "raised" ELSE "allowed")
      BY <1>6 DEF CountCall
    <2>2. was \in Breaker /\ is \in Breaker /\ b \in Breaker
      BY CountedIsBreaker DEF BreakerInv
    <2>3. Written(was, is, b) \in Breaker
      BY <2>2, WrittenIsBreaker
    <2>4. \E outcome \in Stage : Ends(s, outcome)
      BY <2>1 DEF Stage
    <2> QED BY <1>0, <2>1, <2>3, <2>4 DEF BreakerInv, Ends, Some
  <1>7. CASE UNCHANGED breakerVars
    BY <1>7 DEF breakerVars, BreakerInv
  <1> QED BY <1>1, <1>2, <1>3, <1>4, <1>5, <1>6, <1>7 DEF BreakerNext

(* Python's count and the core's, of one row at one time: the same verdict, *)
(* and a row of the same effect.                                            *)
LEMMA CountsAsTheCore ==
  ASSUME NEW b \in Breaker, NEW at \in Nat, ~IsOpen(b, at)
  PROVE  LET d == EvaluateCircuitBreaker(b, Limit, at) IN
         /\ (Counted(b, at).calls <= Limit) = d.allowed
         /\ Effect(Counted(b, at), at) = Effect(d.breaker, at)
  <1> DEFINE r == Renewed(b, at)
             c == [r EXCEPT !.calls = r.calls + 1]
             expired == b.windowStart + Minute <= at
             counted == [b EXCEPT !.calls = (IF expired THEN 0 ELSE b.calls) + 1,
                                  !.windowStart = IF expired THEN at ELSE b.windowStart]
             d == EvaluateCircuitBreaker(b, Limit, at)
             until == Some(at + 5 * Minute)
  <1>1. r \in Breaker
    BY RenewedIsBreaker
  <1>2. /\ counted.calls = c.calls /\ counted.windowStart = c.windowStart
        /\ counted.state = b.state /\ counted.openedUntil = b.openedUntil
    BY <1>1 DEF Renewed, FreshRow, Breaker
  <1>3. c.state \in {b.state, "closed"} /\ ~IsOpen(c, at)
    BY DEF Renewed, FreshRow, Breaker, IsOpen
  <1>4. Counted(b, at) = IF c.calls > Limit
                         THEN [c EXCEPT !.state = "open", !.openedUntil = until] ELSE c
    BY DEF Counted
  <1>5. d = IF counted.calls > Limit
            THEN [breaker |-> [counted EXCEPT !.state = "open", !.openedUntil = until], allowed |-> FALSE]
            ELSE [breaker |-> [counted EXCEPT !.state = "closed", !.openedUntil = None], allowed |-> TRUE]
    BY DEF EvaluateCircuitBreaker, IsOpen
  <1>6. [c EXCEPT !.state = "open", !.openedUntil = until] = [counted EXCEPT !.state = "open", !.openedUntil = until]
    BY <1>1, <1>2 DEF Breaker
  <1>7. [c EXCEPT !.state = "closed", !.openedUntil = None] = [counted EXCEPT !.state = "closed", !.openedUntil = None]
    BY <1>1, <1>2 DEF Breaker
  <1> SUFFICES /\ (Counted(b, at).calls <= Limit) = d.allowed
               /\ Effect(Counted(b, at), at) = Effect(d.breaker, at)
    OBVIOUS
  <1>8. CASE c.calls > Limit
    <2>1. Counted(b, at) = d.breaker /\ d.allowed = FALSE
      BY <1>2, <1>4, <1>5, <1>6, <1>8
    <2>2. Counted(b, at).calls = c.calls /\ c.calls \in Nat
      BY <1>1, <1>4, <1>8 DEF Breaker
    <2>3. (Counted(b, at).calls <= Limit) = FALSE
      BY <1>8, <2>2, BreakerOK
    <2> HIDE DEF d
    <2> QED BY <2>1, <2>3
  <1>9. CASE ~(c.calls > Limit)
    <2> DEFINE core == [counted EXCEPT !.state = "closed", !.openedUntil = None]
    <2>1. Counted(b, at) = c /\ d.breaker = core /\ d.allowed = TRUE
      BY <1>2, <1>4, <1>5, <1>9
    <2>2. Effect(c, at) = core
      BY <1>3, <1>7 DEF Effect
    <2>3. Effect(core, at) = core
      BY DEF Effect, IsOpen
    <2>4. c.calls \in Nat
      BY <1>1 DEF Breaker
    <2>5. (c.calls <= Limit) = TRUE
      BY <1>9, <2>4, BreakerOK
    <2> HIDE DEF c, d, core
    <2> QED BY <2>1, <2>2, <2>3, <2>5
  <1> QED BY <1>8, <1>9

(* One step of the check that no other commit came into. *)
LEMMA StepMirrors ==
  ASSUME BreakerInv, BreakerNext, NEW s \in Sessions,
         check[s].stage = "loaded", check'[s].stage # "loaded", check[s].aware,
         row = Some(check[s].copy)
  PROVE  LET at == check[s].at
             d == EvaluateCircuitBreaker(check[s].copy, Limit, at) IN
         /\ (check'[s].stage = "allowed") = d.allowed
         /\ \A b \in row' : Effect(b, at) = Effect(d.breaker, at)
  <1> DEFINE at == check[s].at
             was == check[s].copy
             is == Counted(was, at)
             d == EvaluateCircuitBreaker(was, Limit, at)
  <1>0. was \in Breaker /\ at \in Nat /\ is \in Breaker
    BY CountedIsBreaker DEF BreakerInv
  <1>1. CASE RefuseCall(s)
    <2>1. IsOpen(was, at) /\ row' = row
      BY <1>1 DEF RefuseCall
    <2>2. check'[s].stage = "raised"
      BY <1>1 DEF RefuseCall, Ends, Outside, BreakerInv
    <2>3. d.breaker = was /\ d.allowed = FALSE
      BY <2>1 DEF EvaluateCircuitBreaker, IsOpen
    <2> QED BY <2>1, <2>2, <2>3 DEF Some
  <1>2. CASE CountCall(s)
    <2>1. PICK b \in row : row' = Some(Written(was, is, b))
      BY <1>2 DEF CountCall
    <2>2. row' = Some(is)
      BY <1>0, <2>1, WrittenOverLoaded DEF Some
    <2>3. ~IsOpen(was, at) /\ Ends(s, IF is.calls > Limit THEN "raised" ELSE "allowed")
      BY <1>2 DEF CountCall
    <2>4. check'[s].stage = IF is.calls > Limit THEN "raised" ELSE "allowed"
      BY <2>3 DEF Ends, Outside, BreakerInv
    <2>5. (is.calls <= Limit) = d.allowed /\ Effect(is, at) = Effect(d.breaker, at)
      BY <1>0, <2>3, CountsAsTheCore
    <2>6. (check'[s].stage = "allowed") = (is.calls <= Limit)
      BY <1>0, <2>4, BreakerOK DEF Breaker
    <2> QED BY <2>2, <2>5, <2>6 DEF Some
  <1>3. ASSUME NEW t \in Sessions,
               \/ BeginCheck(t) \/ SelectRow(t) \/ InsertRow(t)
               \/ CannotCompare(t)
               \/ t # s /\ (RefuseCall(t) \/ CountCall(t))
        PROVE  FALSE
    BY <1>3 DEF BeginCheck, SelectRow, InsertRow, CannotCompare, RefuseCall, CountCall, Ends, BreakerInv
  <1>4. ~ToolTick
    BY DEF ToolTick
  <1> QED BY <1>1, <1>2, <1>3, <1>4 DEF BreakerNext

(* Between two commits of others, and with times that can be compared,      *)
(* Python and the core agree, whatever the interleaved checks before have   *)
(* left in the row.                                                         *)
THEOREM PythonMirrorsTheCore == BreakerSpec => MirrorsEvaluate
  <1>1. BreakerInv /\ [BreakerNext]_breakerVars =>
          [\A s \in Sessions :
             check[s].stage = "loaded" /\ check'[s].stage # "loaded" /\ check[s].aware
               /\ row = Some(check[s].copy) =>
               LET at == check[s].at
                   d == EvaluateCircuitBreaker(check[s].copy, Limit, at) IN
               /\ (check'[s].stage = "allowed") = d.allowed
               /\ \A b \in row' : Effect(b, at) = Effect(d.breaker, at)]_breakerVars
    BY StepMirrors
  <1> QED BY <1>1, BreakerInvInit, BreakerInvStep, PTL DEF BreakerSpec, MirrorsEvaluate

(***************************************************************************)
(* The bridge                                                              *)
(***************************************************************************)

(* The inductive invariant: what is answered is what the command makes of   *)
(* the request, and only requests that parse are answered.                  *)
BridgeInv ==
  /\ asked.command \in Commands /\ asked.input \in Requests(asked.command)
  /\ answer = None \/ answer = HandleRequest(asked.command, asked.input)

LEMMA BridgeInvInit == BridgeInit => BridgeInv
BY DEF BridgeInit, BridgeInv

LEMMA BridgeInvNext == BridgeInv /\ [BridgeNext]_bridgeVars => BridgeInv'
BY DEF BridgeInv, BridgeNext, bridgeVars

LEMMA BridgeInvAlways == BridgeSpec => []BridgeInv
BY BridgeInvInit, BridgeInvNext, PTL DEF BridgeSpec

(* What was answered, command by command. *)
LEMMA GivenIs == ASSUME NEW x, answer = Some(x) PROVE Given = x
BY DEF Given, Some

(* The two copies of the lists are the same.                                *)
LEMMA SameMarkers == BridgeMarkers = Markers
BY DEF BridgeMarkers, Markers

(* A value whose parts are a function on their places.                      *)
Shaped(v, parts) ==
  \E f : /\ v = [kind |-> v.kind, of |-> f] /\ f = [k \in DOMAIN f |-> f[k]]
         /\ \A k \in DOMAIN f : f[k] \in parts
         /\ v.kind \notin {"object", "array"} => DOMAIN f = {}

LEMMA ObjectsShaped ==
  ASSUME NEW S, NEW v \in Objects(S) PROVE Shaped(v, S) /\ v.kind = "object"
<1>1. PICK ks \in SUBSET Keys : v \in {[kind |-> "object", of |-> f] : f \in [ks -> S]}
  BY DEF Objects
<1>2. PICK f \in [ks -> S] : v = [kind |-> "object", of |-> f]
  BY <1>1
<1>3. f = [k \in DOMAIN f |-> f[k]] /\ \A k \in DOMAIN f : f[k] \in S
  OBVIOUS
<1> QED BY <1>2, <1>3 DEF Shaped

LEMMA ArraysShaped ==
  ASSUME NEW S, NEW v \in Arrays(S) PROVE Shaped(v, S) /\ v.kind = "array"
<1>1. PICK n \in {0, 1} : v \in {[kind |-> "array", of |-> f] : f \in [1..n -> S]}
  BY DEF Arrays
<1>2. PICK f \in [1..n -> S] : v = [kind |-> "array", of |-> f]
  BY <1>1
<1>3. f = [k \in DOMAIN f |-> f[k]] /\ \A k \in DOMAIN f : f[k] \in S
  OBVIOUS
<1> QED BY <1>2, <1>3 DEF Shaped

LEMMA ScalarsShaped ==
  ASSUME NEW v \in Scalars, NEW S PROVE Shaped(v, S) /\ v.kind \notin {"object", "array"}
<1>1. v = [kind |-> v.kind, of |-> <<>>] /\ v.kind \in {"null", "one", "two"}
  BY DEF Scalars, Scalar
<1>2. DOMAIN <<>> = {} /\ <<>> = [k \in DOMAIN <<>> |-> <<>>[k]]
  OBVIOUS
<1> QED BY <1>1, <1>2 DEF Shaped

(* What the bridge is given to hash are such values, of flat ones.          *)
LEMMA FlatShaped == ASSUME NEW v \in Flat PROVE Shaped(v, Scalars)
BY ObjectsShaped, ArraysShaped, ScalarsShaped DEF Flat

LEMMA PayloadsShaped == ASSUME NEW v \in Payloads PROVE Shaped(v, Flat)
<1>1. Scalars \subseteq Flat /\ Objects(Scalars) \subseteq Flat
  BY DEF Flat
<1>2. CASE v \in Flat
  BY <1>1, <1>2, FlatShaped DEF Shaped
<1>3. CASE v \in Arrays(Objects(Scalars))
  BY <1>1, <1>3, ArraysShaped DEF Shaped
<1>4. ASSUME NEW d \in Flat, NEW x \in {Scalar("null"), Scalar("one")},
             v = [kind |-> "object", of |-> [data |-> d, other |-> x]]
      PROVE  Shaped(v, Flat)
  <2> DEFINE f == [data |-> d, other |-> x]
  <2>1. x \in Flat
    BY <1>1 DEF Scalars
  <2>2. /\ DOMAIN f = {"data", "other"} /\ f = [k \in DOMAIN f |-> f[k]]
        /\ \A k \in DOMAIN f : f[k] \in Flat
    BY <2>1
  <2>3. v = [kind |-> "object", of |-> f]
    BY <1>4
  <2> HIDE DEF f
  <2> QED BY <2>2, <2>3 DEF Shaped
<1> QED BY <1>2, <1>3, <1>4 DEF Payloads

(* A function restricted to fewer places, or with other values, is another. *)
LEMMA OtherForm ==
  ASSUME NEW f, f = [k \in DOMAIN f |-> f[k]], NEW D \in SUBSET (DOMAIN f), NEW g, g = [k \in D |-> g[k]]
  PROVE  g = f <=> D = DOMAIN f /\ \A k \in DOMAIN f : g[k] = f[k]
<1>1. DOMAIN g = D
  OBVIOUS
<1>2. ASSUME D = DOMAIN f, \A k \in DOMAIN f : g[k] = f[k] PROVE g = f
  BY <1>2
<1> QED BY <1>1, <1>2

(* The bridge's form of a flat value is the value, and the core's is too,   *)
(* unless a member is null.                                                 *)
LEMMA FlatForms ==
  ASSUME NEW v \in Flat
  PROVE  /\ CanonicalizeFlat(v) = v
         /\ CanonicalFlat(v) = v <=> ~NullMember(v)
<1>1. PICK f : /\ v = [kind |-> v.kind, of |-> f] /\ f = [k \in DOMAIN f |-> f[k]]
               /\ \A k \in DOMAIN f : f[k] \in Scalars
               /\ v.kind \notin {"object", "array"} => DOMAIN f = {}
  BY FlatShaped DEF Shaped
<1>2. v.of = f
  BY <1>1
<1>3. CASE v.kind = "object"
  <2> DEFINE D == {k \in DOMAIN f : f[k].kind # "null"}
             g == [k \in D |-> f[k]]
  <2>1. CanonicalizeFlat(v) = v
    BY <1>1, <1>2, <1>3 DEF CanonicalizeFlat, FormOf, KeepNulls, CanonicalScalar
  <2>2. CanonicalFlat(v) = [kind |-> v.kind, of |-> g]
    BY <1>1, <1>2, <1>3 DEF CanonicalFlat, FormOf, DropNulls, CanonicalScalar
  <2>3. CanonicalFlat(v) = v <=> g = f
    BY <1>1, <2>2
  <2>4. g = f <=> D = DOMAIN f
    BY <1>1
  <2>5. D = DOMAIN f <=> ~NullMember(v)
    BY <1>2, <1>3 DEF NullMember
  <2> QED BY <2>1, <2>3, <2>4, <2>5
<1>4. CASE v.kind = "array"
  BY <1>1, <1>2, <1>4 DEF CanonicalizeFlat, CanonicalFlat, FormOf, CanonicalScalar, NullMember
<1>5. CASE v.kind \notin {"object", "array"}
  BY <1>5 DEF CanonicalizeFlat, CanonicalFlat, FormOf, NullMember
<1> QED BY <1>3, <1>4, <1>5

(* So it is one level up.                                                   *)
LEMMA Forms ==
  ASSUME NEW v \in Payloads
  PROVE  Canonicalize(v) = CanonicalValue(v) <=> ~HasNull(v)
<1>1. PICK f : /\ v = [kind |-> v.kind, of |-> f] /\ f = [k \in DOMAIN f |-> f[k]]
               /\ \A k \in DOMAIN f : f[k] \in Flat
               /\ v.kind \notin {"object", "array"} => DOMAIN f = {}
  BY PayloadsShaped DEF Shaped
<1>2. v.of = f
  BY <1>1
<1>3. \A k \in DOMAIN f : /\ CanonicalizeFlat(f[k]) = f[k]
                          /\ CanonicalFlat(f[k]) = f[k] <=> ~NullMember(f[k])
  BY <1>1, FlatForms
<1>4. f = [k \in DOMAIN f |-> CanonicalizeFlat(f[k])]
  BY <1>1, <1>3
<1>5. CASE v.kind = "object"
  <2> DEFINE D == {k \in DOMAIN f : f[k].kind # "null"}
             g == [k \in D |-> CanonicalFlat(f[k])]
  <2>1. Canonicalize(v) = v
    BY <1>1, <1>2, <1>4, <1>5 DEF Canonicalize, FormOf, KeepNulls
  <2>2. CanonicalValue(v) = [kind |-> v.kind, of |-> g]
    BY <1>1, <1>2, <1>5 DEF CanonicalValue, FormOf, DropNulls
  <2>3. CanonicalValue(v) = v <=> g = f
    BY <1>1, <2>2
  <2>4. D \in SUBSET (DOMAIN f) /\ g = [k \in D |-> g[k]]
    OBVIOUS
  <2>5. g = f <=> D = DOMAIN f /\ \A k \in DOMAIN f : g[k] = f[k]
    <3>1. f = [k \in DOMAIN f |-> f[k]]
      BY <1>1
    <3> HIDE DEF D, g
    <3> QED BY <2>4, <3>1, OtherForm
  <2>6. D = DOMAIN f <=> ~NullMember(v)
    BY <1>2, <1>5 DEF NullMember
  <2>7. D = DOMAIN f =>
          ((\A k \in DOMAIN f : g[k] = f[k]) <=> ~\E k \in DOMAIN f : NullMember(f[k]))
    BY <1>3
  <2> QED BY <1>2, <2>1, <2>3, <2>5, <2>6, <2>7 DEF HasNull
<1>6. CASE v.kind = "array"
  <2> DEFINE g == [k \in DOMAIN f |-> CanonicalFlat(f[k])]
  <2>1. Canonicalize(v) = v
    BY <1>1, <1>2, <1>4, <1>6 DEF Canonicalize, FormOf
  <2>2. CanonicalValue(v) = [kind |-> v.kind, of |-> g]
    BY <1>1, <1>2, <1>6 DEF CanonicalValue, FormOf
  <2>3. CanonicalValue(v) = v <=> g = f
    BY <1>1, <2>2
  <2>4. g = f <=> \A k \in DOMAIN f : g[k] = f[k]
    BY <1>1
  <2> QED BY <1>2, <1>3, <1>6, <2>1, <2>3, <2>4 DEF HasNull, NullMember
<1>7. CASE v.kind \notin {"object", "array"}
  BY <1>1, <1>2, <1>7 DEF Canonicalize, CanonicalValue, FormOf, HasNull, NullMember
<1> QED BY <1>5, <1>6, <1>7

(* The bridge and the governance core judge every action and every text     *)
(* alike, however many markers they contain; and hash a value from the same *)
(* form exactly when no object in it has a null member.                     *)
THEOREM BridgeAgreesWithCore == BridgeSpec => []CoresAgree
<1>1. BridgeInv => CoresAgree
  <2> SUFFICES ASSUME BridgeInv, answer # None PROVE CoresAgree
    BY DEF CoresAgree, Answered
  <2> DEFINE r == asked.input
  <2>1. ASSUME asked.command = "classify_action" PROVE Given = ClassifyAction(r.action, r.payload)
    <3>1. answer = Some(BridgeClassify(r.action, r.payload))
      BY <2>1 DEF BridgeInv, HandleRequest
    <3> QED BY <3>1, GivenIs, SameMarkers DEF BridgeClassify, ClassifyAction
  <2>2. ASSUME asked.command = "inspect_text" PROVE Given = InspectPromptInjection(r.text)
    <3>1. answer = Some(BridgeInspect(r.text))
      BY <2>2 DEF BridgeInv, HandleRequest
    <3> QED BY <3>1, GivenIs, SameMarkers DEF BridgeInspect, InspectPromptInjection
  <2>3. ASSUME asked.command = "hash_json"
        PROVE  Given = AuditEventHash(r.payload) <=> ~HasNull(r.payload)
    <3>1. answer = Some(HashJson(r.payload))
      BY <2>3 DEF BridgeInv, HandleRequest
    <3>2. r.payload \in Payloads
      BY <2>3 DEF BridgeInv, Requests
    <3>3. Given = Canonicalize(r.payload)
      BY <3>1, GivenIs DEF HashJson
    <3> QED BY <3>2, <3>3, Forms DEF AuditEventHash
  <2> QED BY <2>1, <2>2, <2>3 DEF CoresAgree, Answered
<1> QED BY <1>1, BridgeInvAlways, PTL

(* Only the marker of e-mail gives the tool that drafts it.                 *)
LEMMA DraftsNeedEmail ==
  ASSUME NEW text, "email_draft" \in InferTools(text) PROVE "email" \in text
<1>1. PICK m \in text \cap DOMAIN ToolMap : ToolMap[m] = "email_draft"
  BY DEF InferTools
<1>2. m = "email"
  BY <1>1 DEF ToolMap, NamedTools
<1> QED BY <1>1, <1>2

(* resolve_skill_slugs and analyze_skill_description of the bridge, for     *)
(* roles and texts with any number of keywords.                             *)
THEOREM BridgeSkillsGuarded == BridgeSpec => []SkillsAreKnownAndGuarded
<1>1. BridgeInv => SkillsAreKnownAndGuarded
  <2> SUFFICES ASSUME BridgeInv, answer # None PROVE SkillsAreKnownAndGuarded
    BY DEF SkillsAreKnownAndGuarded, Answered
  <2> DEFINE r == asked.input
  <2>1. ASSUME asked.command = "resolve_skill_slugs" PROVE Always \subseteq Given /\ Given \subseteq CoreSkills
    <3>1. answer = Some(ResolveSkillSlugs(r.role, r.department))
      BY <2>1 DEF BridgeInv, HandleRequest
    <3>2. Given = ResolveSkillSlugs(r.role, r.department)
      BY <3>1, GivenIs
    <3>3. \A a \in Adds : a.slugs \subseteq CoreSkills
      BY DEF Adds, CoreSkills
    <3>4. Always \subseteq CoreSkills
      BY DEF Always, CoreSkills
    <3> QED BY <3>2, <3>3, <3>4 DEF ResolveSkillSlugs
  <2>2. ASSUME asked.command = "analyze_skill_description",
               "email_draft" \in Given.tools \/ r.text \cap HighImpact # {}
        PROVE  Given.approval_policy # "autonomous"
    <3>1. answer = Some(AnalyzeSkill(r.text, r.name))
      BY <2>2 DEF BridgeInv, HandleRequest
    <3>2. Given.tools = InferTools(r.text) /\ Given.approval_policy = InferApprovalPolicy(r.text)
      BY <3>1, GivenIs DEF AnalyzeSkill
    <3>3. r.text \cap External # {} \/ r.text \cap HighImpact # {}
      BY <2>2, <3>2, DraftsNeedEmail DEF External
    <3> QED BY <3>2, <3>3 DEF InferApprovalPolicy
  <2> QED BY <2>1, <2>2 DEF SkillsAreKnownAndGuarded, Answered
<1> QED BY <1>1, BridgeInvAlways, PTL

(***************************************************************************)
(* The score of a lead                                                     *)
(***************************************************************************)

Numbers == {"confidence", "employees", "revenue"}

(* The inductive invariant: a lead keeps its fields, and its numbers are    *)
(* natural ones wherever they are known.                                    *)
LeadInv ==
  /\ lead = [f \in DOMAIN Values |-> lead[f]]
  /\ \A f \in Numbers : lead[f] = None \/ \E n \in Nat : lead[f] = Some(n)

LEMMA NumberIsNatural ==
  ASSUME NEW option, option = None \/ \E n \in Nat : option = Some(n)
  PROVE  Number(option) \in Nat
<1>1. CASE option = None
  BY <1>1 DEF Number
<1>2. ASSUME NEW n \in Nat, option = Some(n) PROVE Number(option) \in Nat
  <2>1. option = {n} /\ option # None
    BY <1>2 DEF Some, None
  <2>2. \A i \in option : i \in Nat
    BY <2>1
  <2> QED BY <2>1, <2>2 DEF Number
<1> QED BY <1>1, <1>2

LEMMA ValuesFields ==
  DOMAIN Values = {"email", "name", "company", "confidence", "employees", "revenue", "title",
                   "industry", "intent"}
  BY DEF Values

LEMMA KnownNumbers ==
  ASSUME NEW f \in Numbers, NEW v \in Values[f]
  PROVE  v = None \/ \E n \in Nat : v = Some(n)
  BY CountsOK DEF Numbers, Values

LEMMA LeadInvInit == LeadInit => LeadInv
<1> SUFFICES ASSUME lead = NewLead PROVE LeadInv
  BY DEF LeadInit
<1>1. lead = [f \in DOMAIN Values |-> lead[f]]
  BY ValuesFields DEF NewLead
<1>2. \A f \in Numbers : lead[f] = None
  BY DEF NewLead, Numbers
<1> QED BY <1>1, <1>2 DEF LeadInv

LEMMA LeadInvStep == LeadInv /\ [LeadNext]_leadVars => LeadInv'
<1> SUFFICES ASSUME LeadInv, [LeadNext]_leadVars PROVE LeadInv'
  OBVIOUS
<1>1. CASE UNCHANGED lead
  BY <1>1 DEF LeadInv
<1>2. ASSUME NEW field \in DOMAIN Values, Learn(field) PROVE LeadInv'
  <2>1. PICK v \in Values[field] : lead' = [lead EXCEPT ![field] = v]
    BY <1>2 DEF Learn
  <2>2. /\ lead' = [f \in DOMAIN Values |-> lead'[f]]
        /\ \A f \in DOMAIN Values : lead'[f] = IF f = field THEN v ELSE lead[f]
    BY <2>1 DEF LeadInv
  <2>3. Numbers \subseteq DOMAIN Values
    BY ValuesFields DEF Numbers
  <2>4. ASSUME NEW f \in Numbers PROVE lead'[f] = None \/ \E n \in Nat : lead'[f] = Some(n)
    BY <2>2, <2>3, KnownNumbers DEF LeadInv
  <2> QED BY <2>2, <2>4 DEF LeadInv
<1> QED BY <1>1, <1>2 DEF LeadNext, Ask, leadVars

LEMMA LeadInvAlways == LeadSpec => []LeadInv
<1> QED BY LeadInvInit, LeadInvStep, PTL DEF LeadSpec

(* The cap: what the signals are worth is at most 100, and the lesser of    *)
(* two sums stays the lesser one.                                           *)
LEMMA MinIs ==
  ASSUME NEW n \in Nat PROVE Min({n, 100}) = IF n <= 100 THEN n ELSE 100
  BY DEF Min

PointsIn(signals, s) == IF s \in signals THEN Points[s] ELSE 0
SumOf(signals) ==
  PointsIn(signals, "email") + PointsIn(signals, "confidence") + PointsIn(signals, "team")
    + PointsIn(signals, "revenue") + PointsIn(signals, "title") + PointsIn(signals, "industry")
    + PointsIn(signals, "intent")

LEMMA PointsGrow ==
  ASSUME NEW a, NEW b, a \subseteq b, NEW s \in DOMAIN Points
  PROVE  PointsIn(a, s) \in Nat /\ PointsIn(b, s) \in Nat /\ PointsIn(a, s) <= PointsIn(b, s)
<1>1. Points[s] \in Nat
  BY DEF Points
<1> QED BY <1>1 DEF PointsIn

LEMMA SumsGrow ==
  ASSUME NEW a, NEW b, a \subseteq b
  PROVE  SumOf(a) \in Nat /\ SumOf(b) \in Nat /\ SumOf(a) <= SumOf(b)
<1>1. DOMAIN Points = {"email", "confidence", "team", "revenue", "title", "industry", "intent"}
  BY DEF Points
<1> QED BY <1>1, PointsGrow DEF SumOf

LEMMA ScoreIs == ASSUME NEW a PROVE ScoreOf(a) = Min({SumOf(a), 100})
  BY DEF ScoreOf, SumOf, PointsIn

LEMMA ScoresGrow ==
  ASSUME NEW a, NEW b, a \subseteq b
  PROVE  ScoreOf(a) \in Nat /\ ScoreOf(b) \in Nat /\ ScoreOf(a) <= ScoreOf(b)
<1> DEFINE m == SumOf(a)
           n == SumOf(b)
<1>1. m \in Nat /\ n \in Nat /\ m <= n
  BY SumsGrow
<1>2. ScoreOf(a) = Min({m, 100}) /\ ScoreOf(b) = Min({n, 100})
  BY ScoreIs
<1> HIDE DEF m, n
<1>3. /\ Min({m, 100}) = (IF m <= 100 THEN m ELSE 100)
      /\ Min({n, 100}) = (IF n <= 100 THEN n ELSE 100)
  BY <1>1, MinIs
<1> QED BY <1>1, <1>2, <1>3

(* A number that fits is what the engine reads.                             *)
LEMMA FitsIn32 ==
  ASSUME NEW n \in Nat, n < U32 PROVE AsU32(n) = n
  BY CountsOK DEF AsU32

(* Whatever speaks for the poorer lead speaks for the better one.           *)
LEMMA BetterSignals ==
  ASSUME NEW a, NEW b, NEW r, Better(a, b),
         \A f \in Numbers : Number(a[f]) \in Nat /\ Number(b[f]) \in Nat
  PROVE  EngineSignals(a) \subseteq EngineSignals(b) /\ BridgeSignals(a, r) \subseteq BridgeSignals(b, r)
<1>1. /\ Number(a.confidence) \in Nat /\ Number(b.confidence) \in Nat
      /\ Number(a.employees) \in Nat /\ Number(b.employees) \in Nat
      /\ Number(a.revenue) \in Nat /\ Number(b.revenue) \in Nat
  BY DEF Numbers
<1>2. /\ Number(a.confidence) <= Number(b.confidence) /\ Number(b.confidence) < U32
      /\ Number(a.employees) <= Number(b.employees) /\ Number(b.employees) < U32
      /\ Number(a.revenue) <= Number(b.revenue)
  BY DEF Better
<1>3. /\ AsU32(Number(a.confidence)) = Number(a.confidence)
      /\ AsU32(Number(b.confidence)) = Number(b.confidence)
      /\ AsU32(Number(a.employees)) = Number(a.employees)
      /\ AsU32(Number(b.employees)) = Number(b.employees)
  BY <1>1, <1>2, FitsIn32, CountsOK
<1>4. \A m \in {MinConfidence, MinTeam, MinRevenue, MinRevenueCents} :
        /\ Reaches(Number(a.confidence), m) => Reaches(Number(b.confidence), m)
        /\ Reaches(Number(a.employees), m) => Reaches(Number(b.employees), m)
        /\ Reaches(Number(a.revenue), m) => Reaches(Number(b.revenue), m)
  BY <1>1, <1>2 DEF Reaches, MinConfidence, MinTeam, MinRevenue, MinRevenueCents
<1>5. /\ a.email => b.email
      /\ a.title \subseteq b.title /\ a.name \subseteq b.name
      /\ a.industry \subseteq b.industry /\ a.company \subseteq b.company
      /\ Intent(a.intent) => Intent(b.intent)
  BY DEF Better
<1>6. ASSUME NEW s \in EngineSignals(a) PROVE s \in EngineSignals(b)
  BY <1>3, <1>4, <1>5, <1>6 DEF EngineSignals, Points
<1>7. ASSUME NEW s \in BridgeSignals(a, r) PROVE s \in BridgeSignals(b, r)
  BY <1>4, <1>5, <1>7 DEF BridgeSignals, Points
<1> QED BY <1>6, <1>7

LEMMA TiersAgree ==
  ASSUME NEW n \in Nat PROVE ClassifyTier(n) = FromScore(n)
  BY DEF ClassifyTier, FromScore

LEMMA TiersGrow ==
  ASSUME NEW m \in Nat, NEW n \in Nat, m <= n
  PROVE  Rank(ClassifyTier(n)) >= Rank(ClassifyTier(m))
  BY DEF ClassifyTier, Rank

(* The two scoring rules, for numbers of any size: what speaks for a lead   *)
(* never lowers its score or its tier in either of them.                    *)
THEOREM BetterIsNeverWorse == LeadSpec => BetterLeadNeverScoresLess
<1> DEFINE Step ==
      lead' # lead =>
        /\ ClassifyTier(EngineScore) = FromScore(EngineScore)
        /\ Better(lead, lead') =>
             EngineScore' >= EngineScore /\ BridgeScore' >= BridgeScore
               /\ Rank(ClassifyTier(EngineScore')) >= Rank(ClassifyTier(EngineScore))
<1>1. LeadInv /\ LeadInv' /\ [LeadNext]_leadVars => Step
  <2> SUFFICES ASSUME LeadInv, LeadInv', [LeadNext]_leadVars, lead' # lead PROVE Step
    OBVIOUS
  <2>1. form' = form
    BY DEF LeadNext, Learn, Ask, leadVars
  <2>2. \A f \in Numbers : Number(lead[f]) \in Nat /\ Number(lead'[f]) \in Nat
    BY NumberIsNatural DEF LeadInv
  <2>3. ClassifyTier(EngineScore) = FromScore(EngineScore)
    BY ScoresGrow, TiersAgree DEF EngineScore
  <2>4. ASSUME Better(lead, lead')
        PROVE  /\ EngineScore' >= EngineScore /\ BridgeScore' >= BridgeScore
               /\ Rank(ClassifyTier(EngineScore')) >= Rank(ClassifyTier(EngineScore))
    <3>1. /\ EngineSignals(lead) \subseteq EngineSignals(lead')
          /\ BridgeSignals(lead, form) \subseteq BridgeSignals(lead', form)
      BY <2>2, <2>4, BetterSignals
    <3>2. EngineScore' = ScoreOf(EngineSignals(lead')) /\ BridgeScore' = ScoreOf(BridgeSignals(lead', form))
      BY <2>1 DEF EngineScore, BridgeScore
    <3>3. EngineScore \in Nat /\ EngineScore' \in Nat /\ EngineScore <= EngineScore'
      BY <3>1, <3>2, ScoresGrow DEF EngineScore
    <3>4. BridgeScore \in Nat /\ BridgeScore' \in Nat /\ BridgeScore <= BridgeScore'
      BY <3>1, <3>2, ScoresGrow DEF BridgeScore
    <3> QED BY <3>3, <3>4, TiersGrow
  <2> QED BY <2>3, <2>4
<1> QED BY <1>1, LeadInvAlways, PTL DEF LeadSpec, BetterLeadNeverScoresLess
=============================================================================
