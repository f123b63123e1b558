--------------------------- MODULE GovernanceCore ---------------------------
(***************************************************************************)
(* The governance core (crates/abos-governance-core): the policy for       *)
(* external actions, the prompt inspection, the breaker of a tool, and the *)
(* signed ledger, all functions of their arguments; and the ledger at      *)
(* work, event files and entry files that its command line signs and       *)
(* verifies while people edit them.                                        *)
(*                                                                         *)
(* A text is the set of the markers it contains once its letters are       *)
(* lower case.  (This core lowers ASCII letters, the bridge those of every *)
(* script; texts are ASCII here.)                                          *)
(***************************************************************************)
EXTENDS CoreTypes, Integers, SequencesExt, FiniteSetsExt

CONSTANTS
  Minute,   \* a minute, in units of the clock
  SigningKeys,  \* the signing secrets
  NoKey,    \* the empty string
  Edits     \* bound: how often the event file is edited

ASSUME GovernanceOK == Minute \in Nat \ {0} /\ NoKey \notin SigningKeys /\ Edits \in Nat

VARIABLES
  event,   \* the event file, the metadata of an AuditEvent
  edits,   \* how often it was edited
  entries, \* entry files; signed and key of one are history
  exit     \* the last command's exit status, and what it verified

ledgerVars == <<event, edits, entries, exit>>

(***************************************************************************)
(* The policy                                                              *)
(***************************************************************************)
Markers ==
  [outbound |-> {"send_email", "outbound_email", "client_message", "social_post", "publish_post",
                 "publish_video", "newsletter_send", "ad_publish", "proposal_send"},
   high_impact |-> {"send_money", "payment", "wire_transfer", "contract_sign", "delete",
                    "credential", "production_change", "invoice_create"},
   sensitive |-> {"gdpr", "personal data", "contract", "payment"},
   injection |-> {"ignore previous instructions", "ignore all previous instructions",
                  "system prompt", "developer message", "reveal your instructions", "exfiltrate",
                  "send the api key", "bypass approval", "do not tell the user",
                  "disable guardrails"}]

(* What a core with these markers says of an action: its reasons, in order, *)
(* of which the markers of the payload alone ask for nobody's approval.     *)
Judge(markers, action, payload) ==
  LET found == {r \in {"outbound", "high_impact"} : action \cap markers[r] # {}}
                 \cup {r \in {"sensitive"} : payload \cap markers[r] # {}}
      listed == SelectSeq(<<"outbound", "high_impact", "sensitive">>, LAMBDA r : r \in found)
  IN [risk_level |-> CASE "high_impact" \in found -> "critical" [] found = {} -> "low"
                       [] OTHER -> "high",
      requires_approval |-> found \ {"sensitive"} # {},
      reasons |-> IF listed = <<>> THEN <<"low_risk">> ELSE listed]

(* classify_action; the status it proposes says no more than requires_approval. *)
ClassifyAction(action, payload) == Judge(Markers, action, payload)

(* inspect_prompt_injection, the score in thirds *)
Inspection(patterns, text) ==
  LET flags == text \cap patterns IN
  [flags |-> flags, score |-> Min({Cardinality(flags), 3}),
   safe_to_use_as_instruction |-> flags = {},
   handling |-> IF flags = {} THEN "normal" ELSE "treat_as_untrusted_data"]
InspectPromptInjection(text) == Inspection(Markers.injection, text)

(* evaluate_circuit_breaker: an open breaker refuses until its time is      *)
(* over; otherwise the call is counted, in a new window when the old one is *)
(* a minute old, and one too many opens it for five minutes.                *)
EvaluateCircuitBreaker(b, limit, at) ==
  LET expired == b.windowStart + Minute <= at
      counted == [b EXCEPT !.calls = (IF expired THEN 0 ELSE @) + 1,
                           !.windowStart = IF expired THEN at ELSE @]
  IN IF b.state = "open" /\ \E t \in b.openedUntil : t > at
     THEN [breaker |-> b, allowed |-> FALSE]
     ELSE IF counted.calls > limit
     THEN [breaker |-> [counted EXCEPT !.state = "open", !.openedUntil = Some(at + 5 * Minute)],
           allowed |-> FALSE]
     ELSE [breaker |-> [counted EXCEPT !.state = "closed", !.openedUntil = None],
           allowed |-> TRUE]

(***************************************************************************)
(* JSON and the ledger                                                     *)
(***************************************************************************)

(* Values, with the parts of an array or object in `of`.  The parts of the  *)
(* parts of what is hashed here are scalars.                                *)
Scalar(kind) == [kind |-> kind, of |-> <<>>]
Scalars == {Scalar("null"), Scalar("one"), Scalar("two")}
Keys == {"data", "other"}
Objects(of) == UNION {{[kind |-> "object", of |-> f] : f \in [ks -> of]} : ks \in SUBSET Keys}
Arrays(of) == UNION {{[kind |-> "array", of |-> f] : f \in [1..n -> of]} : n \in {0, 1}}
Flat == Scalars \cup Objects(Scalars) \cup Arrays(Scalars)

(* The events of the ledger: metadata of which a part may have parts.       *)
Events == Objects(Scalars) \cup
  {[kind |-> "object", of |-> [data |-> d]] : d \in Objects({Scalar("null"), Scalar("one")})}

(* A canonical form: of the members of an object those that are kept, and   *)
(* of every part, in an object or an array, its own canonical form.         *)
KeepNulls(f) == f
DropNulls(f) == [k \in {k \in DOMAIN f : f[k].kind # "null"} |-> f[k]]
FormOf(v, members(_), part(_)) ==
  CASE v.kind = "object" -> [v EXCEPT !.of = [k \in DOMAIN members(v.of) |-> part(v.of[k])]]
    [] v.kind = "array"  -> [v EXCEPT !.of = [i \in DOMAIN v.of |-> part(v.of[i])]]
    [] OTHER             -> v

(* canonical_value, of scalars, of what holds scalars, and of what holds    *)
(* these: members that are null are left out, at every depth.               *)
CanonicalScalar(v) == v
CanonicalFlat(v) == FormOf(v, DropNulls, CanonicalScalar)
CanonicalValue(v) == FormOf(v, DropNulls, CanonicalFlat)

(* audit_event_hash, with SHA-256 the injective function it is taken for.   *)
AuditEventHash(e) == CanonicalValue(e)

Algorithm == "hmac_sha256"

(* sign_audit_event refuses an empty secret.                                *)
SignAuditEvent(e, secretKey) ==
  IF secretKey = NoKey THEN None
  ELSE Some([event_hash |-> AuditEventHash(e), algorithm |-> Algorithm,
             signature |-> <<secretKey, AuditEventHash(e)>>])

(* Bug: the entry is believed when its hash is the event's.                 *)
HashMatches(e, entry, secretKey) == \E x \in SignAuditEvent(e, secretKey) :
  entry.algorithm = Algorithm /\ entry.event_hash = x.event_hash

(* verify_signed_audit_event; that there is no secret is an error, and to   *)
(* its caller no better than false.                                         *)
VerifySignedAuditEvent(e, entry, secretKey) == \E x \in SignAuditEvent(e, secretKey) :
  /\ entry.algorithm = Algorithm
  /\ entry.event_hash = x.event_hash /\ entry.signature = x.signature

LedgerInit == event = Scalar("null") /\ edits = 0 /\ entries = {} /\ exit = [status |-> 2, of |-> None]

(* The event file is edited. *)
EditEvent == \E e \in Events :
  /\ edits < Edits /\ edits' = edits + 1 /\ event' = e
  /\ UNCHANGED <<entries, exit>>

(* An entry file is edited: somebody writes another event's hash into it,   *)
(* or another algorithm.                                                    *)
EditEntry(x) ==
  /\ edits < Edits /\ edits' = edits + 1
  /\ \E y \in {[x EXCEPT !.entry.event_hash = AuditEventHash(event)],
               [x EXCEPT !.entry.algorithm = "none"]} : entries' = (entries \ {x}) \cup {y}
  /\ UNCHANGED <<event, exit>>

(* sign-event: 1 when the variable of the secret is not set or empty, or    *)
(* the file holds no event.                                                 *)
SignEvent(secretKey) ==
  LET signed == IF event.kind = "object" THEN SignAuditEvent(event, secretKey) ELSE None IN
  /\ entries' = entries \cup {[entry |-> x, signed |-> event, key |-> secretKey] : x \in signed}
  /\ exit' = [status |-> IF signed = None THEN 1 ELSE 0, of |-> None]
  /\ UNCHANGED <<event, edits>>

(* verify-event *)
VerifyEvent(x, secretKey) ==
  /\ exit' = IF event.kind = "object" /\ VerifySignedAuditEvent(event, x.entry, secretKey)
             THEN [status |-> 0, of |-> Some([entry |-> x, event |-> event, key |-> secretKey])]
             ELSE [status |-> 1, of |-> None]
  /\ UNCHANGED <<event, edits, entries>>

(* The other commands only print: 0 with all they need, 1 without; no       *)
(* command, or one that does not exist, gets the usage and 2.               *)
Answer(known, complete) ==
  /\ exit' = [status |-> IF ~known THEN 2 ELSE IF complete THEN 0 ELSE 1, of |-> None]
  /\ UNCHANGED <<event, edits, entries>>

LedgerNext ==
  \/ EditEvent
  \/ \E known, complete \in BOOLEAN : Answer(known, complete)
  \/ \E secretKey \in SigningKeys \cup {NoKey} :
       SignEvent(secretKey) \/ \E x \in entries : VerifyEvent(x, secretKey)
  \/ \E x \in entries : EditEntry(x)

LedgerSpec == LedgerInit /\ [][LedgerNext]_ledgerVars

(***************************************************************************)
(* Properties                                                              *)
(***************************************************************************)

(* However event and entry files are edited after the signing, verify-event *)
(* exits with 0 only for an entry that was signed with the verifier's own   *)
(* secret from an event that differs from the one on file in nothing but    *)
(* members that are null, at whatever depth.                                *)
VerifiedWasSigned ==
  \A v \in exit.of :
    /\ v.key = v.entry.key /\ v.key # NoKey
    /\ CanonicalValue(v.entry.signed) = CanonicalValue(v.event)
=============================================================================
