---------------------------- MODULE RequestAuth ----------------------------
(***************************************************************************)
(* Signed requests (rust/src/security.rs, verify_request of                *)
(* rust/src/pipeline.rs).  Senders sign with the secret they know and      *)
(* stamp with a clock of their own; the network delivers what was sent     *)
(* late, again, or never; the receiver's secret may be missing, and is     *)
(* replaced while requests are on their way.  HMAC-SHA256 and SHA-256 are  *)
(* the injective functions they are taken for, and the comparison in       *)
(* constant time is equality.                                              *)
(***************************************************************************)
EXTENDS Integers, FiniteSets

CONSTANTS
  Secrets,   \* the secrets there are
  NoSecret,  \* the empty string of a service whose secret is not configured
  Window,    \* replay_window_secs
  Skew,      \* bound: how far a sender's clock is from the receiver's
  AuthEnd,   \* bound: the last instant
  Sendings   \* bound: how many requests are signed

ASSUME AuthOK ==
  /\ Window \in Nat /\ Skew \in Nat /\ AuthEnd \in Nat /\ Sendings \in Nat
  /\ NoSecret \notin Secrets

VARIABLES
  authNow,   \* the receiver's clock
  secret,    \* the secret the receiver has for each kind of request
  signed,    \* the requests on the network; sentAt and key are history
  accepted   \* history: which of them were accepted, when and under which secret

authVars == <<authNow, secret, signed, accepted>>

(* Webhook and Slack requests are signed and stamped; an admin key and a    *)
(* shared secret are presented as they are.                                 *)
Timed   == {"webhook", "slack"}
Channel == Timed \cup {"admin", "shared"}

AuthInit ==
  /\ authNow = 0
  /\ secret \in [Channel -> {NoSecret}]
  /\ signed = {} /\ accepted = {}

(* compute_hmac_hex and hash_key *)
Mac(key, data) == [key |-> key, data |-> data]

(* What a request carries: the signature of timestamp and body, for Slack   *)
(* behind its version prefix, or the secret.                                *)
Credential(ch, key, ts) ==
  Mac(key, CASE ch = "webhook" -> <<ts>> [] ch = "slack" -> <<"v0", ts>> [] OTHER -> <<>>)

(* Bugs: a window that looks back only, or only forgives clocks behind.     *)
WithinBack(ts) == authNow - ts <= Window
WithinBehind(ts) == authNow >= ts /\ authNow - ts <= Window

(* is_within_replay_window *)
Within(ts) == IF authNow >= ts THEN authNow - ts <= Window ELSE ts - authNow <= Window

(* verify_request and verify_slack_request: the window first, then whether  *)
(* there is a secret at all, then the signature.  verify_admin_api_key and  *)
(* verify_shared_secret find an empty secret, of the request or of the      *)
(* configuration, never right.                                              *)
Verify(m) ==
  CASE m.channel \in Timed /\ ~Within(m.ts) -> "expired"
    [] (m.channel \in Timed => Within(m.ts)) /\ secret[m.channel] = NoSecret -> "missing_secret"
    [] OTHER -> IF m.credential = Credential(m.channel, secret[m.channel], m.ts)
                THEN "valid" ELSE "invalid"

(* A client sends: its clock is off, its secret may be an old one or none.  *)
Send(ch, key, off) ==
  LET ts == authNow + off IN
  /\ Cardinality(signed) < Sendings
  /\ signed' = signed \cup {[channel |-> ch, ts |-> ts, sentAt |-> authNow, key |-> key,
                             credential |-> Credential(ch, key, ts)]}
  /\ UNCHANGED <<authNow, secret, accepted>>

(* A request arrives, for the first time or again. *)
Arrive(m) ==
  /\ accepted' = IF Verify(m) = "valid"
                 THEN accepted \cup {[request |-> m, at |-> authNow, under |-> secret[m.channel]]}
                 ELSE accepted
  /\ UNCHANGED <<authNow, secret, signed>>

(* SecurityService::new, with_slack_secret: a service with another secret   *)
(* takes the place of the one before.                                       *)
Configure(ch, key) ==
  /\ secret' = [secret EXCEPT ![ch] = key]
  /\ UNCHANGED <<authNow, signed, accepted>>

AuthTick == authNow < AuthEnd /\ authNow' = authNow + 1 /\ UNCHANGED <<secret, signed, accepted>>

AuthNext ==
  \/ \E ch \in Channel :
       \/ \E key \in Secrets : Configure(ch, key)
       \/ \E key \in Secrets \cup {NoSecret}, off \in -Skew..Skew : Send(ch, key, off)
  \/ \E m \in signed : Arrive(m)
  \/ AuthTick

AuthSpec == AuthInit /\ [][AuthNext]_authVars

(***************************************************************************)
(* Properties                                                              *)
(***************************************************************************)

(* However clocks are off and requests delayed or repeated, a signed        *)
(* request is accepted at most the window and the clock's error after it    *)
(* was sent, and two acceptances of one request are at most two windows     *)
(* apart, after which a copy of it is worth nothing.  Nothing is accepted   *)
(* while no secret is configured, the requests of a client that has none    *)
(* either included.                                                         *)
StaleNeverAccepted ==
  \A a, b \in accepted :
    /\ a.under # NoSecret /\ a.request.key = a.under
    /\ a.request.channel \in Timed =>
         /\ a.at - a.request.sentAt <= Window + Skew
         /\ a.request = b.request => a.at - b.at <= 2 * Window

(* A client that knows the receiver's secret is served: its request is      *)
(* valid whenever the time it was on its way and the error of the clock     *)
(* that stamped it, ahead or behind, are together no more than the window.  *)
HonestAccepted ==
  \A m \in signed :
    LET delay == authNow - m.sentAt  off == m.ts - m.sentAt IN
    /\ m.channel \in Timed => delay + off <= Window /\ delay - off <= Window
    /\ m.key = secret[m.channel] /\ m.key # NoSecret
    => Verify(m) = "valid"
=============================================================================
