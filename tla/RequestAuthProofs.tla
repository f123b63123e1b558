------------------------- MODULE RequestAuthProofs --------------------------
(***************************************************************************)
(* Signed requests for every set of secrets, every window, every error of  *)
(* the clocks and any number of requests: nothing stale is accepted, and   *)
(* what is sent in time by a client that knows the secret is.              *)
(***************************************************************************)
EXTENDS RequestAuth, TLAPS

(* A request carries what its sender made of its secret and its clock, and  *)
(* has been sent.                                                           *)
Sent(m) ==
  /\ m.channel \in Channel
  /\ m.key \in Secrets \cup {NoSecret}
  /\ m.sentAt \in Int /\ m.ts \in Int /\ m.sentAt <= authNow
  /\ m.ts - m.sentAt \in -Skew..Skew
  /\ m.credential = Credential(m.channel, m.key, m.ts)

(* What was accepted was on the network, and right when it arrived.         *)
WasRight(a) ==
  /\ a.request \in signed
  /\ a.under # NoSecret /\ a.request.key = a.under
  /\ a.at \in Int
  /\ a.request.channel \in Timed => /\ a.at - a.request.ts <= Window
                                    /\ a.request.ts - a.at <= Window

(* The inductive invariant: an acceptance is judged by the timestamp of the *)
(* request, which ties together any two acceptances of it.                  *)
AuthInv ==
  /\ authNow \in Int
  /\ secret \in [Channel -> Secrets \cup {NoSecret}]
  /\ \A m \in signed : Sent(m)
  /\ \A a \in accepted : WasRight(a)

(* A credential gives its key away: different secrets sign differently.     *)
LEMMA CredentialTellsKey ==
  ASSUME NEW ch, NEW k1, NEW k2, NEW ts,
         Credential(ch, k1, ts) = Credential(ch, k2, ts)
  PROVE  k1 = k2
  BY DEF Credential, Mac

(* What verification finds valid is within the window, and was made with    *)
(* the receiver's secret, which is not missing (verify_request and          *)
(* verify_slack_request of security.rs, and the two plain comparisons).     *)
LEMMA ValidIsRight ==
  ASSUME NEW m, Sent(m), authNow \in Int, NoSecret \notin Secrets, Window \in Nat,
         Verify(m) = "valid"
  PROVE  /\ secret[m.channel] # NoSecret /\ m.key = secret[m.channel]
         /\ m.channel \in Timed => authNow - m.ts <= Window /\ m.ts - authNow <= Window
  <1>1. /\ ~(m.channel \in Timed /\ ~Within(m.ts))
        /\ ~((m.channel \in Timed => Within(m.ts)) /\ secret[m.channel] = NoSecret)
        /\ m.credential = Credential(m.channel, secret[m.channel], m.ts)
    BY DEF Verify
  <1>2. m.key = secret[m.channel]
    BY <1>1, CredentialTellsKey DEF Sent
  <1>3. ASSUME m.channel \in Timed
        PROVE  authNow - m.ts <= Window /\ m.ts - authNow <= Window
    BY <1>1, <1>3 DEF Within, Sent
  <1> QED BY <1>1, <1>2, <1>3

LEMMA AuthInvInit == AuthInit => AuthInv
  BY DEF AuthInit, AuthInv

LEMMA AuthInvStep == AuthInv /\ [AuthNext]_authVars => AuthInv'
  <1> SUFFICES ASSUME AuthInv, [AuthNext]_authVars PROVE AuthInv'
    OBVIOUS
  <1> USE AuthOK DEF AuthInv
  <1>1. ASSUME NEW ch \in Channel, NEW key \in Secrets, Configure(ch, key) PROVE AuthInv'
    BY <1>1 DEF Configure, Sent, WasRight
  <1>2. ASSUME NEW ch \in Channel, NEW key \in Secrets \cup {NoSecret}, NEW off \in -Skew..Skew,
               Send(ch, key, off)
        PROVE  AuthInv'
    <2> DEFINE m == [channel |-> ch, ts |-> authNow + off, sentAt |-> authNow, key |-> key,
                     credential |-> Credential(ch, key, authNow + off)]
    <2>1. signed' = signed \cup {m} /\ UNCHANGED <<authNow, secret, accepted>>
      BY <1>2 DEF Send
    <2>2. Sent(m)
      BY DEF Sent
    <2> QED BY <2>1, <2>2 DEF Sent, WasRight
  <1>3. ASSUME NEW m \in signed, Arrive(m) PROVE AuthInv'
    <2> DEFINE a == [request |-> m, at |-> authNow, under |-> secret[m.channel]]
    <2>1. UNCHANGED <<authNow, secret, signed>>
      BY <1>3 DEF Arrive
    <2>2. CASE Verify(m) = "valid"
      <3>1. accepted' = accepted \cup {a}
        BY <1>3, <2>2 DEF Arrive
      <3>2. WasRight(a)
        BY <2>2, ValidIsRight DEF WasRight
      <3> QED BY <2>1, <3>1, <3>2 DEF Sent, WasRight
    <2>3. CASE Verify(m) # "valid"
      BY <1>3, <2>1, <2>3 DEF Arrive, Sent, WasRight
    <2> QED BY <2>2, <2>3
  <1>4. CASE AuthTick
    BY <1>4 DEF AuthTick, Sent, WasRight
  <1>5. CASE UNCHANGED authVars
    BY <1>5 DEF authVars, Sent, WasRight
  <1> QED BY <1>1, <1>2, <1>3, <1>4, <1>5 DEF AuthNext

THEOREM AuthInvariant == AuthSpec => []AuthInv
  BY AuthInvInit, AuthInvStep, PTL DEF AuthSpec

(* What a service accepts is never stale and never unsigned, for every      *)
(* window, clock error, number of requests and history of secrets.          *)
THEOREM NothingStale == AuthSpec => []StaleNeverAccepted
  <1>1. AuthInv => StaleNeverAccepted
    <2> SUFFICES ASSUME AuthInv, NEW a \in accepted, NEW b \in accepted
                 PROVE  /\ a.under # NoSecret /\ a.request.key = a.under
                        /\ a.request.channel \in Timed =>
                             /\ a.at - a.request.sentAt <= Window + Skew
                             /\ a.request = b.request => a.at - b.at <= 2 * Window
      BY DEF StaleNeverAccepted
    <2>1. WasRight(a) /\ WasRight(b) /\ Sent(a.request)
      BY DEF AuthInv, WasRight
    <2> QED BY <2>1, AuthOK DEF WasRight, Sent
  <1> QED BY <1>1, AuthInvariant, PTL

(* A client that knows the secret and whose delay and clock error the       *)
(* window covers is served, for every window and every history of secrets.  *)
THEOREM HonestServed == AuthSpec => []HonestAccepted
  <1>1. AuthInv => HonestAccepted
    <2> SUFFICES ASSUME AuthInv, NEW m \in signed,
                        m.channel \in Timed => /\ (authNow - m.sentAt) + (m.ts - m.sentAt) <= Window
                                               /\ (authNow - m.sentAt) - (m.ts - m.sentAt) <= Window,
                        m.key = secret[m.channel], m.key # NoSecret
                 PROVE  Verify(m) = "valid"
      BY DEF HonestAccepted
    <2>1. Sent(m) /\ authNow \in Int
      BY DEF AuthInv
    <2>3. m.credential = Credential(m.channel, secret[m.channel], m.ts)
      BY <2>1 DEF Sent
    <2>2. ASSUME m.channel \in Timed PROVE Within(m.ts)
      <3>1. m.sentAt \in Int /\ m.ts \in Int /\ authNow \in Int /\ Window \in Nat
        BY <2>1, AuthOK DEF Sent
      <3>2. m.sentAt <= authNow
        BY <2>1 DEF Sent
      <3>3. /\ authNow >= m.ts => authNow - m.ts <= Window
            /\ ~(authNow >= m.ts) => m.ts - authNow <= Window
        BY <2>2, <3>1, <3>2
      <3> QED BY <3>3 DEF Within
    <2> QED BY <2>2, <2>3 DEF Verify
  <1> QED BY <1>1, AuthInvariant, PTL
=============================================================================
