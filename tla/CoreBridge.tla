----------------------------- MODULE CoreBridge -----------------------------
(***************************************************************************)
(* The JSON bridge (rust/src/bridge.rs, rust/src/bin/abos-core.rs): a      *)
(* process that Python starts with one request, which answers it and ends. *)
(* A text is the set of the keywords it contains in lower case.  What the  *)
(* metrics of a department are for is modelled in DepartmentSignals.       *)
(***************************************************************************)
EXTENDS GovernanceCore, LeadScoring

CONSTANT Most  \* bound: how many keywords a text contains

ASSUME MostOK == Most \in Nat

VARIABLES
  asked,  \* the BridgeRequest on the standard input
  answer  \* the BridgeResponse on the standard output, once it is there

bridgeVars == <<asked, answer>>

(* The bridge's own lists. *)
BridgeMarkers ==
  [outbound |-> {"send_email", "outbound_email", "client_message", "social_post", "publish_post",
                 "publish_video", "newsletter_send", "ad_publish", "proposal_send"},
   high_impact |-> {"send_money", "payment", "wire_transfer", "contract_sign", "delete",
                    "credential", "production_change", "invoice_create"},
   sensitive |-> {"gdpr", "personal data", "contract", "payment"},
   injection |-> {"ignore previous instructions", "ignore all previous instructions",
                  "system prompt", "developer message", "reveal your instructions", "exfiltrate",
                  "send the api key", "bypass approval", "do not tell the user",
                  "disable guardrails"}]

(* Bug: a marker is missing from one of the lists. *)
BridgeClassifyUnpaid(action, payload) == Judge(BridgeMarkers, action \ {"invoice_create"}, payload)

(* classify_action and inspect_text of the bridge *)
BridgeClassify(action, payload) == Judge(BridgeMarkers, action, payload)
BridgeInspect(text) == Inspection(BridgeMarkers.injection, text)

(* hash_json: the digest of the canonical form, which has the members in    *)
(* order (functions have none) and all of them, the null ones too.          *)
CanonicalizeFlat(v) == FormOf(v, KeepNulls, CanonicalScalar)
Canonicalize(v) == FormOf(v, KeepNulls, CanonicalizeFlat)
HashJson(payload) == Canonicalize(payload)

(***************************************************************************)
(* Skills                                                                  *)
(***************************************************************************)

Tags == {"sales", "content", "email", "social", "finance", "legal", "security", "research",
         "analytics", "customer", "youtube", "newsletter"}
InferTags(text) == IF text \cap Tags = {} THEN {"custom"} ELSE text \cap Tags

(* One of the markers is no name of a field. *)
NamedTools == [email |-> "email_draft", social |-> "social_draft", linkedin |-> "social_draft",
               twitter |-> "social_draft", youtube |-> "document_generation", crm |-> "crm",
               lead |-> "apollo", invoice |-> "stripe", finance |-> "accounting",
               calendar |-> "calendar", research |-> "web_research"]
ToolMap == [m \in DOMAIN NamedTools \cup {"x/"} |-> IF m = "x/" THEN "social_draft" ELSE NamedTools[m]]
InferTools(text) == {"memory"} \cup {ToolMap[m] : m \in text \cap DOMAIN ToolMap}

External   == {"send", "publish", "post", "email", "message", "approval", "approve"}
HighImpact == {"money", "payment", "contract", "delete"}

(* Bug: only what is sent or published asks for an approval. *)
PolicyOfSending(text) ==
  CASE text \cap {"send", "publish"} # {} -> "external" [] OTHER -> "autonomous"

(* infer_approval_policy *)
InferApprovalPolicy(text) ==
  CASE text \cap External # {} -> "external"
    [] text \cap External = {} /\ text \cap HighImpact # {} -> "high_impact"
    [] OTHER -> "autonomous"

(* analyze_skill_description: without a name the title is the first five    *)
(* long words, "Custom Skill" if there are none; slugify caps the slug, and *)
(* one of no letters is custom_skill.                                       *)
Title(text, name) == CASE name # None -> name [] text = {} /\ name = None -> Some("Custom Skill")
                      [] OTHER -> Some("Its Words")
Slugify(title) == IF title \in {Some(""), Some("Custom Skill")} THEN "custom_skill" ELSE "own_slug"
AnalyzeSkill(text, name) ==
  [slug |-> Slugify(Title(text, name)), tags |-> InferTags(text), tools |-> InferTools(text),
   approval_policy |-> InferApprovalPolicy(text)]

Always == {"analytics_reporting", "approval_routing", "prompt_injection_defense"}

(* resolve_skill_slugs: what a role or a department adds to them.           *)
Adds ==
  {[role |-> {"ceo", "strategy"}, department |-> {},
    slugs |-> {"market_research", "analytics_reporting", "compliance_review"}],
   [role |-> {"sales", "outreach"}, department |-> {"sales"},
    slugs |-> {"lead_generation", "cold_email_outreach", "crm_management", "pipeline_tracking"}],
   [role |-> {"content", "creator"}, department |-> {"content"},
    slugs |-> {"content_strategy", "content_drafting", "social_scheduling"}],
   [role |-> {"youtube"}, department |-> {}, slugs |-> {"youtube_scriptwriting"}],
   [role |-> {"newsletter"}, department |-> {}, slugs |-> {"newsletter_production"}],
   [role |-> {"research", "analyst"}, department |-> {"intelligence"},
    slugs |-> {"market_research", "analytics_reporting"}],
   [role |-> {"operations"}, department |-> {}, slugs |-> {"analytics_reporting", "compliance_review"}],
   [role |-> {"customer", "success"}, department |-> {}, slugs |-> {"customer_success"}],
   [role |-> {"finance"}, department |-> {"finance"}, slugs |-> {"finance_reporting"}],
   [role |-> {"legal", "compliance"}, department |-> {}, slugs |-> {"compliance_review"}]}
ResolveSkillSlugs(role, department) ==
  Always \cup UNION {a.slugs : a \in {a \in Adds : role \cap a.role # {} \/ department \in a.department}}

(***************************************************************************)
(* The process                                                             *)
(***************************************************************************)
Roles == UNION {a.role : a \in Adds}
Types == {"custom"} \cup UNION {a.department : a \in Adds}
Words == Tags \cup DOMAIN ToolMap \cup External \cup HighImpact
Texts(keywords, most) ==
  LET upTo[n \in Nat] == IF n = 0 THEN {{}} ELSE {t \cup {k} : t \in upTo[n-1], k \in keywords}
  IN {{}} \cup upTo[most]
Payloads == Flat \cup Arrays(Objects(Scalars)) \cup
  {[kind |-> "object", of |-> [data |-> d, other |-> x]] : d \in Flat, x \in {Scalar("null"), Scalar("one")}}

(* What Python asks.  A lead is scored in LeadScoring; the two commands     *)
(* that only reshape a result (serialize_sdk_result, serialize_department)  *)
(* are left out.                                                            *)
Requests(command) ==
  CASE command = "classify_action" ->
         [action : Texts(BridgeMarkers.outbound \cup BridgeMarkers.high_impact, 2),
          payload : Texts(BridgeMarkers.sensitive, 2)]
    [] command = "inspect_text" -> [text : Texts(BridgeMarkers.injection, Most + 1)]
    [] command = "hash_json" -> [payload : Payloads]
    [] command = "analyze_skill_description" ->
         [text : Texts(Words, Most), name : {None, Some(""), Some("name")}]
    [] command = "resolve_skill_slugs" -> [role : Texts(Roles, Most), department : Types]
    [] OTHER -> [of : {"garbage"}]

Commands == {"classify_action", "inspect_text", "hash_json",
             "analyze_skill_description", "resolve_skill_slugs", "unknown"}

(* run and handle_request: a request that does not parse is an error and    *)
(* gets no answer.                                                          *)
HandleRequest(command, r) ==
  CASE command = "classify_action"           -> Some(BridgeClassify(r.action, r.payload))
    [] command = "inspect_text"              -> Some(BridgeInspect(r.text))
    [] command = "hash_json"                 -> Some(HashJson(r.payload))
    [] command = "analyze_skill_description" -> Some(AnalyzeSkill(r.text, r.name))
    [] command = "resolve_skill_slugs"       -> Some(ResolveSkillSlugs(r.role, r.department))
    [] OTHER                                 -> None

BridgeInit ==
  /\ asked \in UNION {[command : {c}, input : Requests(c)] : c \in Commands}
  /\ answer = None

BridgeNext ==
  /\ answer = None /\ asked.command # "unknown"
  /\ answer' = HandleRequest(asked.command, asked.input)
  /\ UNCHANGED asked

BridgeSpec == BridgeInit /\ [][BridgeNext]_bridgeVars

(***************************************************************************)
(* Properties                                                              *)
(***************************************************************************)

Answered(command) == answer # None /\ asked.command = command
Given == CHOOSE a \in answer : TRUE

(* Some object in the value has a member that is null. *)
NullMember(v) == v.kind = "object" /\ \E k \in DOMAIN v.of : v.of[k].kind = "null"
HasNull(v) == NullMember(v) \/ \E k \in DOMAIN v.of : NullMember(v.of[k])

(* The bridge and the governance core, each with its own lists, judge every *)
(* action and text alike.  They hash a value from the same form exactly     *)
(* when no object in it, at whatever depth, has a member that is null.      *)
CoresAgree ==
  LET r == asked.input IN
  /\ Answered("classify_action") => Given = ClassifyAction(r.action, r.payload)
  /\ Answered("inspect_text") => Given = InspectPromptInjection(r.text)
  /\ Answered("hash_json") => (Given = AuditEventHash(r.payload) <=> ~HasNull(r.payload))

(* The skills Python registers (CORE_SKILLS of app/services/skills.py)      *)
CoreSkills ==
  {"market_research", "lead_generation", "cold_email_outreach", "pipeline_tracking",
   "content_strategy", "content_drafting", "social_scheduling", "youtube_scriptwriting",
   "newsletter_production", "crm_management", "analytics_reporting", "customer_success",
   "finance_reporting", "compliance_review", "approval_routing", "prompt_injection_defense"}

(* Whatever its role says, an agent gets skills that are registered, the    *)
(* three guarding ones among them; and no skill that may draft e-mail, or   *)
(* whose text speaks of money, payments, contracts or deletion, runs on     *)
(* audit alone.                                                             *)
SkillsAreKnownAndGuarded ==
  /\ Answered("resolve_skill_slugs") => Always \subseteq Given /\ Given \subseteq CoreSkills
  /\ Answered("analyze_skill_description")
       /\ ("email_draft" \in Given.tools \/ asked.input.text \cap HighImpact # {})
     => Given.approval_policy # "autonomous"
=============================================================================
