---------------------------- MODULE LeadScoring ----------------------------
(***************************************************************************)
(* The two scoring rules of the Rust crate: the engine of the façade       *)
(* (rust/src/scoring.rs) and the one behind the JSON bridge (score_lead of *)
(* rust/src/bridge.rs).  They give the same points, for signals they look  *)
(* for in different places.  A lead becomes known bit by bit; it is scored *)
(* again after each.                                                       *)
(***************************************************************************)
EXTENDS CoreTypes, FiniteSetsExt

CONSTANTS
  U32,      \* 2^32: the engine reads a JSON number as u64 and keeps a u32
  Counts,   \* bound: the numbers of a lead's confidence and employees
  Revenues  \* bound: the numbers of its annual revenue

ASSUME CountsOK == U32 \in Nat \ {0} /\ Counts \subseteq Nat /\ Revenues \subseteq Nat

VARIABLES
  lead,    \* Lead and its enrichment
  form   \* what only the bridge reads: lead.title, lead.metadata.intent_signal

leadVars == <<lead, form>>

(* ScoringConfig::default, and the points of the bridge *)
Points == [email |-> 10, confidence |-> 15, team |-> 15, revenue |-> 15, title |-> 20,
           industry |-> 15, intent |-> 10]
MinConfidence == 80
MinTeam == 20
MinRevenueCents == 100000000
MinRevenue == 1000000

(* The keywords, one for those both rules know and one for each rule's own. *)
EngineTitles == {"ceo", "president"}
BridgeTitles == {"ceo"}
EngineIndustries == {"ai", "biotech"}
BridgeIndustries == {"ai", "agency"}

(* A number that is not there, or not an integer, counts as zero.           *)
Number(option) == CHOOSE n \in (IF option = None THEN {0} ELSE option) : TRUE
AsU32(n) == n % U32

(* Bug: the threshold is the only value that counts.                       *)
ReachesExactly(n, least) == n = least
Reaches(n, least) == n >= least

(* Anything but null and false is an intent.                                *)
Intent(v) == v \notin {"null", "false"}

(* The score_* functions of the engine *)
EngineSignals(l) == {s \in DOMAIN Points :
  CASE s = "email"      -> l.email
    [] s = "confidence" -> Reaches(AsU32(Number(l.confidence)), MinConfidence)
    [] s = "team"       -> Reaches(AsU32(Number(l.employees)), MinTeam)
    [] s = "revenue"    -> Reaches(Number(l.revenue), MinRevenueCents)
    [] s = "title"      -> (l.title \cup l.name) \cap EngineTitles # {}
    [] s = "industry"   -> (l.industry \cup l.company) \cap EngineIndustries # {}
    [] s = "intent"     -> Intent(l.intent)}

(* score_lead of the bridge *)
BridgeSignals(l, r) == {s \in DOMAIN Points :
  CASE s = "email"      -> l.email
    [] s = "confidence" -> Reaches(Number(l.confidence), MinConfidence)
    [] s = "team"       -> Reaches(Number(l.employees), MinTeam)
    [] s = "revenue"    -> Reaches(Number(l.revenue), MinRevenue)
    [] s = "title"      -> (r.title \cup l.title) \cap BridgeTitles # {}
    [] s = "industry"   -> (l.company \cup l.industry) \cap BridgeIndustries # {}
    [] s = "intent"     -> Intent(r.intent)}

(* score_breakdown: the total is capped *)
ScoreOf(signals) ==
  LET points(s) == IF s \in signals THEN Points[s] ELSE 0
  IN  Min({points("email") + points("confidence") + points("team") + points("revenue")
             + points("title") + points("industry") + points("intent"), 100})
EngineScore == ScoreOf(EngineSignals(lead))
BridgeScore == ScoreOf(BridgeSignals(lead, form))

(* classify_tier, with the thresholds of the configuration *)
ClassifyTier(score) == IF score >= 80 THEN "A" ELSE IF score >= 55 THEN "B" ELSE "C"

LeadInit == lead = NewLead /\ form = [title |-> {}, intent |-> "null"]

Values == [email |-> BOOLEAN, name |-> {{}, {"president"}}, company |-> {{}, {"biotech"}},
           confidence |-> {None} \cup {Some(n) : n \in Counts},
           employees |-> {None} \cup {Some(n) : n \in Counts},
           revenue |-> {None} \cup {Some(n) : n \in Revenues},
           title |-> {{}, {"ceo"}, {"president"}}, industry |-> {{}, {"ai"}, {"agency"}},
           intent |-> {"null", "false", "other"}]

(* with_enrichment, or the form of the lead is filled in: one value is known *)
(* anew.                                                                    *)
Learn(field) == \E v \in Values[field] :
  lead' = [lead EXCEPT ![field] = v] /\ UNCHANGED form

Ask == \E t \in {{}, {"ceo"}}, i \in {"null", "other"} :
  form' = [title |-> t, intent |-> i] /\ UNCHANGED lead

LeadNext == Ask \/ \E field \in DOMAIN Values : Learn(field)

LeadSpec == LeadInit /\ [][LeadNext]_leadVars

(***************************************************************************)
(* Properties                                                              *)
(***************************************************************************)

(* b says of a lead all that a says, and more. *)
Better(a, b) ==
  /\ a.email => b.email
  /\ \A f \in {"name", "company", "title", "industry"} : a[f] \subseteq b[f]
  /\ \A f \in {"confidence", "employees", "revenue"} : Number(a[f]) <= Number(b[f])
  /\ Number(b.confidence) < U32 /\ Number(b.employees) < U32
  /\ Intent(a.intent) => Intent(b.intent)

Rank(tier) == CASE tier = "A" -> 3 [] tier = "B" -> 2 [] tier = "C" -> 1

(* Whatever becomes known of a lead, as long as it speaks for it and its    *)
(* numbers fit into 32 bits, neither rule ranks it lower than before; and   *)
(* the tier is the one ScoreTier::from_score gives the score.               *)
BetterLeadNeverScoresLess ==
  [][lead' # lead =>
       /\ ClassifyTier(EngineScore) = FromScore(EngineScore)
       /\ Better(lead, lead') =>
            EngineScore' >= EngineScore /\ BridgeScore' >= BridgeScore
              /\ Rank(ClassifyTier(EngineScore')) >= Rank(ClassifyTier(EngineScore))]_leadVars
=============================================================================
