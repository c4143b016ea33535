----------------------------- MODULE GateRules -----------------------------
(***************************************************************************)
(* The decision tables that say who looks at a change: the gate of a phase *)
(* (gate_evaluator.py), the triage of the evidence as three commands show  *)
(* it (evidence_synthesizer.py), and the file policy as three checks of a  *)
(* run apply it (policy_engine.py).  An evaluator counts the evaluations   *)
(* of each profile for as long as its process lives.                       *)
(*                                                                         *)
(* Certainty is the oracle's confidence in percent.  A random choice is    *)
(* any choice.  A pattern of a manifest is the set of files it matches.    *)
(***************************************************************************)
EXTENDS Integers, FiniteSets, Sequences

CONSTANTS
  Profiles,        \* profiles, or scopes, that are evaluated
  Threshold,       \* evaluations that make a profile known (50 in the code)
  MaxEvaluations,  \* bound on the evaluations of one process
  SampledPhases,   \* phases asked for, the unknown ones included
  Certainties      \* certainties that occur

ASSUME GateBounds ==
  /\ Threshold \in Nat /\ MaxEvaluations \in Nat
  /\ SampledPhases \subseteq Int /\ Certainties \subseteq 0..100

-----------------------------------------------------------------------------
(* The gate of a phase.                                                    *)

Risks == {"A", "B", "C"}
RiskRank == [C |-> 1, B |-> 2, A |-> 3]
Behaviors == 1..3
Trusts == {"trusted", "candidate", "watch", "constrained"}
TrustLoss == [trusted |-> 0, candidate |-> 1, watch |-> 2, constrained |-> 3]
KnownPhases == 1..10
GateRank == [agent |-> 1, hybrid |-> 2, human |-> 3]

TrustCategory(tier, bc, trust) ==
  IF trust # "trusted" THEN "non_trusted"
  ELSE IF tier = "A" \/ bc > 1 THEN "tier_a_or_bc2_plus"
  ELSE IF tier = "B" THEN "tier_b_bc1_trusted_mc"
  ELSE "tier_c_bc1_trusted"

GateTypeMatrix(phase, category) ==
  CASE category \in {"non_trusted", "tier_a_or_bc2_plus"} -> "human"
    [] category = "tier_b_bc1_trusted_mc" ->
         IF phase \in {5, 7} THEN "agent" ELSE IF phase \in {2, 6, 10} THEN "hybrid" ELSE "human"
    [] OTHER -> IF phase \in {2, 5, 6, 7, 10} THEN "agent" ELSE "hybrid"

ApplyConfidenceElevation(base, certainty) ==
  IF certainty < 70 THEN "human"
  ELSE IF certainty >= 90 THEN base
  ELSE IF base = "agent" THEN "hybrid" ELSE "human"

-----------------------------------------------------------------------------
(* The triage of evidence.  A build takes its agent for trusted, triage    *)
(* and approve know no better than candidate.                              *)

ColorRank == [red |-> 0, yellow |-> 1, green |-> 2]
TriageMatrix(tier, trust, green) ==
  LET penalty == RiskRank[tier] + TrustLoss[trust] IN
  IF tier = "C" /\ trust = "trusted" THEN IF green THEN "green" ELSE "yellow"
  ELSE IF green /\ (trust = "trusted" \/ penalty <= 3) THEN "yellow"
  ELSE "red"

SensorsGreen(results) == results # {} /\ results \subseteq {"passed"}
TriageDecision(tier, trust, results) ==
  LET color == TriageMatrix(tier, trust, SensorsGreen(results)) IN
  [color |-> color, eligible |-> color = "green" /\ tier = "C" /\ trust = "trusted"]
EvaluateAutoApproval(tier, trust, results, bc) ==
  TriageDecision(tier, trust, results).eligible /\ bc = 1

-----------------------------------------------------------------------------
(* The file policy.  What a file is for: product source, a test, a secret. *)

PolicyFiles == {"source", "test", "secret"}
CheckFileAccess(file, affected, forbidden) == file \in affected \ forbidden
\* a label such as CLI/API in the scope stands for product sources
ClaimedFileAllowed(file, affected, forbidden, labelled) ==
  /\ file \notin forbidden
  /\ CheckFileAccess(file, affected, forbidden) \/ (labelled /\ file = "source")
OutOfScopeChanges(delta, affected, forbidden) ==
  {file \in delta : ~CheckFileAccess(file, affected, forbidden)}

-----------------------------------------------------------------------------
VARIABLES
  evaluations,   \* evaluations of each profile, in the evaluator
  history,       \* profiles evaluated in this process, oldest first
  verdict,       \* the evaluation just made
  results,       \* what the sensors say now
  shelf,         \* the stored evidence: its color and what the sensors said then
  shown          \* the triage a command shows

gateVars == <<evaluations, history, verdict, results, shelf, shown>>

NoVerdict == [profile |-> "none", gate |-> "none", base |-> "none", tier |-> "C",
              meta |-> FALSE, hidden |-> FALSE]
NoPacket == [color |-> "none", tier |-> "C", results |-> {}]
NothingShown == [color |-> "none", tier |-> "C", live |-> FALSE, eligible |-> FALSE]
SensorResults == SUBSET {"passed", "failed"}

GateInit ==
  /\ evaluations = [p \in Profiles |-> 0] /\ history = <<>> /\ verdict = NoVerdict
  /\ results = {} /\ shelf = NoPacket /\ shown = NothingShown

(* Faulty variant, used by a mutant of PROJECT.json only: the first        *)
(* evaluations of the process are reviewed, whichever profile they are of. *)
MetaReviewsOfProcess(tier, profile) ==
  IF Len(history) < Threshold \/ tier = "A" THEN {TRUE} ELSE BOOLEAN

\* rate 1.0 for tier A and a random choice for the others
ShouldMetaReview(tier, profile) ==
  IF evaluations[profile] < Threshold \/ tier = "A" THEN {TRUE} ELSE BOOLEAN

Evaluate(phase, tier, bc, trust, certainty, profile) ==
  LET base == GateTypeMatrix(phase, TrustCategory(tier, bc, trust)) IN
  /\ phase \in KnownPhases
  /\ verdict = NoVerdict /\ shown = NothingShown /\ Len(history) < MaxEvaluations
  /\ \E meta \in ShouldMetaReview(tier, profile), hidden \in BOOLEAN :
       verdict' = [profile |-> profile, base |-> base, tier |-> tier,
                   gate |-> ApplyConfidenceElevation(base, certainty),
                   meta |-> meta, hidden |-> hidden]
  /\ evaluations' = [evaluations EXCEPT ![profile] = @ + 1]
  /\ history' = Append(history, profile)
  /\ UNCHANGED <<results, shelf, shown>>

\* a caller takes the verdict and keeps the evaluator
Serve ==
  /\ verdict # NoVerdict /\ verdict' = NoVerdict
  /\ UNCHANGED <<evaluations, history, results, shelf, shown>>

\* ces gate has an evaluator of its own; an unknown phase ends it early
GateCommandEnds ==
  /\ history # <<>>
  /\ evaluations' = [p \in Profiles |-> 0] /\ history' = <<>> /\ verdict' = NoVerdict
  /\ UNCHANGED <<results, shelf, shown>>

SensorsChange ==
  /\ verdict = NoVerdict /\ history = <<>>
  /\ results' \in SensorResults
  /\ UNCHANGED <<evaluations, history, verdict, shelf, shown>>

BuildTriages(tier) ==
  /\ verdict = NoVerdict /\ history = <<>> /\ shown = NothingShown
  /\ shelf' = [color |-> TriageDecision(tier, "trusted", results).color,
                tier |-> tier, results |-> results]
  /\ UNCHANGED <<evaluations, history, verdict, results, shown>>

\* ces triage and ces approve: what is stored, or with --refresh the sensors
ShowTriage(tier, refresh) ==
  LET live == TriageDecision(tier, "candidate", results) IN
  /\ verdict = NoVerdict /\ history = <<>> /\ shown = NothingShown
  /\ shelf # NoPacket => tier = shelf.tier
  /\ shown' = IF shelf # NoPacket /\ ~refresh
              THEN [color |-> shelf.color, tier |-> tier, live |-> FALSE, eligible |-> FALSE]
              ELSE [color |-> live.color, tier |-> tier, live |-> TRUE, eligible |-> live.eligible]
  /\ UNCHANGED <<evaluations, history, verdict, results, shelf>>

TriageCommandEnds ==
  /\ shown # NothingShown /\ shown' = NothingShown
  /\ UNCHANGED <<evaluations, history, verdict, results, shelf>>

GateNext ==
  \/ \E phase \in SampledPhases, tier \in Risks, bc \in Behaviors, trust \in Trusts,
        certainty \in Certainties, profile \in Profiles :
       Evaluate(phase, tier, bc, trust, certainty, profile)
  \/ Serve \/ GateCommandEnds \/ SensorsChange
  \/ \E tier \in Risks : BuildTriages(tier) \/ (\E refresh \in BOOLEAN : ShowTriage(tier, refresh))
  \/ TriageCommandEnds

GateSpec == GateInit /\ [][GateNext]_gateVars

-----------------------------------------------------------------------------
GateTypeOK ==
  /\ evaluations \in [Profiles -> 0..MaxEvaluations] /\ history \in Seq(Profiles)
  /\ verdict = NoVerdict \/ verdict.gate \in DOMAIN GateRank
  /\ results \in SensorResults
  /\ shelf.color \in {"none", "red", "yellow", "green"} /\ shown.color \in {"none", "red", "yellow", "green"}

(* No table is out of order: whoever has the higher risk, the worse known  *)
(* behavior, less trust or a less certain classification gets no laxer     *)
(* gate and no better color.                                               *)
TablesOrdered ==
  \A tier, tier2 \in Risks, trust, trust2 \in Trusts :
    RiskRank[tier] <= RiskRank[tier2] /\ TrustLoss[trust] <= TrustLoss[trust2] =>
      /\ \A phase \in KnownPhases, bc \in Behaviors, bc2 \in Behaviors : bc <= bc2 =>
           \A sure, less \in Certainties : less <= sure =>
             GateRank[ApplyConfidenceElevation(
                        GateTypeMatrix(phase, TrustCategory(tier, bc, trust)), sure)]
               <= GateRank[ApplyConfidenceElevation(
                             GateTypeMatrix(phase, TrustCategory(tier2, bc2, trust2)), less)]
      /\ \A green \in BOOLEAN :
           ColorRank[TriageMatrix(tier2, trust2, FALSE)] <= ColorRank[TriageMatrix(tier, trust, green)]
      /\ ColorRank[TriageMatrix(tier2, trust2, TRUE)] <= ColorRank[TriageMatrix(tier, trust, TRUE)]

(* The tables agree: what could be approved without a person never stands  *)
(* before a gate that asks for a person alone.                             *)
AutoApprovalMeetsNoHumanGate ==
  \A tier \in Risks, trust \in Trusts, bc \in Behaviors, seen \in SensorResults :
    EvaluateAutoApproval(tier, trust, seen, bc) =>
      \A phase \in KnownPhases : GateTypeMatrix(phase, TrustCategory(tier, bc, trust)) # "human"

(* What is forbidden passes neither the check of the claim nor that of the *)
(* workspace, and the claim is forgiven only what a label stands for.      *)
PoliciesAgree ==
  \A affected, forbidden, delta \in SUBSET PolicyFiles, labelled \in BOOLEAN :
    \A file \in delta :
      LET claimed == ClaimedFileAllowed(file, affected, forbidden, labelled)
          outside == file \in OutOfScopeChanges(delta, affected, forbidden) IN
      /\ file \in forbidden => (~claimed /\ outside)
      /\ claimed /\ outside => labelled /\ file = "source"

(* An evaluation goes without a second look only for a profile that this   *)
(* very process evaluated often enough before, and never for tier A.       *)
Earlier(profile) ==
  Cardinality({i \in DOMAIN history : history[i] = profile}) - 1
MetaReviewDue ==
  verdict # NoVerdict /\ ~verdict.meta => verdict.tier # "A" /\ Earlier(verdict.profile) >= Threshold

(* Without --refresh a command shows the color of the build, whatever the  *)
(* sensors would say by now; with it, never a better one than the build    *)
(* would get, never green, and no command offers automatic approval.       *)
ColorsHonest ==
  shown # NothingShown =>
    /\ ~shown.eligible
    /\ ~shown.live => shown.color = TriageDecision(shelf.tier, "trusted", shelf.results).color
    /\ shown.live => shown.color # "green" /\ \E seen \in SensorResults :
                       /\ shown.color # "red" => SensorsGreen(seen)
                       /\ ColorRank[shown.color] <= ColorRank[TriageDecision(shown.tier, "trusted", seen).color]

(* Gates, triage and policy (gate_evaluator.py, gate_result.py,            *)
(* evidence_synthesizer.py, triage_result.py, policy_engine.py).           *)
GatesSound ==
  /\ TablesOrdered /\ AutoApprovalMeetsNoHumanGate /\ PoliciesAgree
  /\ GateTypeOK /\ MetaReviewDue /\ ColorsHonest
=============================================================================
