----------------------------- MODULE MergeChecks -----------------------------
(***************************************************************************)
(* The five pre-merge checks of control/services/merge_controller.py as    *)
(* operators over one merge request, shared by MergeController and         *)
(* ManifestLifecycle.                                                      *)
(*                                                                         *)
(* A request r is a record; the clock and whether the kill switch halts    *)
(* merges are given beside it:                                             *)
(*   expires, contentHash      the manifest's expiry and content hash      *)
(*   packet                    the evidence packet, see Packets            *)
(*   suppliedHash              the hash the caller passes beside it        *)
(*   tier, confidence          risk tier and behavior confidence           *)
(*   required, actual          the gate asked for and the gate passed      *)
(*   sub, state                review sub-state and workflow state         *)
(***************************************************************************)
EXTENDS Integers

Gates == {"AGENT", "HYBRID", "HUMAN"}

NoHash == "no hash"        \* None or an empty string

(* A packet that exists embeds a manifest hash and a digest of its own     *)
(* content; sealed says that digest matches the content.                   *)
Packets(hashes) ==
  [kind : {"missing"}] \cup [kind : {"empty"}] \cup
  [kind : {"packet"}, manifestHash : hashes \cup {NoHash},
   digest : {"none", "sealed", "broken"}]

Strictness == [AGENT |-> 1, HYBRID |-> 2, HUMAN |-> 3]

(* Faulty variant, used by a mutant of PROJECT.json only: the gate the     *)
(* caller asked for, whatever the manifest demands.                        *)
CallerGate(required, minimum) == required

MinimumGate(tier, confidence) ==
  CASE tier = "A" \/ confidence = "BC3" -> "HUMAN"
    [] tier = "B" /\ confidence # "BC3" -> "HYBRID"
    [] OTHER                            -> "AGENT"

(* max by strictness of the gate the caller asked for and the minimum.     *)
EffectiveGate(required, minimum) ==
  IF Strictness[minimum] > Strictness[required] THEN minimum ELSE required

GateMet(r, effective) == Strictness[r.actual] >= Strictness[effective]

(* The packet exists, embeds the hash of this manifest, agrees with the    *)
(* caller's hash if there is one, and is the content that was reviewed.    *)
EvidenceMatches(r) ==
  /\ r.packet.kind = "packet"
  /\ r.contentHash # NoHash
  /\ r.packet.manifestHash # NoHash
  /\ r.suppliedHash \in {NoHash, r.packet.manifestHash}
  /\ r.packet.manifestHash = r.contentHash
  /\ r.packet.digest = "sealed"

ReviewComplete(r) == r.state = "approved" /\ r.sub = "decision"

(* The result of every check; none is skipped because another failed.      *)
Passed(r, now, halted) ==
  [kill_switch_clear |-> ~halted,
   evidence_exists   |-> EvidenceMatches(r),
   manifest_fresh    |-> r.expires >= now,
   gate_type_met     |-> GateMet(r, EffectiveGate(r.required,
                                      MinimumGate(r.tier, r.confidence))),
   review_complete   |-> ReviewComplete(r)]

Failing(r, now, halted) ==
  {c \in DOMAIN Passed(r, now, halted) : ~Passed(r, now, halted)[c]}

(* required_gate_type_for_risk: what the commands ask for.                 *)
RequiredGateForRisk(tier) ==
  CASE tier = "A" -> "HUMAN" [] tier = "B" -> "HYBRID" [] OTHER -> "AGENT"
=============================================================================
