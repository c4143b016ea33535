----------------------------- MODULE MCRecords -----------------------------
(***************************************************************************)
(* One run for overlapping commands on a manifest, for the records and     *)
(* rules such commands go by, and for what is reported of a session: one of*)
(* them is studied, the others rest.                                       *)
(***************************************************************************)
EXTENDS ManifestLifecycle, ManifestRegistry, GateRules, RepairLoop, RunScrutiny,
  KnowledgeVault, BuilderGuidance

VARIABLE studied

RestingRepairs ==
  /\ loop = [NewLoop(CHOOSE limit \in RepairLimits : TRUE) EXCEPT !.at = "failed"]
  /\ task = NoTask /\ breaker = NewBreaker /\ second = {}

RestingGuidance ==
  /\ session = NoSession /\ record = [m \in Manifests |-> NoRow] /\ runs = 0
  /\ contract = FALSE /\ briefed = FALSE /\ doing = "idle" /\ subject = None /\ unrecorded = {}

RecordsInit ==
  /\ studied \in {"lifecycle", "registry", "gates", "repairs", "scrutiny", "vault", "guidance"}
  /\ Init /\ (studied # "lifecycle" => ~gated)
  /\ RegistryInit /\ GateInit /\ ScrutinyInit /\ VaultInit /\ (studied # "vault" => stocked)
  /\ IF studied = "repairs" THEN RepairInit ELSE RestingRepairs
  /\ IF studied = "guidance" THEN GuidanceInit ELSE RestingGuidance

Others(own) ==
  /\ studied = own /\ UNCHANGED studied
  /\ own # "lifecycle" => UNCHANGED vars
  /\ own # "registry" => UNCHANGED registryVars
  /\ own # "gates" => UNCHANGED gateVars
  /\ own # "repairs" => UNCHANGED repairVars
  /\ own # "scrutiny" => UNCHANGED scrutinyVars
  /\ own # "vault" => UNCHANGED vaultVars
  /\ own # "guidance" => UNCHANGED guidanceVars

RecordsNext ==
  \/ Others("lifecycle") /\ Next
  \/ Others("registry") /\ RegistryNext
  \/ Others("gates") /\ GateNext
  \/ Others("repairs") /\ RepairNext
  \/ Others("scrutiny") /\ ScrutinyNext
  \/ Others("vault") /\ VaultNext
  \/ Others("guidance") /\ GuidanceNext

RecordsVars ==
  <<vars, registryVars, gateVars, repairVars, scrutinyVars, vaultVars, guidanceVars, studied>>

RecordsSpec == RecordsInit /\ [][RecordsNext]_RecordsVars

(* Who looks at a change, and what stops an agent that tries again: gates, *)
(* triage, policy, retries, delegations, hidden checks and logs; and what   *)
(* is known from earlier changes.                                          *)
RulesSound ==
  /\ studied = "gates" => GatesSound
  /\ studied = "repairs" => RepairsBounded
  /\ studied = "scrutiny" => ScrutinySound
  /\ studied = "vault" => VaultSound
=============================================================================
