---------------------------- MODULE MCGovernance ----------------------------
(***************************************************************************)
(* One run for the components that decide what may go on: the services     *)
(* that stop work, a merge that reads whether it is stopped, the engine    *)
(* that moves a task through its lifecycle, the gate a request passes      *)
(* before an agent starts, or the proof an approval asks for.  The         *)
(* components that are not under study rest in a first state.  The         *)
(* identities of emergencies are interchangeable: no operator orders them, *)
(* and every property is a safety property.                                *)
(***************************************************************************)
EXTENDS Governance, MergeController, WorkflowEngine, IntentGate,
        CompletionProof, TLC

EmergencySymmetry == Permutations(Emergencies)

VARIABLE studied

MCInit ==
  /\ studied \in {"governance", "merge", "engine", "intent", "proof"}
  /\ GovernanceInit /\ (studied # "governance" => wired)
  /\ IF studied = "merge"
       THEN MergeInit
       ELSE /\ request = CHOOSE r \in Requests : TRUE
            /\ clock = 0 /\ switch = FALSE /\ decision = Undecided /\ entries = <<>>
  /\ Init
  /\ IntentInit
  /\ studied # "intent" => setting = "" /\ ground.kind = "empty"
  /\ ProofInit

(* A bound: emergencies halt task issuance, trust asks for registry        *)
(* writes; no behavior has both.                                           *)
OneSubject == declared = {} \/ profile = [p \in Keepers |-> NewProfile]

Others(own) ==
  /\ studied = own /\ UNCHANGED studied
  /\ own # "governance" => UNCHANGED governanceVars
  /\ own # "merge" => UNCHANGED mergeVars
  /\ own # "engine" => UNCHANGED vars
  /\ own # "intent" => UNCHANGED intentVars
  /\ own # "proof" => UNCHANGED proofVars

(* A card is judged as it was made: while one is shown, what others do to  *)
(* the files is left out.                                                  *)
MCNext ==
  \/ Others("governance") /\ GovernanceNext /\ OneSubject'
  \/ Others("merge") /\ MergeNext
  \/ Others("engine") /\ Next
  \/ Others("intent") /\ IntentNext
  \/ Others("proof") /\ ProofNext /\ (card # NoCard => card' = NoCard)

MCSpec ==
  MCInit /\ [][MCNext]_<<governanceVars, mergeVars, vars, intentVars, proofVars, studied>>
=============================================================================
