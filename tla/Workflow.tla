------------------------------ MODULE Workflow ------------------------------
(***************************************************************************)
(* The task state machine of control/services/workflow_engine.py as a      *)
(* library: the transition table of TaskWorkflow, the review sub-workflow, *)
(* and what one WorkflowEngine holds in memory.  It has no state of its    *)
(* own; WorkflowEngine and ManifestLifecycle drive it.                     *)
(***************************************************************************)
EXTENDS Integers

CONSTANT MaxRetries        \* max_retries of TaskWorkflow; no caller changes 3

ASSUME MaxRetriesIsNat == MaxRetries \in Nat

States == {"queued", "in_flight", "verifying", "under_review", "approved",
           "merged", "deployed", "rejected", "failed", "cancelled"}

SubStates == {"pending_review", "challenger_brief", "triage", "decision"}

NoSub == "none"            \* _review_sub is None

Edge(op, from, to) == [op |-> op, from |-> from, to |-> to]

(* The transitions of TaskWorkflow, under the name of the engine method.   *)
Transitions ==
  { Edge("start", "queued", "in_flight"),
    Edge("submit_for_review", "in_flight", "under_review"),
    Edge("submit_for_verification", "in_flight", "verifying"),
    Edge("verification_passed", "verifying", "under_review"),
    Edge("verification_failed", "verifying", "failed"),
    Edge("complete_review", "under_review", "approved"),
    Edge("approve_merge", "approved", "merged"),
    Edge("deploy", "merged", "deployed"),
    Edge("reject", "under_review", "rejected"),
    Edge("fail", "in_flight", "failed"),
    Edge("retry", "rejected", "in_flight"),
    Edge("retry", "failed", "in_flight"),
    Edge("cancel", "queued", "cancelled"),
    Edge("cancel", "in_flight", "cancelled") }

(* Faulty variant, used by a mutant of PROJECT.json only: a list of        *)
(* terminal states that forgets one.                                       *)
FinalStates == {"deployed", "cancelled"}

(* States reconcile_manual_completion refuses.                             *)
NotReconcilable == {"merged", "deployed", "cancelled"}

ManualOverrides ==
  { Edge("reconcile_manual_completion", s, "approved") :
      s \in States \ NotReconcilable }

Moves == Transitions \cup ManualOverrides

(* The three calls that walk the review sub-workflow.                      *)
SubMoves ==
  { Edge("begin_challenge", "pending_review", "challenger_brief"),
    Edge("begin_triage", "challenger_brief", "triage"),
    Edge("reach_decision", "triage", "decision") }

Engines == [state : States, sub : SubStates \cup {NoSub}, retries : 0..MaxRetries]

(* Faulty variants, used by the mutants of PROJECT.json only: an engine    *)
(* that trusts a row found under review; retries counted only on one of    *)
(* the two retry edges.                                                    *)
BuildDecided(state, sub) ==
  [state |-> state,
   sub |-> IF state = "under_review" THEN "decision" ELSE NoSub,
   retries |-> 0]

RetriesAfterRejectOnly(e, m) ==
  IF m.op = "retry" /\ m.from = "rejected" THEN e.retries + 1
  ELSE IF m \in ManualOverrides THEN 0 ELSE e.retries

(* WorkflowEngine(...): a fresh TaskWorkflow in the given state.  The      *)
(* retries of earlier engines are gone, as no caller passes retry_count.   *)
Build(state, sub) ==
  [state |-> state,
   sub |-> IF state # "under_review" THEN NoSub
           ELSE IF sub = NoSub THEN "pending_review" ELSE sub,
   retries |-> 0]

(* What the statemachine and the engine method demand of a move.           *)
Enabled(e, m) ==
  /\ m.from = e.state
  /\ m.op = "retry" => e.retries < MaxRetries
  /\ m.op = "complete_review" => e.sub = "decision"

(* Both ways into review create the sub-workflow; complete_review, reject  *)
(* and the manual override, the ways out, clear it.                        *)
SubAfter(e, m) ==
  CASE m.to = "under_review"                            -> "pending_review"
    [] m.op \in {"complete_review", "reject",
                 "reconcile_manual_completion"}         -> NoSub
    [] OTHER                                            -> e.sub

(* can_retry counts retries; the manual override makes a new TaskWorkflow. *)
RetriesAfter(e, m) ==
  CASE m.op = "retry"                       -> e.retries + 1
    [] m.op = "reconcile_manual_completion" -> 0
    [] OTHER                                -> e.retries

After(e, m) ==
  [state |-> m.to, sub |-> SubAfter(e, m), retries |-> RetriesAfter(e, m)]
=============================================================================
