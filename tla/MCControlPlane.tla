--------------------------- MODULE MCControlPlane ---------------------------
(***************************************************************************)
(* One run for the parts of the control plane that share no state: one of  *)
(* them is studied, the others rest in a state in which nothing of theirs  *)
(* is under way.  The ledger is that of a project whose commands are run   *)
(* one after the other.  The users of the legacy register are              *)
(* interchangeable, and every property is a safety property.               *)
(***************************************************************************)
EXTENDS AuditLedger, SpecStories, CascadeInvalidation, LegacyRegister,
        ReviewDispatch, ProjectBootstrap, TLC

\* Two candidates in the first group of the review, one in the second.
TwoGroups == <<2, 1>>

\* Lists of four models, the builder's among them or not.
FourModels == RostersOf(4)

UserSymmetry == Permutations(Users)

VARIABLE studied

RestingPlans ==
  /\ doc = <<>> /\ planned = {} /\ logged = {} /\ edited = TRUE
  /\ decomposing = [p \in Planners |-> Unstarted]

RestingCascade ==
  /\ depends = [n \in CascadeNodes |-> {}] /\ max_depth = 0
  /\ visited = {Changed} /\ queue = <<<<Changed, 0>>>>
  /\ affected = {} /\ cascade_depth = 0 /\ truncated = FALSE

RestingReview ==
  /\ roster = CHOOSE r \in Rosters : TRUE
  /\ triad = FALSE /\ command = "review"
  /\ round = 0 /\ at = "idle" /\ reviewers = <<>> /\ answers = <<>>
  /\ kept = NoReview /\ outcome = "none" /\ escalated = {} /\ decided = NoDecision

ControlPlaneInit ==
  /\ studied \in {"ledger", "plans", "cascade", "legacy", "reviews", "bootstrap"}
  /\ Init /\ (studied # "ledger" => target = CHOOSE t \in [Writers -> Projects] : TRUE)
  /\ IF studied = "plans" THEN PlanInit ELSE RestingPlans
  /\ IF studied = "cascade" THEN CascadeInit ELSE RestingCascade
  /\ LegacyInit
  /\ IF studied = "reviews" THEN ReviewInit ELSE RestingReview
  /\ BootInit

Others(own) ==
  /\ studied = own /\ UNCHANGED studied
  /\ own # "ledger" => UNCHANGED vars
  /\ own # "plans" => UNCHANGED planVars
  /\ own # "cascade" => UNCHANGED cascadeVars
  /\ own # "legacy" => UNCHANGED legacyVars
  /\ own # "reviews" => UNCHANGED reviewVars
  /\ own # "bootstrap" => UNCHANGED bootVars

ControlPlaneNext ==
  \/ Others("ledger") /\ SerialNext
  \/ Others("plans") /\ PlanNext
  \/ Others("cascade") /\ Propagate
  \/ Others("legacy") /\ LegacyNext
  \/ Others("reviews") /\ ReviewNext
  \/ Others("bootstrap") /\ BootNext

ControlPlaneSpec ==
  ControlPlaneInit /\ [][ControlPlaneNext]_<<vars, planVars, cascadeVars, legacyVars,
                                          reviewVars, bootVars, studied>>
=============================================================================
