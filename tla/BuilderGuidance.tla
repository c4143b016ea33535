-------------------------- MODULE BuilderGuidance --------------------------
(***************************************************************************)
(* What CES tells its user about the latest builder session: the snapshot  *)
(* that joins the session with the rows it refers to, the report made of   *)
(* it, the diagnosis of `ces why` and the plan of `ces recover`.  The      *)
(* sessions are those that builds, continues, recoveries and completions   *)
(* of a greenfield project write, one command at a time, each write an     *)
(* action of its own and any command killed between two of them.           *)
(*                                                                         *)
(* A session refers to a manifest twice: to the one that ran last, and to  *)
(* the one that was decided on last (approval_manifest_id).                *)
(***************************************************************************)
EXTENDS Naturals

CONSTANT MaxRuns       \* bound on the manifests that are created

ASSUME GuidanceConstants == MaxRuns \in Nat \ {0}

VARIABLES
  session,    \* the latest row of builder_sessions
  record,     \* per manifest: its state, its execution, evidence and approval
  runs,       \* manifests created so far
  contract,   \* whether .ces/completion-contract.json exists
  briefed,    \* whether a brief is saved
  doing,      \* what the command that is running does next
  subject,    \* the manifest that a completion or a recovery works on
  unrecorded  \* history: the manifests that a completion or a recovery has
              \* approved without going on to record it in the session

guidanceVars == <<session, record, runs, contract, briefed, doing, subject, unrecorded>>

Manifests == 1..MaxRuns
None == 0

(* An evidence packet: whether the completion verifier had findings,       *)
(* whether the commands of the contract passed, and its quality, of which  *)
(* the diagnosis tells only missing artifacts from the others.             *)
EvidencePackets ==
  [findings : BOOLEAN, verified : BOOLEAN, quality : {"none", "complete", "missing_artifacts"}]

NoEvidence == [findings |-> FALSE, verified |-> FALSE, quality |-> "none"]

ManifestRows ==
  [state : {"none", "queued", "in_flight", "under_review", "approved", "merged", "rejected"},
   executed : {"none", "ok", "failed"}, packet : EvidencePackets,
   approval : {"none", "approve", "reject"}]

NoRow == [state |-> "none", executed |-> "none", packet |-> NoEvidence, approval |-> "none"]

Sessions ==
  [stage : {"none", "ready_to_run", "running", "awaiting_review", "blocked", "completed"},
   next_action : {"none", "run_continue", "install_runtime", "accept_runtime_side_effects",
                  "review_evidence", "retry_runtime", "fix_verification",
                  "start_new_session"},
   last_action : {"none", "brief_captured", "legacy_brief_backfill", "runtime_missing",
                  "runtime_side_effects_blocked", "execution_started", "evidence_ready",
                  "runtime_failed", "runtime_interrupted", "approval_rejected",
                  "merge_blocked", "approval_recorded",
                  "approval_recorded_merge_not_applied", "recovery_verification_failed",
                  "self_recovery_evidence_ready", "self_recovery_completed",
                  "manual_completion_reconciled"},
   last_error : {"none", "review_complete", "other"},
   manifest : 0..MaxRuns, approval : 0..MaxRuns, brief : 0..MaxRuns]

NoSession ==
  [stage |-> "none", next_action |-> "none", last_action |-> "none",
   last_error |-> "none", manifest |-> None, approval |-> None, brief |-> None]

RunPhases ==
  {"captured", "runtime", "name", "supersede", "contract", "launch", "flight", "agent",
   "evidence", "gathered", "manifest", "decide", "approve", "reject",
   "close_approved", "close_merged", "close_rejected"}

Phases == {"idle", "interrupted", "confirm", "completing", "complete",
           "recovered", "auto_approve", "auto_close"} \cup RunPhases

GuidanceTypeOK ==
  /\ session \in Sessions /\ runs \in 0..MaxRuns
  /\ record \in [Manifests -> ManifestRows]
  /\ contract \in BOOLEAN /\ briefed \in BOOLEAN /\ doing \in Phases
  /\ subject \in 0..MaxRuns /\ unrecorded \subseteq Manifests

Approved == [NoRow EXCEPT !.state = "approved", !.executed = "ok", !.approval = "approve",
                          !.packet.quality = "complete"]

(* A new project, or one whose last session an earlier version of CES      *)
(* closed without a merge, either way it used to record that.              *)
GuidanceInit ==
  /\ contract \in BOOLEAN /\ doing = "idle" /\ subject = None /\ unrecorded = {}
  /\ \/ session = NoSession /\ runs = 0 /\ record = [m \in Manifests |-> NoRow] /\ briefed = FALSE
     \/ /\ runs = 1 /\ record = [m \in Manifests |-> IF m = 1 THEN Approved ELSE NoRow]
        /\ briefed = TRUE
        /\ session \in {
             [NoSession EXCEPT !.stage = "completed", !.next_action = "start_new_session",
                !.last_action = "approval_recorded_merge_not_applied",
                !.last_error = "review_complete", !.manifest = 1, !.approval = 1],
             [NoSession EXCEPT !.stage = "blocked", !.next_action = "review_evidence",
                !.last_action = "merge_blocked",
                !.last_error = "review_complete", !.manifest = 1, !.approval = 1]}

-----------------------------------------------------------------------------
(* The snapshot: the rows that the latest session refers to.               *)

OneOf(a, b) == IF a # None THEN a ELSE b

RowOf(m) == IF m = None THEN NoRow ELSE record[m]

SnapshotManifest == OneOf(session.manifest, session.brief)

DecidedOn == OneOf(session.approval, SnapshotManifest)

SnapshotApproval == RowOf(DecidedOn).approval

Snapshot ==
  LET m == RowOf(SnapshotManifest)
  IN  [manifest |-> SnapshotManifest, workflow_state |-> m.state,
       executed |-> m.executed, packet |-> m.packet, approval |-> SnapshotApproval]

(* The tables of next steps, the same in the store, in explain and in      *)
(* status; the advice is the command it names.                             *)
NextStep(action) ==
  CASE action = "install_runtime"   -> "install a runtime and continue"
    [] action = "review_evidence"   -> "review the evidence"
    [] action = "start_new_session" -> "build"
    [] OTHER                        -> "continue"

-----------------------------------------------------------------------------
(* The report.                                                             *)

IsSoftMergeNotApplied(s) ==
  /\ s.last_action \in {"approval_recorded_merge_not_applied", "merge_blocked"}
  /\ s.last_error = "review_complete"

(* Faulty variant, used by a mutant of PROJECT.json only: a merge that     *)
(* was blocked without a reason is taken for one that was not applied.     *)
IsHardMergeBlockWithReason(s) ==
  /\ s.stage = "blocked" /\ s.last_action = "merge_blocked"
  /\ s.last_error = "other"

IsHardMergeBlock(s) ==
  /\ s.stage = "blocked" /\ s.last_action = "merge_blocked"
  /\ ~IsSoftMergeNotApplied(s)

EffectiveWorkflowState(s, shot) ==
  IF shot.approval = "approve" /\ s.stage = "completed" /\ shot.workflow_state = "rejected"
  THEN "approved" ELSE shot.workflow_state

ReviewState(s, shot) ==
  IF IsHardMergeBlock(s) THEN "blocked"
  ELSE IF shot.approval = "approve" THEN "approved"
  ELSE IF shot.approval = "reject" THEN "rejected"
  ELSE IF shot.workflow_state # "none" THEN EffectiveWorkflowState(s, shot)
  ELSE IF s.stage = "awaiting_review" \/ s.next_action = "review_evidence" THEN "under_review"
  ELSE s.stage

LatestOutcome(s, shot) ==
  IF IsHardMergeBlock(s) THEN "blocked"
  ELSE IF shot.approval = "approve"
  THEN IF IsSoftMergeNotApplied(s) THEN "approved_unmerged" ELSE "approved"
  ELSE IF shot.approval = "reject" THEN "rejected"
  ELSE IF shot.executed = "failed" THEN "runtime_failed"
  ELSE IF shot.packet # NoEvidence THEN "evidence_ready"
  ELSE IF shot.manifest # None THEN "manifest_ready"
  ELSE "brief_captured"

ReportNextStep(s) ==
  CASE IsHardMergeBlock(s)      -> "why, then recover --dry-run"
    [] IsSoftMergeNotApplied(s) -> "report builder"
    [] OTHER                    -> NextStep(s.next_action)

(* What a passed independent verification says once the run is approved.   *)
ApprovedIndependently(shot) ==
  shot.approval = "approve" /\ shot.packet.verified

BuilderReport(s, shot) ==
  [review_state    |-> ReviewState(s, shot),
   latest_outcome  |-> LatestOutcome(s, shot),
   next_step       |-> ReportNextStep(s),
   approval        |-> shot.approval,
   workflow_state  |-> EffectiveWorkflowState(s, shot),
   last_action     |-> s.last_action,
   findings        |-> shot.packet.findings /\ ~ApprovedIndependently(shot),
   quality         |-> IF ApprovedIndependently(shot) THEN "passed" ELSE shot.packet.quality]

TheReport == BuilderReport(session, Snapshot)

(* `ces why`.                                                              *)
IsApproved(r) ==
  "approved" \in {r.review_state, r.latest_outcome, r.workflow_state} \/ r.approval = "approve"

LooksLikeRuntimeFailure(r) ==
  r.latest_outcome = "runtime_failed" \/ r.last_action = "runtime_failed"

Diagnosis(r) ==
  IF "blocked" \in {r.review_state, r.latest_outcome} THEN "blocked"
  ELSE IF IsApproved(r) THEN "none"
  ELSE IF LooksLikeRuntimeFailure(r) THEN "runtime_failed"
  ELSE IF r.findings THEN "evidence_failed_verification"
  ELSE IF r.quality = "missing_artifacts" THEN "evidence_missing_artifacts"
  ELSE IF "rejected" \in {r.review_state, r.latest_outcome} THEN "review_rejected"
  ELSE "blocked"

(* `ces recover`.  The planner takes the manifest that was decided on.     *)
Target == OneOf(session.approval, session.manifest)

ApprovedMergeBlock ==
  /\ session.last_action = "merge_blocked" /\ Target # None
  /\ session.last_error = "review_complete"
  /\ RowOf(Target).approval = "approve"

PlanBlocked == session.stage = "blocked" /\ ~ApprovedMergeBlock

PlanCommands ==
  CASE session.stage = "none" -> {"build"}
    [] session.stage = "completed" -> {}
    [] session.stage = "blocked" ->
         IF ApprovedMergeBlock THEN {"report builder"}
         ELSE IF contract THEN {"recover --auto-evidence", "why"}
         ELSE {"verify", "recover --dry-run", "why"}
    [] OTHER -> {"status"}

-----------------------------------------------------------------------------
(* A build, or a continue: the writes of one run, in their order.          *)

AtPhase(here, next) == doing = here /\ doing' = next

Says(stage, next_action, last_action, error) ==
  [session EXCEPT !.stage = stage, !.next_action = next_action,
                  !.last_action = last_action, !.last_error = error]

SessionOnly(s) == session' = s /\ UNCHANGED <<record, runs, contract, briefed>>

RowOnly(m, r) == record' = [record EXCEPT ![m] = r] /\ UNCHANGED <<session, runs, contract, briefed>>

Session(s) == SessionOnly(s) /\ UNCHANGED <<subject, unrecorded>>

Row(r) == RowOnly(session.manifest, r) /\ UNCHANGED <<subject, unrecorded>>

SaveBrief ==
  /\ AtPhase("idle", "captured") /\ runs < MaxRuns
  /\ briefed' = TRUE /\ UNCHANGED <<session, record, runs, contract, subject, unrecorded>>

SaveSession ==
  /\ AtPhase("captured", "runtime")
  /\ Session([NoSession EXCEPT !.stage = "ready_to_run", !.next_action = "run_continue",
                               !.last_action = "brief_captured"])

(* Any command that looks for the latest session makes one of a brief that *)
(* has none.                                                               *)
EnsureLatest ==
  /\ AtPhase("idle", "idle") /\ session = NoSession /\ briefed
  /\ Session([NoSession EXCEPT !.stage = "ready_to_run", !.next_action = "run_continue",
                               !.last_action = "legacy_brief_backfill"])

Continue ==
  /\ AtPhase("idle", "runtime") /\ runs < MaxRuns
  /\ session.stage \notin {"none", "completed"} /\ Session(session)

NotLaunched ==
  /\ AtPhase("runtime", "idle")
  /\ \/ Session(Says("blocked", "install_runtime", "runtime_missing", "other"))
     \/ Session(Says("blocked", "accept_runtime_side_effects",
                     "runtime_side_effects_blocked", "other"))

(* The manifest is stored, the brief names it, the one whose run was       *)
(* interrupted is rejected, the contract is written.                       *)
CreateManifest ==
  /\ AtPhase("runtime", "name")
  /\ runs' = runs + 1
  /\ record' = [record EXCEPT ![runs + 1] = [NoRow EXCEPT !.state = "queued"]]
  /\ UNCHANGED <<session, contract, briefed, subject, unrecorded>>

NameManifest == AtPhase("name", "supersede") /\ Session([session EXCEPT !.brief = runs])

Supersede ==
  /\ AtPhase("supersede", "contract")
  /\ IF /\ session.manifest # None /\ session.last_action = "runtime_interrupted"
        /\ record[session.manifest].state \notin {"merged", "rejected"}
     THEN Row([record[session.manifest] EXCEPT !.state = "rejected"])
     ELSE Session(session)

WriteContract ==
  /\ AtPhase("contract", "launch")
  /\ contract' = TRUE /\ UNCHANGED <<session, record, runs, briefed, subject, unrecorded>>

Launch ==
  /\ AtPhase("launch", "flight")
  /\ Session([Says("running", "review_evidence", "execution_started", "none")
                EXCEPT !.manifest = runs])

TakeFlight ==
  AtPhase("flight", "agent") /\ Row([record[session.manifest] EXCEPT !.state = "in_flight"])

(* The security scan refuses what the agent would read.                    *)
ScanStops ==
  /\ AtPhase("agent", "idle")
  /\ Session(Says("blocked", "retry_runtime", "runtime_failed", "other"))

RunPackets(executed) ==
  {p \in EvidencePackets :
     /\ p.quality # "none"
     /\ executed = "failed" => ~p.findings /\ ~p.verified}

AgentEnds ==
  /\ AtPhase("agent", "evidence")
  /\ \E executed \in {"ok", "failed"} :
       Row([record[session.manifest] EXCEPT !.executed = executed])

SaveEvidence ==
  /\ AtPhase("evidence", "gathered")
  /\ \E p \in RunPackets(record[session.manifest].executed) :
       Row([record[session.manifest] EXCEPT !.packet = p])

EvidenceReady ==
  /\ AtPhase("gathered", "manifest")
  /\ Session(Says("awaiting_review", "review_evidence", "evidence_ready", session.last_error))

RunFails ==
  /\ AtPhase("manifest", "idle") /\ record[session.manifest].executed = "failed"
  /\ Session(Says("blocked", "retry_runtime", "runtime_failed", "other"))

SubmitForReview ==
  /\ AtPhase("manifest", "decide") /\ record[session.manifest].executed = "ok"
  /\ Row([record[session.manifest] EXCEPT !.state = "under_review"])

SaveApproval ==
  /\ doing = "decide"
  /\ \E decision \in {"approve", "reject"} :
       /\ doing' = decision
       /\ Row([record[session.manifest] EXCEPT !.approval = decision])

Settle ==
  \/ /\ AtPhase("approve", "close_approved")
     /\ Row([record[session.manifest] EXCEPT !.state = "approved"])
  \/ /\ AtPhase("reject", "close_rejected")
     /\ Row([record[session.manifest] EXCEPT !.state = "rejected"])

ApplyMerge ==
  /\ AtPhase("close_approved", "close_merged")
  /\ Row([record[session.manifest] EXCEPT !.state = "merged"])

(* A merge that was not applied leaves the manifest approved; the reason   *)
(* for which it was blocked is not recorded.                               *)
CloseRun ==
  LET decided == [session EXCEPT !.approval = session.manifest]
      blocked(action) == [decided EXCEPT !.stage = "blocked", !.next_action = "review_evidence",
                                         !.last_action = action]
  IN  \/ AtPhase("close_rejected", "idle") /\ Session(blocked("approval_rejected"))
      \/ AtPhase("close_approved", "idle") /\ Session(blocked("merge_blocked"))
      \/ /\ AtPhase("close_merged", "idle")
         /\ Session([decided EXCEPT !.stage = "completed", !.next_action = "start_new_session",
                                    !.last_action = "approval_recorded", !.last_error = "none"])

BuildStep ==
  \/ SaveBrief \/ SaveSession \/ Continue \/ NotLaunched \/ CreateManifest \/ NameManifest
  \/ Supersede \/ WriteContract \/ Launch \/ TakeFlight \/ ScanStops \/ AgentEnds
  \/ SaveEvidence \/ EvidenceReady \/ RunFails \/ SubmitForReview \/ SaveApproval
  \/ Settle \/ ApplyMerge \/ CloseRun

(* A command that is killed, or that its user or an error stops, leaves    *)
(* what it has written.                                                    *)
Killed == /\ doing # "idle" /\ doing' = "idle" /\ subject' = None
          /\ SessionOnly(session) /\ UNCHANGED unrecorded

-----------------------------------------------------------------------------
(* The other commands that change the session.                             *)

(* The reconciler, once a running session's process is dead: the session   *)
(* first, then the manifest.                                               *)
Reconcile ==
  /\ AtPhase("idle", "interrupted") /\ session.stage = "running"
  /\ Session(Says("blocked", "retry_runtime", "runtime_interrupted", "other"))

RejectInterrupted ==
  AtPhase("interrupted", "idle") /\ Row([record[session.manifest] EXCEPT !.state = "rejected"])

(* An approval that is not yet in the session.                             *)
ApproveSubject ==
  /\ RowOnly(subject, [record[subject] EXCEPT !.approval = "approve"])
  /\ unrecorded' = unrecorded \cup {subject} /\ UNCHANGED subject

Close(action) ==
  /\ SessionOnly([Says("completed", "start_new_session", action, "none")
                    EXCEPT !.approval = subject])
  /\ unrecorded' = unrecorded \ {subject} /\ subject' = None

(* `ces recover --auto-evidence`: the commands of the contract are run     *)
(* again, and what they show is stored for review or, where only the       *)
(* verification had failed, approved.                                      *)
Recovered == [findings |-> FALSE, verified |-> TRUE, quality |-> "complete"]

SafeToAutoComplete == session.last_action = "recovery_verification_failed"

RecoveryFails ==
  /\ AtPhase("idle", "idle") /\ PlanBlocked /\ contract
  /\ Session(Says("blocked", "fix_verification", "recovery_verification_failed", "other"))

Recover(auto_complete) ==
  /\ doing = "idle" /\ PlanBlocked /\ contract /\ Target # None
  /\ doing' = IF auto_complete /\ SafeToAutoComplete THEN "auto_approve" ELSE "recovered"
  /\ subject' = Target /\ UNCHANGED unrecorded
  /\ RowOnly(Target, [record[Target] EXCEPT !.packet = Recovered])

EvidenceRecovered ==
  /\ AtPhase("recovered", "idle") /\ subject' = None /\ UNCHANGED unrecorded
  /\ SessionOnly(Says("awaiting_review", "review_evidence", "self_recovery_evidence_ready",
                      "none"))

AutoApprove == AtPhase("auto_approve", "auto_close") /\ ApproveSubject

AutoComplete == AtPhase("auto_close", "idle") /\ Close("self_recovery_completed")

(* `ces complete`: what the operator attaches, and, unless it is then      *)
(* called off, an approval that is stored before the state machine is      *)
(* asked, which refuses a manifest that is merged.  Attached evidence      *)
(* keeps a verification that the packet it replaces was made of.           *)
Attach(m) ==
  \E verified \in {FALSE, record[m].packet.verified} :
    RowOnly(m, [record[m] EXCEPT !.packet = [findings |-> FALSE, verified |-> verified,
                                           quality |-> "complete"]])

CompleteManifest(m) ==
  /\ AtPhase("idle", "confirm") /\ session.stage # "none"
  /\ m \in 1..runs /\ subject' = m /\ UNCHANGED unrecorded
  /\ Attach(m) \/ SessionOnly(session)

ApproveManually == AtPhase("confirm", "completing") /\ ApproveSubject

ReconcileManually ==
  /\ AtPhase("completing", "complete") /\ record[subject].state # "merged"
  /\ RowOnly(subject, [record[subject] EXCEPT !.state = "approved"])
  /\ UNCHANGED <<subject, unrecorded>>

CompleteManually == AtPhase("complete", "idle") /\ Close("manual_completion_reconciled")

GuidanceNext ==
  \/ BuildStep \/ Killed \/ EnsureLatest \/ Reconcile \/ RejectInterrupted
  \/ RecoveryFails \/ \E auto \in BOOLEAN : Recover(auto)
  \/ EvidenceRecovered \/ AutoApprove \/ AutoComplete
  \/ \E m \in Manifests : CompleteManifest(m)
  \/ ApproveManually \/ ReconcileManually \/ CompleteManually

GuidanceSpec == GuidanceInit /\ [][GuidanceNext]_guidanceVars

-----------------------------------------------------------------------------

(* The session was decided on in an earlier run, and runs again: what the  *)
(* report says of the decision is about that earlier run.                  *)
Stale == session.approval \notin {None, SnapshotManifest}

(* A completed session is reported as approved, and `ces why` has nothing  *)
(* to say about it.                                                        *)
CompletedIsClear ==
  session.stage = "completed" =>
    /\ TheReport.review_state = "approved" /\ Diagnosis(TheReport) = "none"
    /\ PlanCommands = {}

(* The decision that is reported was stored by a completion or a recovery  *)
(* that ended before it had recorded it in the session.                    *)
Unrecorded == DecidedOn \in unrecorded

(* `ces why` gives the all-clear to a blocked session only when the        *)
(* decision is stale or unrecorded, or when a command that got nowhere has *)
(* replaced the record of the merge block.                                 *)
Replacing == {"runtime_missing", "runtime_side_effects_blocked", "recovery_verification_failed"}

ClearWhileBlocked ==
  Diagnosis(TheReport) = "none" /\ PlanBlocked =>
    Stale \/ Unrecorded \/ session.last_action \in Replacing

(* A rejected run is never given the all-clear by its own decision, and a  *)
(* merge block is reported as such until something else happens.           *)
BlocksAreReported ==
  session.stage = "blocked" =>
    CASE session.last_action = "approval_rejected" /\ ~Unrecorded ->
           Diagnosis(TheReport) \notin {"none", "runtime_failed"}
      [] session.last_action = "merge_blocked" /\ session.last_error # "review_complete" ->
           /\ Diagnosis(TheReport) = "blocked"
           /\ PlanCommands \cap {"recover --auto-evidence", "verify"} # {}
      [] session.last_action = "runtime_failed" /\ session.approval = None /\ ~Unrecorded ->
           Diagnosis(TheReport) = "runtime_failed"
      [] OTHER -> TRUE

(* The next step that the report names can be taken: continue is named     *)
(* only where there is something to resume, build where there is not, and  *)
(* evidence to review where a run has gathered some.                       *)
AdviceIsTakeable ==
  session.stage # "none" =>
    CASE TheReport.next_step = "continue" -> session.stage # "completed"
      [] TheReport.next_step = "build"    -> session.stage = "completed"
      [] TheReport.next_step = "review the evidence" ->
           SnapshotManifest # None
      [] OTHER -> TRUE

(* While a session is open, recover takes the manifest that the report     *)
(* speaks of, or one that was decided on before that one ran.              *)
RecoversWhatRan == session.stage # "completed" => Target <= SnapshotManifest

(* What CES tells its user about the latest session agrees with the rows   *)
(* it is about and can be followed.                                        *)
GuidanceSound ==
  /\ GuidanceTypeOK /\ CompletedIsClear /\ ClearWhileBlocked /\ BlocksAreReported
  /\ AdviceIsTakeable /\ RecoversWhatRan

(* cli/_blocker_diagnostics.py:59 gives the all-clear as "No active        *)
(* blocker; the latest builder run is approved."                           *)
ClearMeansApproved ==
  Diagnosis(TheReport) = "none" =>
    \/ session.manifest = None \/ RowOf(session.manifest).approval = "approve"
=============================================================================
