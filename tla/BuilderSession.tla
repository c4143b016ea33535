--------------------------- MODULE BuilderSession ---------------------------
(***************************************************************************)
(* The builder sessions of a project and the commands that move them:      *)
(* build and continue (the builder flow), status and recover (which both   *)
(* reconcile a run that seems to have stopped).  ManifestLifecycle looks   *)
(* at one manifest; here every run creates a manifest of its own and the   *)
(* question is whether session, manifests, approvals and the runtime lock  *)
(* stay in step when commands overlap or die.  Every access to state.db or *)
(* to the lock file is one action: the lock is opened, which empties it,   *)
(* and then written; it is looked for, read and then unlinked.             *)
(*                                                                         *)
(* A session's last_action and last_error are one field here, why, and its *)
(* recovery_reason is kept as far as it says runtime_interrupted.          *)
(* Brownfield review and manual completion are left out.                   *)
(***************************************************************************)
EXTENDS Integers, Sequences, FiniteSets

CONSTANTS
  Procs,        \* the processes
  Commands,     \* the commands users give
  MaxSessions,  \* bound on the sessions
  MaxRuns,      \* bound on the builds and continues
  MaxDeaths     \* bound on the processes that die

ASSUME SessionConstants ==
  /\ Commands \subseteq {"build", "continue", "status", "recover"}
  /\ MaxSessions \in Nat /\ MaxRuns \in Nat /\ MaxDeaths \in Nat

VARIABLES
  sessions,     \* builder_sessions, oldest first
  manifests,    \* manifests with their approvals, oldest first
  lock,         \* .ces/builder-runtime.lock
  contract,     \* .ces/completion-contract.json exists
  runs,         \* builds and continues so far
  deaths,       \* processes that died so far
  pc,           \* where each process is
  mem           \* what each process holds

stored == <<sessions, manifests, lock, contract>>
counts == <<runs, deaths>>
vars == <<stored, counts, pc, mem>>

Stages == {"ready_to_run", "running", "awaiting_review", "blocked", "completed"}

Reasons == {"brief_captured", "runtime_missing", "execution_started",
            "runtime_failed", "evidence_ready", "approval_rejected",
            "merge_blocked", "approval_recorded", "runtime_interrupted",
            "recovery_verification_failed", "self_recovery_evidence_ready",
            "self_recovery_completed"}

SessionRecords ==
  [stage : Stages, why : Reasons,
   manifest : 0..MaxRuns,     \* runtime_manifest_id, 0 for None
   approved : 0..MaxRuns,     \* approval_manifest_id
   interrupted : BOOLEAN,     \* recovery_reason is runtime_interrupted
   old : BOOLEAN]             \* updated_at is stale_after_seconds ago

ManifestStates == {"queued", "in_flight", "under_review", "approved",
                   "merged", "rejected"}

ManifestRecords ==
  [state : ManifestStates, approval : {"none", "approve", "reject"}]

(* The lock file: its text, what can be read of it, whether the process it *)
(* names lives, and the processes that have it open for writing.  Text     *)
(* that is no JSON is read as a lock of no session, manifest and process.  *)
Locks == [text : {"absent", "empty", "broken", "whole"},
          session : 0..MaxSessions, manifest : 0..MaxRuns, alive : BOOLEAN,
          writers : SUBSET Procs]

Unreadable(text, writers) ==
  [text |-> text, session |-> 0, manifest |-> 0, alive |-> FALSE, writers |-> writers]

NoLock == Unreadable("absent", {})

RunLabels == {"reload", "prepare", "supersede", "superseding", "resave", "contract",
              "mark", "launch", "scan", "write_lock", "runtime", "find_lock",
              "read_lock", "unlink", "verify", "submit", "decide", "merging",
              "rejecting", "close"}

RecoverLabels == {"check_lock", "block", "reject_row", "plan", "rerun",
                  "attach", "approve", "complete"}

NewSession == [stage |-> "ready_to_run", why |-> "brief_captured",
               manifest |-> 0, approved |-> 0, interrupted |-> FALSE,
               old |-> FALSE]

NoMem == [session |-> 0, manifest |-> 0, read |-> NewSession,
          recover |-> "no", outcome |-> "none"]

TypeOK ==
  /\ sessions \in Seq(SessionRecords) /\ Len(sessions) <= MaxSessions
  /\ manifests \in Seq(ManifestRecords) /\ Len(manifests) <= runs
  /\ lock \in Locks /\ contract \in BOOLEAN
  /\ runs \in 0..MaxRuns /\ deaths \in 0..MaxDeaths
  /\ pc \in [Procs -> {"idle"} \cup RunLabels \cup RecoverLabels]
  /\ mem \in [Procs ->
       [session : 0..Len(sessions), manifest : 0..Len(manifests),
        read : SessionRecords, recover : {"no", "evidence", "complete"},
        outcome : {"none", "approval_recorded", "merge_blocked",
                   "approval_rejected"}]]

Init ==
  /\ sessions = <<>> /\ manifests = <<>> /\ lock = NoLock
  /\ contract = FALSE /\ runs = 0 /\ deaths = 0
  /\ pc = [p \in Procs |-> "idle"]
  /\ mem = [p \in Procs |-> NoMem]

-----------------------------------------------------------------------------

Latest == Len(sessions)

At(p, label) == pc[p] = label

GoTo(p, label) == pc' = [pc EXCEPT ![p] = label]

Leave(p) == GoTo(p, "idle") /\ mem' = [mem EXCEPT ![p] = NoMem]

(* update_builder_session: the named fields change, updated_at is now.     *)
UpdateSession(s, stage, why) ==
  sessions' = [sessions EXCEPT
    ![s] = [@ EXCEPT !.stage = stage, !.why = why, !.old = FALSE,
                     !.interrupted = (why = "runtime_interrupted")]]

SetState(m, state) == manifests' = [manifests EXCEPT ![m].state = state]

Step(p, from, to) ==
  At(p, from) /\ GoTo(p, to) /\ UNCHANGED <<lock, contract, counts, mem>>

(* The command ends with an update of its session.                         *)
Ends(p, stage, why) ==
  /\ UpdateSession(mem[p].session, stage, why)
  /\ Leave(p)
  /\ UNCHANGED <<manifests, lock, contract, counts>>

Quits(p) == Leave(p) /\ UNCHANGED <<stored, counts>>

-----------------------------------------------------------------------------
(* ces build and ces continue                                              *)

Build(p) ==
  /\ At(p, "idle") /\ "build" \in Commands
  /\ runs < MaxRuns /\ runs' = runs + 1
  /\ Latest < MaxSessions
  /\ sessions' = Append(sessions, NewSession)
  /\ mem' = [mem EXCEPT ![p].session = Latest + 1]
  /\ GoTo(p, "prepare")
  /\ UNCHANGED <<manifests, lock, contract, deaths>>

(* Every session but a completed one is continued, a running one too.      *)
Continue(p) ==
  /\ At(p, "idle") /\ "continue" \in Commands
  /\ runs < MaxRuns /\ runs' = runs + 1
  /\ Latest > 0 /\ sessions[Latest].stage # "completed"
  /\ mem' = [mem EXCEPT ![p].session = Latest]
  /\ GoTo(p, "reload")
  /\ UNCHANGED <<stored, deaths>>

(* The flow that continue starts reads the session again.                  *)
Reload(p) ==
  /\ At(p, "reload")
  /\ mem' = [mem EXCEPT ![p].read = sessions[mem[p].session]]
  /\ GoTo(p, "prepare")
  /\ UNCHANGED <<stored, counts>>

(* No runtime is installed, or its side effects are not accepted.          *)
RuntimeMissing(p) == At(p, "prepare") /\ Ends(p, "blocked", "runtime_missing")

CreateManifest(p) ==
  /\ At(p, "prepare")
  /\ manifests' = Append(manifests, [state |-> "queued", approval |-> "none"])
  /\ mem' = [mem EXCEPT ![p].manifest = Len(manifests) + 1]
  /\ GoTo(p, "supersede")
  /\ UNCHANGED <<sessions, lock, contract, counts>>

(* _supersede_previous_manifest_on_interrupted_continue decides on the     *)
(* session as the command read it and on the row as it is now; then it     *)
(* rejects the row, reads the manifest and saves it rejected once more.    *)
Interrupted(session) == session.manifest > 0 /\ session.interrupted

Supersede(p) ==
  /\ At(p, "supersede")
  /\ GoTo(p, IF /\ Interrupted(mem[p].read)
                /\ manifests[mem[p].read.manifest].state \notin {"merged", "rejected"}
             THEN "superseding" ELSE "contract")
  /\ UNCHANGED <<stored, counts, mem>>

SupersedeRow(p) ==
  /\ Step(p, "superseding", "resave")
  /\ SetState(mem[p].read.manifest, "rejected")
  /\ UNCHANGED sessions

SupersedeManifest(p) ==
  /\ Step(p, "resave", "contract")
  /\ SetState(mem[p].read.manifest, "rejected")
  /\ UNCHANGED sessions

WriteContract(p) ==
  /\ At(p, "contract")
  /\ contract' = TRUE
  /\ GoTo(p, "mark")
  /\ UNCHANGED <<sessions, manifests, lock, counts, mem>>

MarkRunning(p) ==
  /\ Step(p, "mark", "launch")
  /\ sessions' = [sessions EXCEPT
       ![mem[p].session] = [@ EXCEPT !.stage = "running", !.old = FALSE,
                                     !.why = "execution_started",
                                     !.interrupted = FALSE,
                                     !.manifest = mem[p].manifest]]
  /\ UNCHANGED manifests

Launch(p) ==
  /\ Step(p, "launch", "scan")
  /\ SetState(mem[p].manifest, "in_flight")
  /\ UNCHANGED sessions

ScanStops(p) == At(p, "scan") /\ Ends(p, "blocked", "runtime_failed")

(* write_builder_runtime_lock: whatever lock there is, it is emptied, and  *)
(* the new one is written in its place.                                    *)
OpenLock(p) ==
  /\ At(p, "scan")
  /\ lock' = Unreadable("empty", lock.writers \cup {p})
  /\ GoTo(p, "write_lock")
  /\ UNCHANGED <<sessions, manifests, contract, counts, mem>>

(* A file that was unlinked since it was opened takes the text with it;    *)
(* one that was written since may keep the end of a longer text.           *)
Written(p) ==
  LET others == lock.writers \ {p}
      own == [text |-> "whole", session |-> mem[p].session, manifest |-> mem[p].manifest,
              alive |-> TRUE, writers |-> others]
  IN  IF p \notin lock.writers THEN {lock}
      ELSE IF lock.text = "empty" THEN {own}
      ELSE {own, Unreadable("broken", others)}

WriteLock(p) ==
  /\ At(p, "write_lock")
  /\ lock' \in Written(p)
  /\ GoTo(p, "runtime")
  /\ UNCHANGED <<sessions, manifests, contract, counts, mem>>

(* The runtime returns or raises, and either way the lock is cleared.      *)
RuntimeEnds(p) ==
  Step(p, "runtime", "find_lock") /\ UNCHANGED <<sessions, manifests>>

(* clear_builder_runtime_lock: is there a lock, is it another run's, remove *)
(* it.  A lock that has vanished or cannot be read counts as one's own.    *)
FindLock(p) ==
  /\ Step(p, "find_lock", IF lock.text = "absent" THEN "verify" ELSE "read_lock")
  /\ UNCHANGED <<sessions, manifests>>

OfAnotherRun(p) ==
  \/ lock.session \notin {0, mem[p].session}
  \/ lock.manifest \notin {0, mem[p].manifest}

ReadLock(p) ==
  /\ Step(p, "read_lock", IF OfAnotherRun(p) THEN "verify" ELSE "unlink")
  /\ UNCHANGED <<sessions, manifests>>

Unlink(p) ==
  /\ At(p, "unlink")
  /\ lock' = NoLock
  /\ GoTo(p, "verify")
  /\ UNCHANGED <<sessions, manifests, contract, counts, mem>>

(* Faulty variant, used by a mutant of PROJECT.json only: the session is   *)
(* left running until the decision is made.                                *)
EvidenceUnannounced(p) ==
  Step(p, "verify", "submit") /\ UNCHANGED <<sessions, manifests>>

(* Verification, sensors and evidence, outside the lock and without a time *)
(* limit of their own.  The recovery_reason stays what it was.             *)
EvidenceReady(p) ==
  /\ Step(p, "verify", "submit")
  /\ sessions' = [sessions EXCEPT
       ![mem[p].session] = [@ EXCEPT !.stage = "awaiting_review", !.old = FALSE,
                                     !.why = "evidence_ready"]]
  /\ UNCHANGED manifests

RuntimeFailed(p) == At(p, "submit") /\ Ends(p, "blocked", "runtime_failed")

(* The runtime has raised, or the verification does.                       *)
RunRaises(p) == At(p, "verify") /\ Quits(p)

Submit(p) ==
  /\ Step(p, "submit", "decide")
  /\ SetState(mem[p].manifest, "under_review")
  /\ UNCHANGED sessions

Decide(p, choice) ==
  /\ Step(p, "decide", IF choice = "approve" THEN "merging" ELSE "rejecting")
  /\ manifests' = [manifests EXCEPT ![mem[p].manifest].approval = choice]
  /\ UNCHANGED sessions

(* The user leaves the prompt.                                             *)
Abort(p) == At(p, "decide") /\ Quits(p)

Concludes(p, from, state, outcome) ==
  /\ At(p, from)
  /\ SetState(mem[p].manifest, state)
  /\ mem' = [mem EXCEPT ![p].outcome = outcome]
  /\ GoTo(p, "close")
  /\ UNCHANGED <<sessions, lock, contract, counts>>

Merge(p) == Concludes(p, "merging", "merged", "approval_recorded")
MergeBlocked(p) == Concludes(p, "merging", "approved", "merge_blocked")
Reject(p) == Concludes(p, "rejecting", "rejected", "approval_rejected")

Close(p) ==
  /\ At(p, "close")
  /\ sessions' = [sessions EXCEPT
       ![mem[p].session] = [@ EXCEPT
          !.stage = IF mem[p].outcome = "approval_recorded" THEN "completed"
                    ELSE "blocked",
          !.why = mem[p].outcome, !.approved = mem[p].manifest, !.old = FALSE,
          !.interrupted = FALSE]]
  /\ Leave(p)
  /\ UNCHANGED <<manifests, lock, contract, counts>>

RunStep(p) ==
  \/ Reload(p) \/ RuntimeMissing(p) \/ CreateManifest(p) \/ Supersede(p)
  \/ SupersedeRow(p) \/ SupersedeManifest(p) \/ WriteContract(p) \/ MarkRunning(p)
  \/ Launch(p) \/ ScanStops(p) \/ OpenLock(p) \/ WriteLock(p) \/ RuntimeEnds(p)
  \/ FindLock(p) \/ ReadLock(p) \/ Unlink(p) \/ EvidenceReady(p) \/ RuntimeFailed(p)
  \/ RunRaises(p) \/ Submit(p) \/ Merge(p) \/ MergeBlocked(p) \/ Reject(p) \/ Close(p)

-----------------------------------------------------------------------------
(* reconcile_stale_builder_session, called by status and by recover        *)

Inspect(p, recover) ==
  /\ At(p, "idle") /\ Latest > 0
  /\ mem' = [mem EXCEPT ![p] = [session |-> Latest, manifest |-> 0, read |-> sessions[Latest],
                                recover |-> recover, outcome |-> "none"]]
  /\ GoTo(p, IF sessions[Latest].stage = "running" THEN "check_lock" ELSE "plan")
  /\ UNCHANGED <<stored, counts>>

(* A status of a session that is not running has nothing to do.            *)
Status(p) ==
  /\ "status" \in Commands
  /\ Latest > 0 /\ sessions[Latest].stage = "running"
  /\ Inspect(p, "no")

Recover(p) ==
  /\ "recover" \in Commands
  /\ \E mode \in {"evidence", "complete"} : Inspect(p, mode)

(* The lock concerns the session as it was read, if it names it and one of *)
(* its manifests, or nothing at all.                                       *)
LockConcerns(s, session) ==
  /\ lock.text # "absent"
  /\ lock.session \in {0, s}
  /\ lock.manifest \in {0, session.manifest, session.approved} \/ session.manifest = 0

(* Faulty variant, used by a mutant of PROJECT.json only: without lock     *)
(* evidence a session is never stale.                                      *)
StaleByLockOnly(s, session) == LockConcerns(s, session) /\ ~lock.alive

Stale(s, session) ==
  IF LockConcerns(s, session) THEN ~lock.alive ELSE session.old

CheckLock(p) ==
  /\ At(p, "check_lock")
  /\ IF Stale(mem[p].session, mem[p].read) THEN GoTo(p, "block") /\ UNCHANGED mem
     ELSE IF mem[p].recover = "no" THEN Leave(p)
     ELSE GoTo(p, "plan") /\ UNCHANGED mem
  /\ UNCHANGED <<stored, counts>>

(* The two writes of a reconciliation; nothing is read again before them.  *)
BlockSession(p) ==
  /\ Step(p, "block", "reject_row")
  /\ UpdateSession(mem[p].session, "blocked", "runtime_interrupted")
  /\ UNCHANGED manifests

RejectRow(p) ==
  /\ At(p, "reject_row")
  /\ IF mem[p].read.manifest > 0
     THEN SetState(mem[p].read.manifest, "rejected") ELSE UNCHANGED manifests
  /\ Leave(p)
  /\ UNCHANGED <<sessions, lock, contract, counts>>

-----------------------------------------------------------------------------
(* run_auto_evidence_recovery                                              *)

Plan(p) ==
  /\ At(p, "plan")
  /\ IF sessions[Latest].stage = "blocked" /\ contract
     THEN /\ mem' = [mem EXCEPT ![p] = [@ EXCEPT !.session = Latest,
                                                 !.read = sessions[Latest]]]
          /\ GoTo(p, "rerun")
     ELSE Leave(p)
  /\ UNCHANGED <<stored, counts>>

RerunFails(p) ==
  At(p, "rerun") /\ Ends(p, "blocked", "recovery_verification_failed")

Target(session) ==
  IF session.approved > 0 THEN session.approved ELSE session.manifest

(* _safe_to_auto_complete: the reasons that mention missing verification.  *)
SafeToAutoComplete(session) == session.why = "recovery_verification_failed"

(* Faulty variant, used by a mutant of PROJECT.json only: the session is   *)
(* completed and no approval stored.                                       *)
RerunPassesUnapproved(p) ==
  /\ At(p, "rerun")
  /\ IF Target(mem[p].read) = 0 THEN Leave(p)
     ELSE /\ GoTo(p, IF mem[p].recover = "complete"
                        /\ SafeToAutoComplete(sessions[Latest])
                     THEN "complete" ELSE "attach")
          /\ UNCHANGED mem
  /\ UNCHANGED <<stored, counts>>

RerunPasses(p) ==
  /\ At(p, "rerun")
  /\ IF Target(mem[p].read) = 0 THEN Leave(p)
     ELSE /\ GoTo(p, IF mem[p].recover = "complete"
                        /\ SafeToAutoComplete(sessions[Latest])
                     THEN "approve" ELSE "attach")
          /\ UNCHANGED mem
  /\ UNCHANGED <<stored, counts>>

Attach(p) ==
  At(p, "attach") /\ Ends(p, "awaiting_review", "self_recovery_evidence_ready")

AutoApprove(p) ==
  /\ Step(p, "approve", "complete")
  /\ manifests' = [manifests EXCEPT ![Target(mem[p].read)].approval = "approve"]
  /\ UNCHANGED sessions

AutoComplete(p) ==
  /\ At(p, "complete")
  /\ sessions' = [sessions EXCEPT
       ![mem[p].session] = [@ EXCEPT !.stage = "completed", !.old = FALSE,
                                     !.why = "self_recovery_completed",
                                     !.interrupted = FALSE,
                                     !.approved = Target(mem[p].read)]]
  /\ Leave(p)
  /\ UNCHANGED <<manifests, lock, contract, counts>>

RecoverStep(p) ==
  \/ CheckLock(p) \/ BlockSession(p) \/ RejectRow(p) \/ Plan(p)
  \/ RerunFails(p) \/ RerunPasses(p) \/ Attach(p)
  \/ AutoApprove(p) \/ AutoComplete(p)

-----------------------------------------------------------------------------

WorksOn(p, s) == pc[p] \in RunLabels /\ mem[p].session = s

(* 3900 seconds pass.  The steps up to the end of the runtime are shorter: *)
(* the default runtime timeout is 3600 seconds.                            *)
GetsOld ==
  \E s \in DOMAIN sessions :
    /\ ~sessions[s].old
    /\ \A p \in Procs : WorksOn(p, s) =>
         pc[p] \in {"verify", "submit", "decide", "merging", "rejecting", "close"}
    /\ sessions' = [sessions EXCEPT ![s].old = TRUE]
    /\ UNCHANGED <<manifests, lock, contract, counts, pc, mem>>

OwnLock(p) ==
  lock.session = mem[p].session /\ lock.manifest = mem[p].manifest

(* The process is killed.  A lock it wrote now names a dead process.       *)
Die(p) ==
  /\ ~At(p, "idle")
  /\ deaths < MaxDeaths /\ deaths' = deaths + 1
  /\ lock' = [lock EXCEPT !.writers = @ \ {p}, !.alive = @ /\ ~OwnLock(p)]
  /\ Leave(p)
  /\ UNCHANGED <<sessions, manifests, contract, runs>>

UserDecides(p) == Abort(p) \/ \E choice \in {"approve", "reject"} : Decide(p, choice)

Next ==
  \/ GetsOld
  \/ \E p \in Procs :
       \/ Build(p) \/ Continue(p) \/ Status(p) \/ Recover(p)
       \/ RunStep(p) \/ UserDecides(p) \/ RecoverStep(p) \/ Die(p)

Spec == Init /\ [][Next]_vars

(* Commands go on, time passes, and somebody looks at the status again and *)
(* again.  Nothing makes users build, continue, decide or recover.         *)
Fairness ==
  /\ WF_vars(GetsOld)
  /\ \A p \in Procs :
       WF_vars(RunStep(p)) /\ WF_vars(RecoverStep(p)) /\ WF_vars(Status(p))

FairSpec == Spec /\ Fairness

-----------------------------------------------------------------------------

(* A completed session was approved: the approval is stored before the     *)
(* session says so, whichever command completes it and wherever the        *)
(* commands die.                                                           *)
CompletedIsApproved ==
  \A s \in DOMAIN sessions :
    sessions[s].stage = "completed" =>
      /\ sessions[s].approved > 0
      /\ manifests[sessions[s].approved].approval = "approve"

(* What a session says of its manifest is what was decided about it.       *)
SessionSound == TypeOK /\ CompletedIsApproved

(* Commands given one after the other, dying anywhere: no reconciliation   *)
(* and no continued run takes back a merge, because the session stops      *)
(* running before its manifest is decided.                                 *)
MergeStands ==
  [][\A m \in DOMAIN manifests :
       manifests[m].state = "merged" => manifests'[m].state = "merged"]_vars

(* A run whose process died or raised does not keep the latest session     *)
(* running for ever: its dead lock, or its age, gets it blocked for retry. *)
Abandoned(s) ==
  /\ s = Latest /\ sessions[s].stage = "running"
  /\ \A p \in Procs : ~WorksOn(p, s)

AbandonedIsFreed ==
  \A s \in 1..MaxSessions : (s \in DOMAIN sessions /\ Abandoned(s)) ~> ~Abandoned(s)

(* The lock is persisted "so recovery can distinguish live work from       *)
(* interruption" (recovery/reconciler.py:27): no session is called         *)
(* interrupted while the runtime of one of its runs is at work.            *)
LiveWorkSpared ==
  [][\A p, q \in Procs :
       /\ At(p, "block") /\ At(p, "reject_row")'
       /\ mem[p].session = mem[q].session
       => ~At(q, "runtime")]_vars
=============================================================================
