------------------------- MODULE ManifestLifecycle -------------------------
(***************************************************************************)
(* One manifest and the ces commands that move it: run (the builder flow), *)
(* execute, review, approve and complete.  Every command is a process of   *)
(* its own: it reads the stored manifest once, holds a WorkflowEngine over *)
(* that state in memory, runs an agent, asks its user, and overwrites the  *)
(* stored row with the state it reached.  Each access to state.db is one   *)
(* transaction and one action here; between two of them other commands     *)
(* run, and a process may die.  A failing audit entry also ends the        *)
(* command, with the engine discarded: Die stands for that too.            *)
(*                                                                         *)
(* The manifest is signed, and its kill switch is never halted: every      *)
(* process builds a switch of its own, in memory and clear.                *)
(***************************************************************************)
EXTENDS Workflow, MergeChecks, FiniteSets

CONSTANTS
  Procs,       \* the processes
  Commands,    \* the commands users give
  AutoRepair,  \* execute --auto-repair
  MaxCommands, \* bound on the commands of a behaviour
  MayDie       \* whether processes die

ASSUME CommandsAreKnown ==
  /\ Commands \subseteq {"run", "execute", "review", "approve", "complete"}
  /\ AutoRepair \in Nat /\ MaxCommands \in Nat /\ MayDie \in BOOLEAN

VARIABLES
  row,         \* workflow_state of the stored manifest
  gated,       \* the manifest lists verification_sensors
  packet,      \* the stored evidence packet
  findings,    \* review findings are stored
  approval,    \* latest decision in the approvals table
  ledger,      \* audit entries: moves made, decisions, merge decisions
  commands,    \* commands started
  pc, cmd,     \* where each process is in which command
  eng,         \* the engine each process holds
  mem,         \* what each process has read or decided
  last         \* the decision recorded last (history)

shared == <<row, gated, packet, findings, approval, ledger, last>>
vars == <<shared, commands, pc, cmd, eng, mem>>

Decisions == {"none", "approve", "reject"}

(* A runtime packet carries the manifest's hash; whether it is ready to    *)
(* ship or blocked is in its control_plane_status.  A manual packet of     *)
(* complete carries no manifest hash.                                      *)
PacketKinds == {"none", "ready", "blocked", "manual"}

(* A label at which the command stores its manifest, and where it goes on. *)
SaveLabels == {"x_started", "x_retried", "x_unverified", "x_ended",
               "h_started", "h_submitted", "b_submitted", "b_approved",
               "a_approved", "c_saved", "merged", "rejected"}

Labels == SaveLabels \cup
  {"idle", "x_start", "x_agent", "x_verify", "x_retry", "h_start", "h_submit",
   "r_dispatch", "a_load", "a_evidence", "a_confirm", "a_record", "a_complete",
   "validate", "merging", "rejecting", "c_evidence", "c_confirm", "c_load",
   "c_move", "c_record", "b_launch", "b_agent", "b_submit", "b_confirm",
   "b_record", "b_walk", "b_complete"}

TypeOK ==
  /\ row \in States /\ gated \in BOOLEAN
  /\ packet \in PacketKinds /\ findings \in BOOLEAN /\ approval \in Decisions
  /\ ledger.moves \subseteq Moves
  /\ ledger.decided \subseteq {"approve", "reject"}
  /\ ledger.merges \subseteq {"allow", "block"}
  /\ commands \in 0..MaxCommands
  /\ pc \in [Procs -> Labels]
  /\ cmd \in [Procs -> Commands \cup {"none"}]
  /\ eng \in [Procs -> Engines]
  /\ mem \in [Procs -> [findings : BOOLEAN, packet : PacketKinds,
                        choice : Decisions]]
  /\ last \in [choice : Decisions, reviewed : BOOLEAN]

-----------------------------------------------------------------------------

NoMem == [findings |-> FALSE, packet |-> "none", choice |-> "none"]

Init ==
  /\ row = "queued" /\ gated \in BOOLEAN
  /\ packet = "none" /\ findings = FALSE /\ approval = "none"
  /\ ledger = [moves |-> {}, decided |-> {}, merges |-> {}]
  /\ commands = 0
  /\ pc = [p \in Procs |-> "idle"]
  /\ cmd = [p \in Procs |-> "none"]
  /\ eng = [p \in Procs |-> Build("queued", NoSub)]
  /\ mem = [p \in Procs |-> NoMem]
  /\ last = [choice |-> "none", reviewed |-> FALSE]

GoTo(p, label) == pc' = [pc EXCEPT ![p] = label] /\ UNCHANGED cmd

(* The command returns: its engine and what it has read are gone.          *)
Leave(p) ==
  /\ pc' = [pc EXCEPT ![p] = "idle"]
  /\ cmd' = [cmd EXCEPT ![p] = "none"]
  /\ eng' = [eng EXCEPT ![p] = Build("queued", NoSub)]
  /\ mem' = [mem EXCEPT ![p] = NoMem]

Quits(p) == Leave(p) /\ UNCHANGED <<shared, commands>>

Begin(p, command, label) ==
  /\ pc[p] = "idle"
  /\ command \in Commands
  /\ commands < MaxCommands
  /\ commands' = commands + 1
  /\ pc' = [pc EXCEPT ![p] = label]
  /\ cmd' = [cmd EXCEPT ![p] = command]

(* get_manifest, and a WorkflowEngine over the state it has.               *)
ReadManifest(p) == eng' = [eng EXCEPT ![p] = Build(row, NoSub)]

(* A method of the engine: it moves as the statemachine allows, and the    *)
(* move is audited.                                                        *)
MoveOf(e, op) == CHOOSE m \in Moves : m.op = op /\ m.from = e.state

CanMove(e, op) == \E m \in Moves : m.op = op /\ Enabled(e, m)

EngineMoves(p, op) ==
  /\ CanMove(eng[p], op)
  /\ eng' = [eng EXCEPT ![p] = After(@, MoveOf(@, op))]
  /\ ledger' = [ledger EXCEPT !.moves = @ \cup {MoveOf(eng[p], op)}]
  /\ UNCHANGED <<row, gated, packet, findings, approval, last, commands, mem>>

Call(p, from, op, to) == pc[p] = from /\ EngineMoves(p, op) /\ GoTo(p, to)

(* save_manifest: the whole row is overwritten with the copy the command   *)
(* holds; nothing compares it with what is stored.                         *)
Continuation(p) ==
  CASE pc[p] \in {"x_started", "x_retried"} -> "x_agent"
    [] pc[p] = "x_unverified"               -> "x_retry"
    [] pc[p] = "h_started"                  -> "h_submit"
    [] pc[p] = "h_submitted"                ->
         IF cmd[p] = "review" THEN "r_dispatch" ELSE "a_record"
    [] pc[p] = "b_submitted"                -> "b_confirm"
    [] pc[p] \in {"a_approved", "b_approved"} -> "validate"
    [] pc[p] = "c_saved"                    -> "c_record"

LastSaves == {"x_ended", "merged", "rejected"}

SaveManifest(p) ==
  /\ pc[p] \in SaveLabels
  /\ row' = eng[p].state
  /\ IF pc[p] \in LastSaves THEN Leave(p)
     ELSE GoTo(p, Continuation(p)) /\ UNCHANGED <<eng, mem>>
  /\ UNCHANGED <<gated, packet, findings, approval, ledger, last, commands>>

-----------------------------------------------------------------------------
(* ces execute                                                             *)

Execute(p) ==
  /\ row \in {"queued", "in_flight"}
  /\ Begin(p, "execute", IF row = "queued" THEN "x_start" ELSE "x_agent")
  /\ ReadManifest(p)
  /\ UNCHANGED <<shared, mem>>

ExecuteStart(p) == Call(p, "x_start", "start", "x_started")

(* The runtime raises, changes files out of scope, exits with an error, or *)
(* makes no claim or no progress under the completion gate.                *)
AgentFails(p) == Call(p, "x_agent", "fail", "x_ended")

(* It succeeds and no gate is configured: the manifest stays in flight.    *)
AgentSucceeds(p) == pc[p] = "x_agent" /\ ~gated /\ Quits(p)

(* Faulty variant, used by a mutant of PROJECT.json only: the submission   *)
(* is stored for somebody else to verify.                                  *)
AgentHandsOver(p) ==
  gated /\ Call(p, "x_agent", "submit_for_verification", "x_ended")

(* It claims completion: submitted for verification, which is not stored.  *)
AgentClaims(p) ==
  gated /\ Call(p, "x_agent", "submit_for_verification", "x_verify")

VerificationPasses(p) == Call(p, "x_verify", "verification_passed", "x_ended")

VerificationFails(p) ==
  Call(p, "x_verify", "verification_failed", "x_unverified")

VerificationRaises(p) == pc[p] = "x_verify" /\ Quits(p)

(* Auto-repair, while --auto-repair and the engine's own budget allow it.  *)
Repairs(p) == eng[p].retries < AutoRepair /\ CanMove(eng[p], "retry")

AutoRepairs(p) == Repairs(p) /\ Call(p, "x_retry", "retry", "x_retried")

GivesUp(p) == pc[p] = "x_retry" /\ ~Repairs(p) /\ Quits(p)

ExecuteStep(p) ==
  \/ ExecuteStart(p) \/ AgentFails(p) \/ AgentSucceeds(p) \/ AgentClaims(p)
  \/ VerificationPasses(p) \/ VerificationFails(p) \/ VerificationRaises(p)
  \/ AutoRepairs(p) \/ GivesUp(p)

-----------------------------------------------------------------------------
(* ces review; queued manifests only when they come from the builder       *)
(* session, not when the user names them.                                  *)

Review(p) ==
  \E handoff \in BOOLEAN :
    /\ row \in {"in_flight", "under_review"} \/ (handoff /\ row = "queued")
    /\ Begin(p, "review", CASE row = "queued"       -> "h_start"
                             [] row = "in_flight"    -> "h_submit"
                             [] row = "under_review" -> "r_dispatch")
    /\ ReadManifest(p)
    /\ UNCHANGED <<shared, mem>>

(* _advance_builder_handoff_to_review, also of approve.                    *)
HandoffStart(p) == Call(p, "h_start", "start", "h_started")
HandoffSubmit(p) == Call(p, "h_submit", "submit_for_review", "h_submitted")

(* The reviewers answer and their findings are stored, or no review        *)
(* executor is configured.                                                 *)
Dispatch(p) ==
  /\ pc[p] = "r_dispatch"
  /\ findings' \in {findings, TRUE}
  /\ Leave(p)
  /\ UNCHANGED <<row, gated, packet, approval, ledger, last, commands>>

ReviewStep(p) == HandoffStart(p) \/ HandoffSubmit(p) \/ Dispatch(p)

-----------------------------------------------------------------------------
(* ces approve                                                             *)

(* The stored findings, the manifest and the evidence are read one after   *)
(* the other; the user then takes any time to decide.                      *)
Approve(p) ==
  /\ Begin(p, "approve", "a_load")
  /\ mem' = [mem EXCEPT ![p].findings = findings]
  /\ UNCHANGED <<shared, eng>>

ApproveLoad(p) ==
  /\ pc[p] = "a_load"
  /\ IF row = "merged" THEN Leave(p)
     ELSE ReadManifest(p) /\ GoTo(p, "a_evidence") /\ UNCHANGED mem
  /\ UNCHANGED <<shared, commands>>

(* With --refresh the stored packet is not read.                           *)
ApproveEvidence(p) ==
  /\ pc[p] = "a_evidence"
  /\ \E read \in {packet, "none"} : mem' = [mem EXCEPT ![p].packet = read]
  /\ GoTo(p, "a_confirm")
  /\ UNCHANGED <<shared, commands, eng>>

(* States in which the command may record the decision.                    *)
Decidable(choice) ==
  IF choice = "approve" THEN {"under_review", "approved"} ELSE {"under_review"}

ApproveConfirm(p, choice) ==
  /\ pc[p] = "a_confirm"
  /\ mem' = [mem EXCEPT ![p].choice = choice]
  /\ \/ eng[p].state = "queued" /\ GoTo(p, "h_start")
     \/ eng[p].state = "in_flight" /\ GoTo(p, "h_submit")
     \/ eng[p].state \in Decidable(choice) /\ GoTo(p, "a_record")
  /\ UNCHANGED <<shared, commands, eng>>

(* Any other state, and a manifest the user named that is not under review *)
(* yet, is refused.                                                        *)
ApproveRefuses(p, choice) ==
  /\ pc[p] = "a_confirm"
  /\ eng[p].state \notin Decidable(choice)
  /\ Quits(p)

(* audit_ledger.record_approval: the decision is irreversible from here.   *)
Records(p, reviewed) ==
  /\ ledger' = [ledger EXCEPT !.decided = @ \cup {mem[p].choice}]
  /\ last' = [choice |-> mem[p].choice, reviewed |-> reviewed]
  /\ UNCHANGED <<row, gated, packet, findings, approval, commands, eng, mem>>

ApproveRecord(p) ==
  /\ pc[p] = "a_record"
  /\ Records(p, mem[p].findings)
  /\ GoTo(p, CASE mem[p].choice = "reject" -> "rejecting"
               [] mem[p].choice = "approve" /\ mem[p].findings
                  /\ eng[p].state = "under_review" -> "a_complete"
               [] OTHER -> "validate")

(* complete_review raises unless the engine's sub-workflow is decided.     *)
ApproveComplete(p) ==
  IF CanMove(eng[p], "complete_review")
  THEN Call(p, "a_complete", "complete_review", "a_approved")
  ELSE pc[p] = "a_complete" /\ Quits(p)

(* Faulty variant, used by a mutant of PROJECT.json only: approve always    *)
(* takes the review for decided.                                           *)
MergeRequestDecided(p, expired) ==
  [expires |-> IF expired THEN 0 ELSE 1,
   contentHash |-> "hash",
   packet |-> [kind |-> "packet",
               manifestHash |-> IF mem[p].packet = "manual" THEN NoHash
                                ELSE "hash",
               digest |-> "sealed"],
   suppliedHash |-> IF mem[p].packet = "manual" THEN NoHash ELSE "hash",
   tier |-> "A", confidence |-> "BC2",
   required |-> RequiredGateForRisk("A"), actual |-> "HUMAN",
   sub |-> "decision", state |-> eng[p].state]

(* The merge request: the reviewed packet, or one synthesized on the spot  *)
(* when none is stored, a human gate, and for approve a review that counts *)
(* as decided when findings are stored.                                    *)
MergeRequest(p, expired) ==
  [expires |-> IF expired THEN 0 ELSE 1,
   contentHash |-> "hash",
   packet |-> [kind |-> "packet",
               manifestHash |-> IF mem[p].packet = "manual" THEN NoHash
                                ELSE "hash",
               digest |-> "sealed"],
   suppliedHash |-> IF mem[p].packet = "manual" THEN NoHash ELSE "hash",
   tier |-> "A", confidence |-> "BC2",
   required |-> RequiredGateForRisk("A"), actual |-> "HUMAN",
   sub |-> IF cmd[p] = "run" \/ mem[p].findings THEN "decision"
           ELSE "pending_review",
   state |-> eng[p].state]

(* validate_merge with its MERGE entry, and the governance status stored   *)
(* with the evidence.                                                      *)
ValidateMerge(p) ==
  /\ pc[p] = "validate"
  /\ \E expired \in BOOLEAN :
       LET allowed == Failing(MergeRequest(p, expired), 1, FALSE) = {}
       IN  /\ ledger' = [ledger EXCEPT !.merges =
                            @ \cup {IF allowed THEN "allow" ELSE "block"}]
           /\ IF allowed /\ mem[p].packet # "blocked"
              THEN GoTo(p, "merging") /\ UNCHANGED <<eng, mem>>
              ELSE Leave(p)
  /\ UNCHANGED <<row, gated, packet, findings, approval, last, commands>>

ApproveMerge(p) == Call(p, "merging", "approve_merge", "merged")

Reject(p) == Call(p, "rejecting", "reject", "rejected")

ApproveStep(p) ==
  \/ ApproveLoad(p) \/ ApproveEvidence(p) \/ ApproveRecord(p)
  \/ ApproveComplete(p) \/ ValidateMerge(p) \/ ApproveMerge(p) \/ Reject(p)

-----------------------------------------------------------------------------
(* ces complete                                                            *)

Complete(p) ==
  /\ Begin(p, "complete", "c_evidence")
  /\ UNCHANGED <<shared, eng, mem>>

(* With --evidence the manual packet replaces the stored one, before the   *)
(* user confirms.                                                          *)
CompleteEvidence(p) ==
  /\ pc[p] = "c_evidence"
  /\ packet' \in {packet, "manual"}
  /\ GoTo(p, "c_confirm")
  /\ UNCHANGED <<row, gated, findings, approval, ledger, last, commands, eng, mem>>

(* The confirmed approval is stored before the state is looked at.         *)
CompleteConfirm(p) ==
  /\ pc[p] = "c_confirm"
  /\ approval' = "approve"
  /\ GoTo(p, "c_load")
  /\ UNCHANGED <<row, gated, packet, findings, ledger, last, commands, eng, mem>>

CompleteDeclined(p) == pc[p] = "c_confirm" /\ Quits(p)

CompleteLoad(p) ==
  /\ pc[p] = "c_load"
  /\ IF row \in NotReconcilable THEN Leave(p)
     ELSE ReadManifest(p) /\ GoTo(p, "c_move") /\ UNCHANGED mem
  /\ UNCHANGED <<shared, commands>>

CompleteMove(p) == Call(p, "c_move", "reconcile_manual_completion", "c_saved")

CompleteRecord(p) ==
  /\ pc[p] = "c_record"
  /\ ledger' = [ledger EXCEPT !.decided = @ \cup {"approve"}]
  /\ last' = [choice |-> "approve", reviewed |-> FALSE]
  /\ Leave(p)
  /\ UNCHANGED <<row, gated, packet, findings, approval, commands>>

CompleteStep(p) ==
  CompleteEvidence(p) \/ CompleteLoad(p) \/ CompleteMove(p) \/ CompleteRecord(p)

-----------------------------------------------------------------------------
(* ces run: the builder flow over the manifest it has just created         *)

Run(p) ==
  /\ commands = 0
  /\ Begin(p, "run", "b_launch")
  /\ UNCHANGED <<shared, eng, mem>>

(* The row is set in flight directly: no engine, no audit entry.           *)
RunLaunch(p) ==
  /\ pc[p] = "b_launch"
  /\ row' = "in_flight"
  /\ GoTo(p, "b_agent")
  /\ UNCHANGED <<gated, packet, findings, approval, ledger, last, commands, eng, mem>>

(* The agent ran and its evidence is stored; an agent that failed ends the *)
(* command here, one the scan stops or that raises even before.            *)
RunAgent(p) ==
  /\ pc[p] = "b_agent"
  /\ packet' \in {"ready", "blocked"}
  /\ \/ /\ GoTo(p, "b_submit")
        /\ mem' = [mem EXCEPT ![p].packet = packet']
        /\ UNCHANGED eng
     \/ packet' = "blocked" /\ Leave(p)
  /\ UNCHANGED <<row, gated, findings, approval, ledger, last, commands>>

RunAgentRaises(p) == pc[p] = "b_agent" /\ Quits(p)

(* The engine is built in flight, whatever is stored by now, and submits   *)
(* for review, whatever the completion gate asks for.                      *)
RunSubmit(p) ==
  LET e == Build("in_flight", NoSub)
      m == MoveOf(e, "submit_for_review")
  IN  /\ pc[p] = "b_submit"
      /\ eng' = [eng EXCEPT ![p] = After(e, m)]
      /\ ledger' = [ledger EXCEPT !.moves = @ \cup {m}]
      /\ GoTo(p, "b_submitted")
      /\ UNCHANGED <<row, gated, packet, findings, approval, last, commands, mem>>

RunDecide(p, choice) ==
  /\ pc[p] = "b_confirm"
  /\ mem' = [mem EXCEPT ![p].choice = choice]
  /\ approval' = choice
  /\ GoTo(p, "b_record")
  /\ UNCHANGED <<row, gated, packet, findings, ledger, last, commands, eng>>

RunRecord(p) ==
  /\ pc[p] = "b_record"
  /\ Records(p, TRUE)
  /\ GoTo(p, IF mem[p].choice = "reject" THEN "rejecting" ELSE "b_walk")

(* begin_challenge, begin_triage and reach_decision, in memory only.       *)
RunWalk(p) ==
  /\ pc[p] = "b_walk"
  /\ \E m \in SubMoves :
       /\ eng[p].sub = m.from
       /\ eng' = [eng EXCEPT ![p].sub = m.to]
       /\ GoTo(p, IF m.to = "decision" THEN "b_complete" ELSE "b_walk")
  /\ UNCHANGED <<shared, commands, mem>>

RunComplete(p) == Call(p, "b_complete", "complete_review", "b_approved")

RunStep(p) ==
  \/ RunLaunch(p) \/ RunAgent(p) \/ RunAgentRaises(p) \/ RunSubmit(p)
  \/ RunRecord(p) \/ RunWalk(p) \/ RunComplete(p)

-----------------------------------------------------------------------------

(* The process is killed, or its audit entry cannot be written.            *)
Die(p) == MayDie /\ pc[p] # "idle" /\ Quits(p)

Start(p) == Execute(p) \/ Review(p) \/ Approve(p) \/ Complete(p) \/ Run(p)

UserDecides(p) ==
  \E choice \in {"approve", "reject"} :
    \/ ApproveConfirm(p, choice) \/ ApproveRefuses(p, choice)
    \/ RunDecide(p, choice)
    \/ CompleteConfirm(p) \/ CompleteDeclined(p)

Next ==
  \E p \in Procs :
    \/ Start(p) \/ UserDecides(p) \/ SaveManifest(p) \/ Die(p)
    \/ ExecuteStep(p) \/ ReviewStep(p) \/ ApproveStep(p)
    \/ CompleteStep(p) \/ RunStep(p)

Spec == Init /\ [][Next]_vars

(* A command goes on: the runtime, the verifier and the reviewers answer   *)
(* or time out.  Nothing makes users give commands or decide.              *)
Fairness ==
  \A p \in Procs :
    WF_vars(SaveManifest(p) \/ ExecuteStep(p) \/ ReviewStep(p)
            \/ ApproveStep(p) \/ CompleteStep(p) \/ RunStep(p))

FairSpec == Spec /\ Fairness

-----------------------------------------------------------------------------

Quiet == \A p \in Procs : pc[p] = "idle"

Moved(op) == \E m \in ledger.moves : m.op = op

(* Whatever overlaps or dies: a merge was approved by somebody, validated, *)
(* and came after a review, walked by this run or stored by ces review.    *)
MergeEarned ==
  row = "merged" \/ Moved("approve_merge") =>
    /\ "approve" \in ledger.decided
    /\ "allow" \in ledger.merges
    /\ findings \/ Moved("complete_review")
    /\ Moved("complete_review") \/ Moved("reconcile_manual_completion")

(* A manifest is never stored while it is being verified, so a verifier    *)
(* that raises or a process that dies leaves no row that execute, review   *)
(* and approve all refuse.                                                 *)
NeverStoredVerifying == row # "verifying"

(* The row that commands find is one they can go on from.                  *)
RowSound == TypeOK /\ NeverStoredVerifying

(* WORK-03 for every state but the in_flight the builder flow writes       *)
(* itself: what is stored was audited, by this process or another one.     *)
OutcomeAudited ==
  row \in {"queued", "in_flight"} \/ \E m \in ledger.moves : m.to = row

(* An approval in the approvals table is in the audit ledger too, once the *)
(* commands have returned, although complete stores it before it knows     *)
(* whether the manifest can be completed.                                  *)
ApprovalAudited == Quiet /\ approval # "none" => approval \in ledger.decided

Audited == OutcomeAudited /\ ApprovalAudited

(* What was decided about a manifest was decided by whom it takes, and is  *)
(* in the ledger.                                                          *)
DecisionsSound == MergeEarned /\ Audited

(* Run one after the other, and dying anywhere, the commands move the      *)
(* stored state along the abstract lifecycle.                              *)
ManifestRow == INSTANCE Lifecycle WITH row <- row

ImplementsLifecycle == ManifestRow!Spec

(* execute ends: whatever the verifier finds, auto-repair runs out, even   *)
(* when --auto-repair asks for more than the engine's budget.              *)
Executing(p) == cmd[p] = "execute"

ExecuteEnds == \A p \in Procs : Executing(p) ~> ~Executing(p)

(* A statement the code does not keep, checked alone: approve "resolves    *)
(* workflow state before recording any irreversible audit decision".  Once *)
(* it has recorded an approval of a reviewed task, and returned, the task  *)
(* should no longer wait for one.                                          *)
DecisionTakesEffect ==
  Quiet /\ last = [choice |-> "approve", reviewed |-> TRUE]
    => row # "under_review"
=============================================================================
