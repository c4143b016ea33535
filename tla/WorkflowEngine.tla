--------------------------- MODULE WorkflowEngine ---------------------------
(***************************************************************************)
(* WorkflowEngine of control/services/workflow_engine.py as its callers    *)
(* use it: a ces process builds an engine from the stored workflow_state,  *)
(* calls its methods in any order, stores the state it reached when it     *)
(* chooses to, and ends.  Every move is audited after the engine has made  *)
(* it; when the audit raises, the command ends with the engine discarded.  *)
(* A process may die between a move and the save, and the next engine then *)
(* starts from the older row.                                              *)
(*                                                                         *)
(* One process at a time uses the manifest; ManifestLifecycle has several. *)
(***************************************************************************)
EXTENDS Workflow, Sequences, FiniteSets

CONSTANT AuditRoom         \* bound on the audited moves of a behaviour

ASSUME AuditRoomIsNat == AuditRoom \in Nat

VARIABLES
  row,        \* workflow_state of the stored manifest
  eng,        \* the engine in memory: main state, sub-state, retry_count
  open,       \* a process holds the engine
  trail,      \* the STATE_TRANSITION entries of the audit ledger
  born,       \* entries there were when the engine was built (history)
  walked      \* sub-states reached in the current review (history)

vars == <<row, eng, open, trail, born, walked>>

TypeOK ==
  /\ row \in States
  /\ eng \in Engines
  /\ open \in BOOLEAN
  /\ trail \in Seq(Moves)
  /\ born \in Nat /\ born <= Len(trail)
  /\ walked \subseteq SubStates

-----------------------------------------------------------------------------

Init ==
  /\ row = "queued"
  /\ eng = Build("queued", NoSub)
  /\ open = FALSE
  /\ trail = <<>>
  /\ born = 0
  /\ walked = {}

(* A command builds the engine from the row it has read.  No caller hands  *)
(* over a review sub-state.                                                *)
Open ==
  /\ ~open
  /\ open' = TRUE
  /\ eng' = Build(row, NoSub)
  /\ born' = Len(trail)
  /\ walked' = {}
  /\ UNCHANGED <<row, trail>>

(* Faulty variant, used by a mutant of PROJECT.json only: a command that   *)
(* carries on, and stores, after the audit raised.                         *)
AuditRaisesUnnoticed(m) ==
  /\ open
  /\ Enabled(eng, m)
  /\ eng' = After(eng, m)
  /\ walked' = IF m.to = "under_review" THEN {} ELSE walked
  /\ UNCHANGED <<row, open, trail, born>>

(* A method of the engine: the statemachine moves, then the move is        *)
(* appended to the audit ledger with the states read before and after it.  *)
Move(m) ==
  /\ open
  /\ Enabled(eng, m)
  /\ Len(trail) < AuditRoom
  /\ eng' = After(eng, m)
  /\ trail' = Append(trail, m)
  /\ walked' = IF m.to = "under_review" THEN {} ELSE walked
  /\ UNCHANGED <<row, open, born>>

(* The same call when record_state_transition raises: the engine has moved *)
(* already, nothing is recorded, and the exception ends the command.       *)
AuditRaises(m) ==
  /\ open
  /\ Enabled(eng, m)
  /\ eng' = After(eng, m)
  /\ walked' = IF m.to = "under_review" THEN {} ELSE walked
  /\ open' = FALSE
  /\ UNCHANGED <<row, trail, born>>

(* begin_challenge, begin_triage and reach_decision: not audited.          *)
WalkReview(m) ==
  /\ open
  /\ eng.sub = m.from
  /\ eng' = [eng EXCEPT !.sub = m.to]
  /\ walked' = walked \cup {m.to}
  /\ UNCHANGED <<row, open, trail, born>>

(* The command stores the manifest with the engine's state.                *)
Save ==
  /\ open
  /\ row' = eng.state
  /\ UNCHANGED <<eng, open, trail, born, walked>>

(* The command returns, fails or is killed; its engine is gone.            *)
Close ==
  /\ open
  /\ open' = FALSE
  /\ UNCHANGED <<row, eng, trail, born, walked>>

Next ==
  \/ Open
  \/ \E m \in Moves : Move(m) \/ AuditRaises(m)
  \/ \E m \in SubMoves : WalkReview(m)
  \/ Save
  \/ Close

Spec == Init /\ [][Next]_vars

-----------------------------------------------------------------------------

(* The sub-workflow exists exactly while the task is under review, on      *)
(* every path in (submit, verification, restart) and out (complete,        *)
(* reject, manual override), so no decision outlives its review.           *)
SubStateMatches == (eng.sub # NoSub) <=> (eng.state = "under_review")

(* The entries one engine wrote form a path that ends in its state.        *)
TrailLinked ==
  /\ \A i \in (born + 1)..(Len(trail) - 1) : trail[i].to = trail[i + 1].from
  /\ open /\ Len(trail) > born => eng.state = trail[Len(trail)].to

(* WORK-03: no state is stored that the ledger does not show being entered,*)
(* although the audit may raise and the process may die at any point.      *)
RowAudited ==
  row # "queued" => \E i \in DOMAIN trail : trail[i].to = row

(* can_retry: one engine retries at most MaxRetries times, a manual        *)
(* override in between, which resets the counter, included.                *)
Retries == {i \in (born + 1)..Len(trail) : trail[i].op = "retry"}

RetryBudget == Cardinality(Retries) <= MaxRetries

(* What every engine keeps of itself: its types, its sub-workflow, its     *)
(* entries and its budget.                                                 *)
EngineSound == TypeOK /\ SubStateMatches /\ TrailLinked /\ RetryBudget

(* complete_review happens only after this engine itself walked the whole  *)
(* sub-workflow of this review: neither a restart nor an earlier review of *)
(* the same task counts.                                                   *)
ReviewEarned ==
  [][\A m \in Moves :
       trail' = Append(trail, m) /\ m.op = "complete_review"
         => walked = SubStates \ {"pending_review"}]_vars

(* The stored state follows the abstract lifecycle.                        *)
ManifestRow == INSTANCE Lifecycle WITH row <- row

ImplementsLifecycle == ManifestRow!Spec
=============================================================================
