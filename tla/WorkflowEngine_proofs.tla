----------------------- MODULE WorkflowEngine_proofs -----------------------
(***************************************************************************)
(* Proofs about WorkflowEngine, for every retry budget and every length of *)
(* the audit trail.                                                        *)
(***************************************************************************)
EXTENDS WorkflowEngine, FiniteSetTheorems, TLAPS

-----------------------------------------------------------------------------
(* The transition table.                                                   *)

Ways == {"start", "submit_for_review", "submit_for_verification",
         "verification_passed", "verification_failed", "complete_review",
         "approve_merge", "deploy", "reject", "fail", "retry", "cancel",
         "reconcile_manual_completion"}

LEMMA MoveTypes ==
  ASSUME NEW m \in Moves
  PROVE  m = [op |-> m.op, from |-> m.from, to |-> m.to]
         /\ m.op \in Ways /\ m.from \in States /\ m.to \in States
BY DEF Moves, Transitions, ManualOverrides, Edge, Ways, States

(* No move leads back to queued; the states from approved on only go       *)
(* forward and the final ones nowhere.                                     *)
LEMMA MoveForward ==
  ASSUME NEW m \in Moves
  PROVE  /\ m.to # "queued"
         /\ m.from = "approved" => m.to \in {"approved", "merged"}
         /\ m.from = "merged" => m.to = "deployed"
         /\ m.from \notin {"deployed", "cancelled"}
BY DEF Moves, Transitions, ManualOverrides, Edge, States, NotReconcilable

(* The ways into and out of review are the ones SubAfter names.            *)
LEMMA MoveReview ==
  ASSUME NEW m \in Moves
  PROVE  /\ m.from = "under_review"
              <=> m.op \in {"complete_review", "reject"}
                  \/ (m.op = "reconcile_manual_completion"
                      /\ m.from = "under_review")
         /\ m.from = "under_review" => m.to # "under_review"
         /\ m.to = "under_review"
              => m.op \in {"submit_for_review", "verification_passed"}
         /\ m.op = "reconcile_manual_completion" => m.to = "approved"
         /\ m.op = "retry" => m.from \in {"rejected", "failed"}
BY DEF Moves, Transitions, ManualOverrides, Edge, States, NotReconcilable

LEMMA SubMoveFacts ==
  ASSUME NEW m \in SubMoves
  PROVE  /\ m.from \in SubStates
         /\ m.to \in SubStates
         /\ m.from = "pending_review" <=> m.to = "challenger_brief"
         /\ m.from = "challenger_brief" <=> m.to = "triage"
         /\ m.from = "triage" <=> m.to = "decision"
         /\ m.to # "pending_review"
BY DEF SubMoves, Edge, SubStates

-----------------------------------------------------------------------------
(* Type correctness.                                                       *)

LEMMA AfterType ==
  ASSUME NEW e \in Engines, NEW m \in Moves, Enabled(e, m)
  PROVE  After(e, m) \in Engines
<1>1. m.to \in States
  BY MoveTypes
<1>2. SubAfter(e, m) \in SubStates \cup {NoSub}
  BY DEF SubAfter, Engines, SubStates
<1>3. RetriesAfter(e, m) \in 0..MaxRetries
  BY MaxRetriesIsNat DEF RetriesAfter, Engines, Enabled
<1> QED
  BY <1>1, <1>2, <1>3 DEF After, Engines

LEMMA BuildType ==
  ASSUME NEW s \in States
  PROVE  Build(s, NoSub) \in Engines
BY MaxRetriesIsNat DEF Build, Engines, SubStates, NoSub

LEMMA InitType == Init => TypeOK
<1> SUFFICES ASSUME Init PROVE TypeOK
  OBVIOUS
<1>1. row \in States /\ eng \in Engines
  <2>1. "queued" \in States
    BY DEF States
  <2> QED
    BY <2>1, BuildType DEF Init
<1>2. trail \in Seq(Moves) /\ Len(trail) = 0
  BY DEF Init
<1>3. born \in Nat /\ born <= Len(trail)
  BY <1>2 DEF Init
<1>4. open \in BOOLEAN /\ walked \subseteq SubStates
  BY DEF Init
<1> QED
  BY <1>1, <1>2, <1>3, <1>4 DEF TypeOK

LEMMA TypeStep == TypeOK /\ [Next]_vars => TypeOK'
<1> SUFFICES ASSUME TypeOK, [Next]_vars PROVE TypeOK'
  OBVIOUS
<1> USE DEF TypeOK
<1>1. CASE Open
  BY <1>1, BuildType DEF Open
<1>2. ASSUME NEW m \in Moves, Move(m) PROVE TypeOK'
  BY <1>2, AfterType DEF Move
<1>3. ASSUME NEW m \in Moves, AuditRaises(m) PROVE TypeOK'
  BY <1>3, AfterType DEF AuditRaises
<1>4. ASSUME NEW m \in SubMoves, WalkReview(m) PROVE TypeOK'
  BY <1>4, SubMoveFacts DEF WalkReview, Engines
<1>5. CASE Save
  BY <1>5 DEF Save, Engines
<1>6. CASE Close
  BY <1>6 DEF Close
<1>7. CASE UNCHANGED vars
  BY <1>7 DEF vars
<1> QED
  BY <1>1, <1>2, <1>3, <1>4, <1>5, <1>6, <1>7 DEF Next

(* The engine, its row and its trail always have their types.              *)
THEOREM TypeCorrect == Spec => []TypeOK
<1>1. Init => TypeOK
  BY InitType
<1> QED
  BY <1>1, TypeStep, PTL DEF Spec

-----------------------------------------------------------------------------
(* The sub-workflow, and what has been walked of it.                       *)

Path(s) == CASE s = "challenger_brief" -> {"challenger_brief"}
             [] s = "triage"           -> {"challenger_brief", "triage"}
             [] s = "decision"         -> {"challenger_brief", "triage", "decision"}
             [] OTHER                  -> {}

WalkMatches == eng.sub # NoSub => walked = Path(eng.sub)

ReviewInv == TypeOK /\ SubStateMatches /\ WalkMatches

LEMMA SubAfterFacts ==
  ASSUME NEW e \in Engines, NEW m \in Moves, Enabled(e, m),
         (e.sub # NoSub) <=> (e.state = "under_review")
  PROVE  /\ (SubAfter(e, m) # NoSub) <=> (m.to = "under_review")
         /\ m.to = "under_review" => SubAfter(e, m) = "pending_review"
<1>1. CASE m.to = "under_review"
  BY <1>1, MoveReview DEF SubAfter, NoSub
<1>2. CASE m.to # "under_review" /\ m.from = "under_review"
  <2>1. m.op \in {"complete_review", "reject", "reconcile_manual_completion"}
    BY <1>2, MoveReview
  <2> QED
    BY <1>2, <2>1 DEF SubAfter
<1>3. CASE m.to # "under_review" /\ m.from # "under_review"
  <2>1. e.sub = NoSub
    BY <1>3 DEF Enabled
  <2> QED
    BY <1>3, <2>1 DEF SubAfter
<1> QED
  BY <1>1, <1>2, <1>3

LEMMA ReviewAfterMove ==
  ASSUME ReviewInv, NEW m \in Moves, Enabled(eng, m), eng' = After(eng, m),
         walked' = IF m.to = "under_review" THEN {} ELSE walked
  PROVE  SubStateMatches' /\ WalkMatches'
<1>1. /\ (SubAfter(eng, m) # NoSub) <=> (m.to = "under_review")
      /\ m.to = "under_review" => SubAfter(eng, m) = "pending_review"
  BY SubAfterFacts DEF ReviewInv, TypeOK, SubStateMatches
<1>2. eng'.state = m.to /\ eng'.sub = SubAfter(eng, m)
  BY DEF After
<1>3. SubStateMatches'
  BY <1>1, <1>2 DEF SubStateMatches
<1>4. WalkMatches'
  BY <1>1, <1>2 DEF WalkMatches, Path
<1> QED
  BY <1>3, <1>4

LEMMA ReviewStep == ReviewInv /\ [Next]_vars => ReviewInv'
<1> SUFFICES ASSUME ReviewInv, [Next]_vars PROVE SubStateMatches' /\ WalkMatches'
  BY TypeStep DEF ReviewInv
<1>1. CASE Open
  BY <1>1 DEF Open, Build, SubStateMatches, WalkMatches, Path, NoSub
<1>2. ASSUME NEW m \in Moves, Move(m) PROVE SubStateMatches' /\ WalkMatches'
  BY <1>2, ReviewAfterMove DEF Move
<1>3. ASSUME NEW m \in Moves, AuditRaises(m) PROVE SubStateMatches' /\ WalkMatches'
  BY <1>3, ReviewAfterMove DEF AuditRaises
<1>4. ASSUME NEW m \in SubMoves, WalkReview(m) PROVE SubStateMatches' /\ WalkMatches'
  <2>1. /\ eng.sub = m.from /\ eng'.sub = m.to /\ eng'.state = eng.state
        /\ walked' = walked \cup {m.to}
    BY <1>4 DEF WalkReview, ReviewInv, TypeOK, Engines
  <2>2. NoSub \notin SubStates
    BY DEF NoSub, SubStates
  <2>3. SubStateMatches'
    BY <2>1, <2>2, SubMoveFacts DEF ReviewInv, SubStateMatches
  <2>4. walked = Path(m.from)
    BY <2>1, <2>2, SubMoveFacts DEF ReviewInv, WalkMatches
  <2>5. Path(m.from) \cup {m.to} = Path(m.to)
    BY SubMoveFacts DEF Path, SubStates
  <2> QED
    BY <2>1, <2>3, <2>4, <2>5 DEF WalkMatches
<1>5. CASE Save
  BY <1>5 DEF Save, ReviewInv, SubStateMatches, WalkMatches
<1>6. CASE Close
  BY <1>6 DEF Close, ReviewInv, SubStateMatches, WalkMatches
<1>7. CASE UNCHANGED vars
  BY <1>7 DEF vars, ReviewInv, SubStateMatches, WalkMatches
<1> QED
  BY <1>1, <1>2, <1>3, <1>4, <1>5, <1>6, <1>7 DEF Next

LEMMA ReviewAlways == Spec => []ReviewInv
<1>1. Init => ReviewInv
  BY InitType DEF Init, ReviewInv, Build, SubStateMatches, WalkMatches, NoSub
<1> QED
  BY <1>1, ReviewStep, PTL DEF Spec

(* The sub-workflow exists exactly while the task is under review.         *)
THEOREM ReviewScoped == Spec => []SubStateMatches
BY ReviewAlways, PTL DEF ReviewInv

(* complete_review is preceded by the whole walk of this very review.      *)
THEOREM ReviewIsEarned == Spec => ReviewEarned
<1>1. ASSUME ReviewInv, [Next]_vars
      PROVE  \A m \in Moves :
               trail' = Append(trail, m) /\ m.op = "complete_review"
                 => walked = SubStates \ {"pending_review"}
  <2> SUFFICES ASSUME NEW m \in Moves, trail' = Append(trail, m),
                      m.op = "complete_review"
               PROVE  walked = SubStates \ {"pending_review"}
    OBVIOUS
  <2>1. trail \in Seq(Moves)
    BY <1>1 DEF ReviewInv, TypeOK
  <2>2. trail' # trail /\ trail'[Len(trail) + 1] = m
    BY <2>1
  <2>3. PICK k \in Moves : Move(k)
    BY <1>1, <2>2 DEF Next, Open, AuditRaises, WalkReview, Save, Close, vars
  <2>4. trail'[Len(trail) + 1] = k
    BY <2>1, <2>3 DEF Move
  <2>5. eng.sub = "decision"
    BY <2>2, <2>3, <2>4 DEF Move, Enabled
  <2> QED
    BY <1>1, <2>5 DEF ReviewInv, WalkMatches, Path, SubStates, NoSub
<1> QED
  BY <1>1, ReviewAlways, PTL DEF Spec, ReviewEarned

-----------------------------------------------------------------------------
(* The audit trail and the stored row.                                     *)

Audited(s) == s # "queued" => \E i \in DOMAIN trail : trail[i].to = s

AuditInv ==
  /\ TypeOK
  /\ RowAudited
  /\ open => Audited(eng.state)
  /\ TrailLinked

LEMMA AppendMove ==
  ASSUME NEW t \in Seq(Moves), NEW m \in Moves
  PROVE  /\ Append(t, m) \in Seq(Moves)
         /\ Len(Append(t, m)) = Len(t) + 1
         /\ DOMAIN Append(t, m) = 1..(Len(t) + 1)
         /\ Append(t, m)[Len(t) + 1] = m
         /\ \A i \in 1..Len(t) : Append(t, m)[i] = t[i]
OBVIOUS

LEMMA AuditStep == AuditInv /\ [Next]_vars => AuditInv'
<1> SUFFICES ASSUME AuditInv, [Next]_vars
             PROVE  RowAudited' /\ (open' => Audited(eng.state)') /\ TrailLinked'
  BY TypeStep DEF AuditInv
<1> DEFINE Goal == RowAudited' /\ (open' => Audited(eng.state)') /\ TrailLinked'
<1>1. CASE Open
  <2>1. eng'.state = row /\ trail' = trail /\ row' = row /\ born' = Len(trail)
    BY <1>1 DEF Open, Build
  <2>2. TrailLinked'
    BY <2>1 DEF TrailLinked, AuditInv, TypeOK
  <2> QED
    BY <2>1, <2>2 DEF AuditInv, RowAudited, Audited
<1>2. ASSUME NEW m \in Moves, Move(m) PROVE Goal
  <2>1. /\ eng'.state = m.to /\ eng.state = m.from /\ trail' = Append(trail, m)
        /\ row' = row /\ born' = born /\ open
    BY <1>2 DEF Move, Enabled, After
  <2>2. /\ Len(trail') = Len(trail) + 1 /\ DOMAIN trail' = 1..(Len(trail) + 1)
        /\ trail'[Len(trail) + 1] = m
        /\ \A i \in 1..Len(trail) : trail'[i] = trail[i]
        /\ DOMAIN trail = 1..Len(trail) /\ Len(trail) \in Nat
        /\ born \in Nat /\ born <= Len(trail)
    BY <2>1, AppendMove DEF AuditInv, TypeOK
  <2>3. RowAudited'
    BY <2>1, <2>2 DEF AuditInv, RowAudited
  <2>4. Audited(eng.state)'
    BY <2>1, <2>2 DEF Audited
  <2>5. ASSUME NEW i \in (born + 1)..(Len(trail') - 1)
        PROVE  trail'[i].to = trail'[i + 1].from
    <3>0. i \in Int /\ born + 1 <= i /\ i <= Len(trail)
      <4>1. Len(trail') - 1 = Len(trail)
        BY <2>2
      <4> QED
        BY <2>2, <4>1
    <3>1. CASE i = Len(trail)
      <4>1. Len(trail) > born /\ i \in 1..Len(trail)
        BY <2>2, <3>0, <3>1
      <4>2. trail[i].to = m.from
        BY <2>1, <3>1, <4>1 DEF AuditInv, TrailLinked
      <4> QED
        BY <2>2, <3>1, <4>1, <4>2
    <3>2. CASE i # Len(trail)
      <4>0. Len(trail) \in Nat /\ born \in Nat
        BY <2>2
      <4>1. i \in (born + 1)..(Len(trail) - 1)
        BY <3>0, <3>2, <4>0
      <4>2. i \in 1..Len(trail) /\ i + 1 \in 1..Len(trail)
        BY <2>2, <4>1
      <4> QED
        BY <2>2, <4>1, <4>2 DEF AuditInv, TrailLinked
    <3> QED
      BY <3>1, <3>2
  <2>6. TrailLinked'
    BY <2>1, <2>2, <2>5 DEF TrailLinked
  <2> QED
    BY <2>3, <2>4, <2>6
<1>3. ASSUME NEW m \in Moves, AuditRaises(m) PROVE Goal
  BY <1>3 DEF AuditRaises, AuditInv, RowAudited, TrailLinked
<1>4. ASSUME NEW m \in SubMoves, WalkReview(m) PROVE Goal
  <2>1. eng'.state = eng.state
    BY <1>4 DEF WalkReview, AuditInv, TypeOK, Engines
  <2> QED
    BY <1>4, <2>1 DEF WalkReview, AuditInv, RowAudited, TrailLinked, Audited
<1>5. CASE Save
  BY <1>5 DEF Save, AuditInv, RowAudited, TrailLinked, Audited
<1>6. CASE Close
  BY <1>6 DEF Close, AuditInv, RowAudited, TrailLinked
<1>7. CASE UNCHANGED vars
  BY <1>7 DEF vars, AuditInv, RowAudited, TrailLinked, Audited
<1> QED
  BY <1>1, <1>2, <1>3, <1>4, <1>5, <1>6, <1>7 DEF Next

LEMMA AuditAlways == Spec => []AuditInv
<1>1. Init => AuditInv
  BY InitType DEF Init, AuditInv, RowAudited, TrailLinked
<1> QED
  BY <1>1, AuditStep, PTL DEF Spec

(* WORK-03: a stored state was audited when it was entered.                *)
THEOREM StoredIsAudited == Spec => []RowAudited
BY AuditAlways, PTL DEF AuditInv

(* One engine's entries form a path that ends where the engine is.         *)
THEOREM TrailIsLinked == Spec => []TrailLinked
BY AuditAlways, PTL DEF AuditInv

-----------------------------------------------------------------------------
(* The retry budget.  Outside the states that no retry can follow, the     *)
(* engine's counter is exactly the number of its audited retries.          *)

Done == {"approved", "merged", "deployed"}

BudgetInv ==
  /\ TypeOK
  /\ IsFiniteSet(Retries)
  /\ Cardinality(Retries) <= MaxRetries
  /\ open /\ eng.state \notin Done => Cardinality(Retries) = eng.retries

LEMMA RetriesAfterMove ==
  ASSUME TypeOK, NEW m \in Moves, trail' = Append(trail, m), born' = born,
         IsFiniteSet(Retries)
  PROVE  /\ IsFiniteSet(Retries')
         /\ Cardinality(Retries) \in Nat
         /\ m.op # "retry" => Cardinality(Retries') = Cardinality(Retries)
         /\ m.op = "retry" => Cardinality(Retries') = Cardinality(Retries) + 1
<1>1. /\ Len(trail') = Len(trail) + 1
      /\ trail'[Len(trail) + 1] = m
      /\ \A i \in 1..Len(trail) : trail'[i] = trail[i]
      /\ Len(trail) \in Nat /\ born \in Nat /\ born <= Len(trail)
  BY AppendMove DEF TypeOK
<1>2. Cardinality(Retries) \in Nat
  BY FS_CardinalityType
<1>3. CASE m.op # "retry"
  <2>1. Retries' = Retries
    BY <1>1, <1>3 DEF Retries
  <2> QED
    BY <1>2, <1>3, <2>1
<1>4. CASE m.op = "retry"
  <2>1. Retries' = Retries \cup {Len(trail) + 1}
    BY <1>1, <1>4 DEF Retries
  <2>2. Len(trail) + 1 \notin Retries
    BY <1>1 DEF Retries
  <2> QED
    BY <1>2, <1>4, <2>1, <2>2, FS_AddElement
<1> QED
  BY <1>3, <1>4

LEMMA BudgetStep == BudgetInv /\ [Next]_vars => BudgetInv'
<1> SUFFICES ASSUME BudgetInv, [Next]_vars PROVE BudgetInv'
  OBVIOUS
<1>0. TypeOK'
  BY TypeStep DEF BudgetInv
<1>1. CASE Open
  <2>1. Retries' = {}
    BY <1>1 DEF Open, BudgetInv, TypeOK, Retries
  <2>2. eng'.retries = 0
    BY <1>1 DEF Open, Build
  <2> QED
    BY <1>0, <2>1, <2>2, FS_EmptySet, MaxRetriesIsNat DEF BudgetInv
<1>2. ASSUME NEW m \in Moves, Move(m) PROVE BudgetInv'
  <2>1. /\ open /\ eng.state = m.from /\ eng'.state = m.to
        /\ eng'.retries = RetriesAfter(eng, m)
        /\ m.op = "retry" => eng.retries < MaxRetries
    BY <1>2 DEF Move, Enabled, After
  <2>2. /\ IsFiniteSet(Retries')
        /\ Cardinality(Retries) \in Nat
        /\ m.op # "retry" => Cardinality(Retries') = Cardinality(Retries)
        /\ m.op = "retry" => Cardinality(Retries') = Cardinality(Retries) + 1
    BY <1>2, RetriesAfterMove DEF Move, BudgetInv
  <2>3. eng.retries \in Nat
    BY MaxRetriesIsNat DEF BudgetInv, TypeOK, Engines
  <2>4. CASE m.op = "retry"
    <3>1. m.from \notin Done
      BY <2>4, MoveReview DEF Done
    <3>2. Cardinality(Retries) = eng.retries
      BY <2>1, <3>1 DEF BudgetInv
    <3>3. eng'.retries = eng.retries + 1
      BY <2>1, <2>4 DEF RetriesAfter
    <3> QED
      BY <1>0, <2>1, <2>2, <2>3, <2>4, <3>2, <3>3, MaxRetriesIsNat DEF BudgetInv
  <2>5. CASE m.op = "reconcile_manual_completion"
    <3>1. m.to \in Done
      BY <2>5, MoveReview DEF Done
    <3> QED
      BY <1>0, <2>1, <2>2, <2>5, <3>1 DEF BudgetInv
  <2>6. CASE m.op \notin {"retry", "reconcile_manual_completion"}
    <3>1. eng'.retries = eng.retries
      BY <2>1, <2>6 DEF RetriesAfter
    <3>2. m.from \in Done => m.to \in Done
      BY MoveForward DEF Done
    <3> QED
      BY <1>0, <2>1, <2>2, <2>6, <3>1, <3>2 DEF BudgetInv
  <2> QED
    BY <2>4, <2>5, <2>6
<1>3. ASSUME NEW m \in Moves, AuditRaises(m) PROVE BudgetInv'
  BY <1>0, <1>3 DEF AuditRaises, BudgetInv, Retries
<1>4. ASSUME NEW m \in SubMoves, WalkReview(m) PROVE BudgetInv'
  <2>1. eng'.state = eng.state /\ eng'.retries = eng.retries
    BY <1>4 DEF WalkReview, BudgetInv, TypeOK, Engines
  <2> QED
    BY <1>0, <1>4, <2>1 DEF WalkReview, BudgetInv, Retries
<1>5. CASE Save
  BY <1>0, <1>5 DEF Save, BudgetInv, Retries
<1>6. CASE Close
  BY <1>0, <1>6 DEF Close, BudgetInv, Retries
<1>7. CASE UNCHANGED vars
  BY <1>0, <1>7 DEF vars, BudgetInv, Retries
<1> QED
  BY <1>1, <1>2, <1>3, <1>4, <1>5, <1>6, <1>7 DEF Next

(* One engine never retries more often than max_retries.                   *)
THEOREM RetriesBounded == Spec => []RetryBudget
<1>1. Init => BudgetInv
  <2> SUFFICES ASSUME Init PROVE BudgetInv
    OBVIOUS
  <2>1. Retries = {}
    BY DEF Init, Retries
  <2> QED
    BY <2>1, InitType, FS_EmptySet, MaxRetriesIsNat DEF BudgetInv, Init
<1>2. BudgetInv => RetryBudget
  BY DEF BudgetInv, RetryBudget
<1> QED
  BY <1>1, <1>2, BudgetStep, PTL DEF Spec

(* An engine keeps its types, its sub-workflow, its entries and its budget *)
(* for every limit of retries.                                             *)
THEOREM EngineIsSound == Spec => []EngineSound
<1>1. TypeOK /\ SubStateMatches /\ TrailLinked /\ RetryBudget => EngineSound
  BY DEF EngineSound
<1> QED
  BY <1>1, TypeCorrect, ReviewScoped, TrailIsLinked, RetriesBounded, PTL

-----------------------------------------------------------------------------
(* The abstract lifecycle: the engine is never more than one abstract step *)
(* away from the row it was built from or last saved to.                   *)

Ahead == open => eng.state \in {row} \cup ManifestRow!Successors(row)

LEMMA MoveAhead ==
  ASSUME NEW s \in States, NEW m \in Moves,
         m.from \in {s} \cup ManifestRow!Successors(s)
  PROVE  m.to \in {s} \cup ManifestRow!Successors(s)
<1>1. m.to \in States /\ m.from \in States
  BY MoveTypes
<1>2. CASE s = "approved"
  BY <1>2, MoveForward DEF ManifestRow!Successors
<1>3. CASE s = "merged"
  BY <1>3, MoveForward DEF ManifestRow!Successors
<1>4. CASE s \in {"deployed", "cancelled"}
  BY <1>4, MoveForward DEF ManifestRow!Successors
<1>5. CASE s \notin {"approved", "merged", "deployed", "cancelled"}
  BY <1>1, <1>5, MoveForward DEF ManifestRow!Successors
<1> QED
  BY <1>2, <1>3, <1>4, <1>5

LEMMA AheadStep == TypeOK /\ Ahead /\ [Next]_vars => Ahead'
<1> SUFFICES ASSUME TypeOK, Ahead, [Next]_vars PROVE Ahead'
  OBVIOUS
<1>1. CASE Open
  BY <1>1 DEF Open, Build, Ahead
<1>2. ASSUME NEW m \in Moves, Move(m) PROVE Ahead'
  <2>1. eng.state = m.from /\ eng'.state = m.to /\ row' = row /\ open
    BY <1>2 DEF Move, Enabled, After
  <2> QED
    BY <2>1, MoveAhead DEF Ahead, TypeOK
<1>3. ASSUME NEW m \in Moves, AuditRaises(m) PROVE Ahead'
  BY <1>3 DEF AuditRaises, Ahead
<1>4. ASSUME NEW m \in SubMoves, WalkReview(m) PROVE Ahead'
  <2>1. eng'.state = eng.state
    BY <1>4 DEF WalkReview, TypeOK, Engines
  <2> QED
    BY <1>4, <2>1 DEF WalkReview, Ahead
<1>5. CASE Save
  BY <1>5 DEF Save, Ahead
<1>6. CASE Close
  BY <1>6 DEF Close, Ahead
<1>7. CASE UNCHANGED vars
  BY <1>7 DEF vars, Ahead
<1> QED
  BY <1>1, <1>2, <1>3, <1>4, <1>5, <1>6, <1>7 DEF Next

(* Whatever is called, refused, unaudited or lost, the stored state moves  *)
(* along the abstract lifecycle.                                           *)
THEOREM FollowsLifecycle == Spec => ImplementsLifecycle
<1>1. Init => Ahead /\ ManifestRow!Init
  BY DEF Init, Ahead, ManifestRow!Init
<1>2. Ahead /\ [Next]_vars => [ManifestRow!Next]_row
  <2> SUFFICES ASSUME Ahead, [Next]_vars, row' # row
               PROVE  row' \in ManifestRow!Successors(row)
    BY DEF ManifestRow!Next
  <2>1. Save
    BY DEF Next, Open, Move, AuditRaises, WalkReview, Close, vars
  <2> QED
    BY <2>1 DEF Save, Ahead
<1>3. Spec => []TypeOK
  BY TypeCorrect
<1> QED
  BY <1>1, <1>2, <1>3, AheadStep, PTL
  DEF Spec, ImplementsLifecycle, ManifestRow!Spec
=============================================================================
