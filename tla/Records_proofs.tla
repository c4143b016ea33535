--------------------------- MODULE Records_proofs ---------------------------
(***************************************************************************)
(* Proofs about the commands that share a manifest, and about the records  *)
(* and rules they go by: the rows of the manifests and the merge           *)
(* (ManifestLifecycle), the stored manifests and the ledger                *)
(* (ManifestRegistry), then gates, repairs, hidden checks and the vault.   *)
(***************************************************************************)
EXTENDS MCRecords, FiniteSetTheorems, SequenceTheorems, FunctionTheorems,
  IterationRules, TLAPS


-----------------------------------------------------------------------------
(* The transition table, and an engine over it.                            *)

LEMMA MoveShape ==
  ASSUME NEW m \in Moves
  PROVE  /\ m.from \in States /\ m.to \in States
         /\ m.to = "merged" <=> m.op = "approve_merge"
         /\ m.to = "approved" <=> m.op \in {"complete_review", "reconcile_manual_completion"}
         /\ m.to = "verifying" <=> m.op = "submit_for_verification"
         /\ m.to = "deployed" <=> m.op = "deploy"
         /\ m.to = "cancelled" <=> m.op = "cancel"
         /\ m.op = "approve_merge" => m.from = "approved"
BY DEF Moves, Transitions, ManualOverrides, Edge, States, NotReconcilable

LEMMA MoveChosen ==
  ASSUME NEW e, NEW op, CanMove(e, op)
  PROVE  /\ MoveOf(e, op) \in Moves /\ MoveOf(e, op).op = op
         /\ MoveOf(e, op).from = e.state
BY DEF CanMove, MoveOf, Enabled

\* no two moves of one name leave one state
LEMMA MoveAllowed ==
  ASSUME NEW e \in Engines, NEW op, CanMove(e, op)
  PROVE  After(e, MoveOf(e, op)) \in Engines
<1> DEFINE m == MoveOf(e, op)
<1>1. m \in Moves /\ m.op = op /\ m.from = e.state
  BY MoveChosen
<1>2. m.op = "retry" => e.retries < MaxRetries
  BY <1>1 DEF CanMove, Enabled
<1>3. m.to \in States
  BY <1>1, MoveShape
<1> HIDE DEF m
<1>4. SubAfter(e, m) \in SubStates \cup {NoSub}
  BY DEF SubAfter, Engines, SubStates
<1>5. RetriesAfter(e, m) \in 0..MaxRetries
  BY <1>2, MaxRetriesIsNat DEF RetriesAfter, Engines
<1>6. After(e, m) \in Engines
  BY <1>3, <1>4, <1>5 DEF After, Engines
<1> QED
  BY <1>6 DEF m

LEMMA BuildType ==
  ASSUME NEW s \in States
  PROVE  Build(s, NoSub) \in Engines /\ Build(s, NoSub).state = s
BY MaxRetriesIsNat DEF Build, Engines, SubStates, NoSub

-----------------------------------------------------------------------------
(* Type correctness.  TypeOK names the parts of the ledger; that it has no *)
(* others is needed to know what writing one of them leaves.               *)
Memories == [findings : BOOLEAN, packet : PacketKinds, choice : Decisions]

Typed ==
  /\ TypeOK
  /\ ledger \in [moves : SUBSET Moves, decided : SUBSET {"approve", "reject"},
                 merges : SUBSET {"allow", "block"}]

LEMMA NoMemType == NoMem \in Memories
BY DEF NoMem, Memories, PacketKinds, Decisions

LEMMA InitTyped == Init => Typed
<1> SUFFICES ASSUME Init PROVE Typed
  OBVIOUS
<1>1. "queued" \in States
  BY DEF States
<1>2. eng \in [Procs -> Engines]
  BY <1>1, BuildType DEF Init
<1>3. mem \in [Procs -> Memories]
  BY NoMemType DEF Init
<1>4. pc \in [Procs -> Labels] /\ cmd \in [Procs -> Commands \cup {"none"}]
  BY DEF Init, Labels
<1>5. ledger \in [moves : SUBSET Moves, decided : SUBSET {"approve", "reject"},
                  merges : SUBSET {"allow", "block"}]
  BY DEF Init
<1>6. /\ row \in States /\ packet \in PacketKinds /\ findings \in BOOLEAN
      /\ approval \in Decisions /\ last \in [choice : Decisions, reviewed : BOOLEAN]
  BY <1>1 DEF Init, PacketKinds, Decisions
<1>8. commands \in 0..MaxCommands
  BY CommandsAreKnown DEF Init
<1>7. gated \in BOOLEAN
  BY Zenon DEF Init
<1> QED
  BY <1>2, <1>3, <1>4, <1>5, <1>6, <1>7, <1>8 DEF Typed, TypeOK, Memories

(* Leaving keeps the types of what a command holds.                        *)
LEMMA LeaveTyped ==
  ASSUME Typed, NEW p \in Procs, Leave(p)
  PROVE  /\ pc' \in [Procs -> Labels] /\ cmd' \in [Procs -> Commands \cup {"none"}]
         /\ eng' \in [Procs -> Engines] /\ mem' \in [Procs -> Memories]
<1>1. Build("queued", NoSub) \in Engines
  BY BuildType DEF States
<1> QED
  BY <1>1, NoMemType DEF Leave, Typed, TypeOK, Labels, Memories

LEMMA CallTyped ==
  ASSUME Typed, NEW p \in Procs, NEW from, NEW op, NEW to \in Labels, Call(p, from, op, to)
  PROVE  Typed'
<1> DEFINE m == MoveOf(eng[p], op)
<1>1. eng[p] \in Engines /\ CanMove(eng[p], op)
  BY DEF Typed, TypeOK, Call, EngineMoves
<1>2. m \in Moves /\ After(eng[p], m) \in Engines
  BY <1>1, MoveChosen, MoveAllowed
<1> HIDE DEF m
<1>3. /\ eng' = [eng EXCEPT ![p] = After(eng[p], m)]
      /\ ledger' = [ledger EXCEPT !.moves = @ \cup {m}]
      /\ pc' = [pc EXCEPT ![p] = to]
      /\ UNCHANGED <<row, gated, packet, findings, approval, last, commands, mem, cmd>>
  BY DEF Call, EngineMoves, GoTo, m
<1>4. eng' \in [Procs -> Engines] /\ pc' \in [Procs -> Labels]
  BY <1>2, <1>3 DEF Typed, TypeOK
<1>5. ledger' \in [moves : SUBSET Moves, decided : SUBSET {"approve", "reject"},
                   merges : SUBSET {"allow", "block"}]
  BY <1>2, <1>3 DEF Typed
<1> QED
  BY <1>3, <1>4, <1>5 DEF Typed, TypeOK

-----------------------------------------------------------------------------
(* The inductive invariant.  MergeEarned speaks of the ledger only; that   *)
(* the next step keeps it depends on what each command has behind it where *)
(* it stands, which the parts below say, command by command.               *)

Entered(s) ==
  s \in {"queued", "in_flight"} \/ \E m \in ledger.moves : m.to = s

HandoffLabels == {"h_start", "h_started", "h_submit", "h_submitted"}

ApproveLabels == {"a_load", "a_evidence", "a_confirm", "a_record",
                  "a_complete", "a_approved"}

DecidedLabels == {"a_complete", "a_approved", "validate", "merging",
                  "b_walk", "b_complete", "b_approved"}

\* what an engine holds was audited when it was entered; only the command
\* that verifies holds one that is verifying
EngineAudited(p) ==
  /\ Entered(eng[p].state)
  /\ eng[p].state = "verifying" => pc[p] = "x_verify"
  /\ mem[p].findings => findings

CommandMatches(p) ==
  /\ pc[p] \in ApproveLabels => cmd[p] = "approve"
  /\ pc[p] \in HandoffLabels => cmd[p] \in {"approve", "review"}

Deciding(p) ==
  \/ pc[p] \in {"a_record", "b_record"}
  \/ pc[p] \in HandoffLabels /\ cmd[p] = "approve"

DecisionTaken(p) ==
  /\ Deciding(p) => mem[p].choice \in {"approve", "reject"}
  /\ pc[p] \in DecidedLabels => "approve" \in ledger.decided
  /\ pc[p] = "b_approved" \/ (cmd[p] = "run" /\ pc[p] = "validate")
       => Moved("complete_review")
  /\ pc[p] = "merging" => /\ "allow" \in ledger.merges
                          /\ findings \/ Moved("complete_review")

Local(p) == EngineAudited(p) /\ CommandMatches(p) /\ DecisionTaken(p)

MergesEarned ==
  Moved("approve_merge") =>
    /\ "approve" \in ledger.decided
    /\ "allow" \in ledger.merges
    /\ findings \/ Moved("complete_review")
    /\ Moved("complete_review") \/ Moved("reconcile_manual_completion")

Global ==
  /\ Entered(row) /\ row # "verifying"
  /\ \A m \in ledger.moves : m.op \notin {"deploy", "cancel"}
  /\ MergesEarned

IInv == Typed /\ Global /\ \A p \in Procs : Local(p)

-----------------------------------------------------------------------------
(* What a step of one process leaves to the others.                        *)

Grows ==
  /\ ledger.moves \subseteq ledger'.moves
  /\ ledger.decided \subseteq ledger'.decided
  /\ ledger.merges \subseteq ledger'.merges
  /\ findings => findings'

Alone(p) ==
  \A q \in Procs \ {p} :
    pc'[q] = pc[q] /\ cmd'[q] = cmd[q] /\ eng'[q] = eng[q] /\ mem'[q] = mem[q]

Keeps(p) == Typed' /\ Global' /\ Local(p)' /\ Grows /\ Alone(p)

LEMMA OthersKept ==
  ASSUME NEW q \in Procs, Local(q), Grows,
         pc'[q] = pc[q], cmd'[q] = cmd[q], eng'[q] = eng[q], mem'[q] = mem[q]
  PROVE  Local(q)'
<1>1. EngineAudited(q)'
  BY DEF Local, EngineAudited, Entered, Grows
<1>2. CommandMatches(q)'
  BY DEF Local, CommandMatches
<1>3. \A op : Moved(op) => Moved(op)'
  BY DEF Moved, Grows
<1>4. DecisionTaken(q)'
  BY <1>3 DEF Local, DecisionTaken, Deciding, Grows
<1> QED
  BY <1>1, <1>2, <1>4 DEF Local

LEMMA StepKeeps ==
  ASSUME IInv, NEW p \in Procs, Keeps(p)
  PROVE  IInv'
<1>1. ASSUME NEW q \in Procs
      PROVE  Local(q)'
  <2>1. CASE q = p
    BY <2>1 DEF Keeps
  <2>2. CASE q # p
    BY <2>2, OthersKept DEF IInv, Keeps, Alone
  <2> QED
    BY <2>1, <2>2
<1> QED
  BY <1>1 DEF Keeps, IInv

-----------------------------------------------------------------------------
(* The families of steps.                                                  *)

LEMMA GlobalSame ==
  ASSUME Global, UNCHANGED <<row, ledger, findings>>
  PROVE  Global'
BY DEF Global, Entered, MergesEarned, Moved

LEMMA LeaveLocal ==
  ASSUME Typed, NEW p \in Procs, Leave(p)
  PROVE  Local(p)' /\ Alone(p)
<1>1. /\ pc'[p] = "idle" /\ cmd'[p] = "none"
      /\ eng'[p] = Build("queued", NoSub) /\ mem'[p] = NoMem
  BY DEF Leave, Typed, TypeOK
<1>2. Alone(p)
  BY DEF Leave, Typed, TypeOK, Alone
<1>3. EngineAudited(p)'
  BY <1>1, BuildType DEF EngineAudited, Entered, States, NoMem
<1>4. CommandMatches(p)' /\ DecisionTaken(p)'
  BY <1>1 DEF CommandMatches, DecisionTaken, Deciding, ApproveLabels,
     HandoffLabels, DecidedLabels
<1> QED
  BY <1>2, <1>3, <1>4 DEF Local

LEMMA QuitsKeeps ==
  ASSUME IInv, NEW p \in Procs, Quits(p)
  PROVE  Keeps(p)
<1>1. Leave(p) /\ UNCHANGED <<row, gated, packet, findings, approval, ledger, last, commands>>
  BY DEF Quits, shared
<1>2. Typed /\ Global
  BY DEF IInv
<1>3. Typed'
  BY <1>1, <1>2, LeaveTyped DEF Typed, TypeOK, Memories
<1>4. Global'
  BY <1>1, <1>2, GlobalSame
<1>5. Grows
  BY <1>1 DEF Grows
<1> QED
  BY <1>1, <1>2, <1>3, <1>4, <1>5, LeaveLocal DEF Keeps

(* The calls of engine methods: from where, which method, and to where.    *)
Calls ==
  { <<"x_start", "start", "x_started">>,
    <<"x_agent", "fail", "x_ended">>,
    <<"x_agent", "submit_for_verification", "x_verify">>,
    <<"x_verify", "verification_passed", "x_ended">>,
    <<"x_verify", "verification_failed", "x_unverified">>,
    <<"x_retry", "retry", "x_retried">>,
    <<"h_start", "start", "h_started">>,
    <<"h_submit", "submit_for_review", "h_submitted">>,
    <<"a_complete", "complete_review", "a_approved">>,
    <<"merging", "approve_merge", "merged">>,
    <<"rejecting", "reject", "rejected">>,
    <<"c_move", "reconcile_manual_completion", "c_saved">>,
    <<"b_complete", "complete_review", "b_approved">> }

\* none verifies but execute, none deploys or cancels, and a review is
\* completed only where an approval is behind
LEMMA CallShape ==
  ASSUME NEW from, NEW op, NEW to, <<from, op, to>> \in Calls
  PROVE  /\ to \in Labels
         /\ op \notin {"deploy", "cancel"}
         /\ op = "submit_for_verification" => to = "x_verify"
         /\ op = "approve_merge" => from = "merging"
         /\ to \in ApproveLabels => from \in ApproveLabels
         /\ to \in HandoffLabels => from \in HandoffLabels
         /\ to \notin {"a_record", "b_record", "validate", "merging"}
         /\ to \in DecidedLabels => from \in DecidedLabels
         /\ to = "b_approved" => op = "complete_review"
BY DEF Calls, Labels, SaveLabels, ApproveLabels, HandoffLabels, DecidedLabels

LEMMA CallKeeps ==
  ASSUME IInv, NEW p \in Procs, NEW from, NEW op, NEW to,
         <<from, op, to>> \in Calls, Call(p, from, op, to)
  PROVE  Keeps(p)
<1> DEFINE m == MoveOf(eng[p], op)
<1>1. Typed /\ Global /\ Local(p)
  BY DEF IInv
<1>2. eng[p] \in Engines /\ CanMove(eng[p], op)
  BY <1>1 DEF Typed, TypeOK, Call, EngineMoves
<1>3. m \in Moves /\ m.op = op /\ m.from = eng[p].state
  BY <1>2, MoveChosen
<1>4. /\ m.to = "verifying" => op = "submit_for_verification"
      /\ op = "approve_merge" => m.from = "approved"
  BY <1>3, MoveShape
<1> HIDE DEF m
<1>5. /\ pc[p] = from
      /\ eng' = [eng EXCEPT ![p] = After(eng[p], m)]
      /\ ledger' = [ledger EXCEPT !.moves = @ \cup {m}]
      /\ pc' = [pc EXCEPT ![p] = to]
      /\ UNCHANGED <<row, gated, packet, findings, approval, last, commands, mem, cmd>>
  BY DEF Call, EngineMoves, GoTo, m
<1>6. /\ ledger'.moves = ledger.moves \cup {m}
      /\ ledger'.decided = ledger.decided /\ ledger'.merges = ledger.merges
  BY <1>1, <1>5 DEF Typed
<1>7. /\ pc'[p] = to /\ cmd'[p] = cmd[p] /\ mem'[p] = mem[p]
      /\ eng'[p].state = m.to
  BY <1>1, <1>5 DEF Typed, TypeOK, After
<1>8. Grows
  BY <1>5, <1>6 DEF Grows
<1>9. Alone(p)
  BY <1>1, <1>5 DEF Alone, Typed, TypeOK
<1>10. \A o : Moved(o)' <=> Moved(o) \/ o = op
  BY <1>3, <1>6 DEF Moved
<1>11. Typed'
  BY <1>1, CallShape, CallTyped
<1>12. EngineAudited(p)'
  BY <1>1, <1>4, <1>5, <1>6, <1>7, CallShape DEF Local, EngineAudited, Entered
<1>13. CommandMatches(p)'
  BY <1>1, <1>5, <1>7, CallShape DEF Local, CommandMatches
<1>14. DecisionTaken(p)'
  <2>1. Deciding(p)' => Deciding(p) /\ mem'[p] = mem[p]
    BY <1>5, <1>7, CallShape DEF Deciding
  <2>2. pc'[p] # "validate" /\ pc'[p] # "merging"
    BY <1>7, CallShape
  <2>3. pc'[p] = "b_approved" => Moved("complete_review")'
    BY <1>7, <1>10, CallShape
  <2>4. pc'[p] \in DecidedLabels => "approve" \in ledger'.decided
    BY <1>1, <1>5, <1>6, <1>7, CallShape DEF Local, DecisionTaken
  <2> QED
    BY <1>1, <2>1, <2>2, <2>3, <2>4 DEF Local, DecisionTaken
<1>15. MergesEarned'
  <2>1. CASE Moved("approve_merge")
    BY <2>1, <1>1, <1>5, <1>6, <1>10 DEF Global, MergesEarned
  <2>2. CASE op = "approve_merge"
    <3>1. pc[p] = "merging"
      BY <2>2, <1>5, CallShape
    <3>2. /\ "approve" \in ledger.decided /\ "allow" \in ledger.merges
          /\ findings \/ Moved("complete_review")
      BY <1>1, <3>1 DEF Local, DecisionTaken, DecidedLabels
    <3>3. \E n \in ledger.moves : n.to = "approved"
      BY <2>2, <1>1, <1>3, <1>4 DEF Local, EngineAudited, Entered
    <3>4. Moved("complete_review") \/ Moved("reconcile_manual_completion")
      BY <3>3, <1>1, MoveShape DEF Moved, Typed
    <3> QED
      BY <3>2, <3>4, <1>5, <1>6, <1>10 DEF MergesEarned
  <2> QED
    BY <2>1, <2>2, <1>10 DEF MergesEarned
<1>16. Global'
  BY <1>1, <1>3, <1>5, <1>6, <1>15, CallShape DEF Global, Entered
<1> QED
  BY <1>8, <1>9, <1>11, <1>12, <1>13, <1>14, <1>16 DEF Keeps, Local

-----------------------------------------------------------------------------
(* The steps one by one: first those that write neither the row nor the    *)
(* ledger.                                                                 *)

LEMMA QuietKeeps ==
  ASSUME IInv, NEW p \in Procs, UNCHANGED <<row, ledger>>, findings => findings',
         Typed', Local(p)', Alone(p)
  PROVE  Keeps(p)
<1>1. Global'
  BY DEF IInv, Global, Entered, MergesEarned, Moved
<1> QED
  BY <1>1 DEF Keeps, Grows

LEMMA BeginTyped ==
  ASSUME Typed, NEW p \in Procs, NEW command, NEW label \in Labels,
         Begin(p, command, label)
  PROVE  /\ pc' \in [Procs -> Labels] /\ cmd' \in [Procs -> Commands \cup {"none"}]
         /\ commands' \in 0..MaxCommands
         /\ pc'[p] = label /\ cmd'[p] = command
<1>1. commands' \in 0..MaxCommands
  BY CommandsAreKnown DEF Begin, Typed, TypeOK
<1> QED
  BY <1>1 DEF Begin, Typed, TypeOK

\* an engine is built over the stored row
LEMMA ReadTyped ==
  ASSUME Typed, NEW p \in Procs, ReadManifest(p)
  PROVE  /\ eng' \in [Procs -> Engines] /\ eng'[p].state = row
         /\ eng'[p] = Build(row, NoSub)
BY BuildType DEF ReadManifest, Typed, TypeOK

LEMMA ReadingKeeps ==
  ASSUME IInv, NEW p \in Procs, NEW command, NEW label,
         Begin(p, command, label), ReadManifest(p), UNCHANGED <<shared, mem>>,
         \/ command = "execute" /\ label \in {"x_start", "x_agent"}
         \/ command = "review" /\ label \in {"h_start", "h_submit", "r_dispatch"}
  PROVE  Keeps(p)
<1>1. Typed /\ Global /\ Local(p)
  BY DEF IInv
<1>2. UNCHANGED <<row, gated, packet, findings, approval, ledger, last>>
  BY DEF shared
<1>3. label \in Labels
  BY DEF Labels
<1>4. /\ pc' \in [Procs -> Labels] /\ cmd' \in [Procs -> Commands \cup {"none"}]
      /\ commands' \in 0..MaxCommands
      /\ pc'[p] = label /\ cmd'[p] = command
  BY <1>1, <1>3, BeginTyped
<1>5. eng' \in [Procs -> Engines] /\ eng'[p].state = row
  BY <1>1, ReadTyped
<1>6. Typed'
  BY <1>1, <1>2, <1>4, <1>5 DEF Typed, TypeOK
<1>7. Alone(p)
  BY <1>1 DEF Begin, ReadManifest, Alone, Typed, TypeOK
<1>8. EngineAudited(p)'
  BY <1>1, <1>2, <1>5 DEF Global, Local, EngineAudited, Entered
<1>9. CommandMatches(p)' /\ DecisionTaken(p)'
  BY <1>4 DEF CommandMatches, DecisionTaken, Deciding, ApproveLabels,
     HandoffLabels, DecidedLabels
<1>10. Local(p)'
  BY <1>8, <1>9 DEF Local
<1> QED
  BY <1>2, <1>6, <1>7, <1>10, QuietKeeps

LEMMA ExecuteKeeps ==
  ASSUME IInv, NEW p \in Procs, Execute(p)
  PROVE  Keeps(p)
<1> DEFINE label == IF row = "queued" THEN "x_start" ELSE "x_agent"
<1>1. /\ Begin(p, "execute", label) /\ ReadManifest(p) /\ UNCHANGED <<shared, mem>>
      /\ label \in {"x_start", "x_agent"}
  BY DEF Execute
<1> HIDE DEF label
<1> QED
  BY <1>1, ReadingKeeps

LEMMA ReviewKeeps ==
  ASSUME IInv, NEW p \in Procs, Review(p)
  PROVE  Keeps(p)
<1> DEFINE label == CASE row = "queued"       -> "h_start"
                      [] row = "in_flight"    -> "h_submit"
                      [] row = "under_review" -> "r_dispatch"
<1>1. /\ Begin(p, "review", label) /\ ReadManifest(p) /\ UNCHANGED <<shared, mem>>
      /\ row \in {"queued", "in_flight", "under_review"}
  BY DEF Review
<1>2. label \in {"h_start", "h_submit", "r_dispatch"}
  BY <1>1
<1> HIDE DEF label
<1> QED
  BY <1>1, <1>2, ReadingKeeps

\* commands that begin without reading the manifest
LEMMA BeginningKeeps ==
  ASSUME IInv, NEW p \in Procs, NEW command, NEW label,
         Begin(p, command, label), UNCHANGED <<shared, eng>>,
         \/ /\ command = "approve" /\ label = "a_load"
            /\ mem' = [mem EXCEPT ![p].findings = findings]
         \/ command = "complete" /\ label = "c_evidence" /\ mem' = mem
         \/ command = "run" /\ label = "b_launch" /\ mem' = mem
  PROVE  Keeps(p)
<1>1. Typed /\ Global /\ Local(p)
  BY DEF IInv
<1>2. UNCHANGED <<row, gated, packet, findings, approval, ledger, last>>
  BY DEF shared
<1>3. label \in Labels
  BY DEF Labels
<1>4. /\ pc' \in [Procs -> Labels] /\ cmd' \in [Procs -> Commands \cup {"none"}]
      /\ commands' \in 0..MaxCommands
      /\ pc'[p] = label /\ cmd'[p] = command
  BY <1>1, <1>3, BeginTyped
<1>5. mem \in [Procs -> Memories] /\ findings \in BOOLEAN
  BY <1>1 DEF Typed, TypeOK, Memories
<1>6. /\ mem' \in [Procs -> Memories]
      /\ mem'[p].findings => findings
      /\ \A q \in Procs \ {p} : mem'[q] = mem[q]
  BY <1>1, <1>5 DEF Memories, Local, EngineAudited
<1>7. Typed'
  BY <1>1, <1>2, <1>4, <1>6 DEF Typed, TypeOK, Memories
<1>8. Alone(p)
  BY <1>1, <1>6 DEF Begin, Alone, Typed, TypeOK
<1>9. pc[p] = "idle"
  BY DEF Begin
<1>10. EngineAudited(p)'
  BY <1>1, <1>2, <1>6, <1>9 DEF Local, EngineAudited, Entered
<1>11. CommandMatches(p)' /\ DecisionTaken(p)'
  BY <1>4 DEF CommandMatches, DecisionTaken, Deciding, ApproveLabels,
     HandoffLabels, DecidedLabels
<1>12. Local(p)'
  BY <1>10, <1>11 DEF Local
<1> QED
  BY <1>2, <1>7, <1>8, <1>12, QuietKeeps

LEMMA StartKeeps ==
  ASSUME IInv, NEW p \in Procs, Start(p)
  PROVE  Keeps(p)
<1>1. CASE Execute(p)
  BY <1>1, ExecuteKeeps
<1>2. CASE Review(p)
  BY <1>2, ReviewKeeps
<1>3. CASE Approve(p)
  BY <1>3, BeginningKeeps DEF Approve
<1>4. CASE Complete(p)
  BY <1>4, BeginningKeeps DEF Complete
<1>5. CASE Run(p)
  BY <1>5, BeginningKeeps DEF Run
<1> QED
  BY <1>1, <1>2, <1>3, <1>4, <1>5 DEF Start

-----------------------------------------------------------------------------
(* The save, and the steps of execute and review.                          *)

LEMMA ContinuationShape ==
  ASSUME NEW p \in Procs, pc[p] \in SaveLabels \ LastSaves
  PROVE  /\ Continuation(p) \in {"x_agent", "x_retry", "h_submit", "r_dispatch",
                                 "a_record", "b_confirm", "validate", "c_record"}
         /\ Continuation(p) = "h_submit" => pc[p] = "h_started"
         /\ Continuation(p) = "a_record" => pc[p] = "h_submitted" /\ cmd[p] # "review"
         /\ Continuation(p) = "validate" => pc[p] \in {"a_approved", "b_approved"}
BY DEF Continuation, SaveLabels, LastSaves

LEMMA SaveKeeps ==
  ASSUME IInv, NEW p \in Procs, SaveManifest(p)
  PROVE  Keeps(p)
<1>1. Typed /\ Global /\ Local(p)
  BY DEF IInv
<1>2. /\ pc[p] \in SaveLabels /\ row' = eng[p].state
      /\ UNCHANGED <<gated, packet, findings, approval, ledger, last, commands>>
  BY DEF SaveManifest
<1>3. eng[p].state \in States /\ eng[p].state # "verifying" /\ Entered(eng[p].state)
  BY <1>1, <1>2 DEF Typed, TypeOK, Engines, Local, EngineAudited, SaveLabels
<1>4. Global'
  BY <1>1, <1>2, <1>3 DEF Global, Entered, MergesEarned, Moved
<1>5. Grows
  BY <1>2 DEF Grows
<1>6. CASE pc[p] \in LastSaves
  <2>1. Leave(p)
    BY <1>6 DEF SaveManifest
  <2>2. Typed'
    BY <2>1, <1>1, <1>2, <1>3, LeaveTyped DEF Typed, TypeOK, Memories
  <2> QED
    BY <2>1, <2>2, <1>1, <1>4, <1>5, LeaveLocal DEF Keeps
<1>7. CASE pc[p] \notin LastSaves
  <2> DEFINE to == Continuation(p)
  <2>1. pc' = [pc EXCEPT ![p] = to] /\ UNCHANGED <<cmd, eng, mem>>
    BY <1>7 DEF SaveManifest, GoTo
  <2>2. /\ to \in {"x_agent", "x_retry", "h_submit", "r_dispatch",
                   "a_record", "b_confirm", "validate", "c_record"}
        /\ to = "h_submit" => pc[p] = "h_started"
        /\ to = "a_record" => pc[p] = "h_submitted" /\ cmd[p] # "review"
        /\ to = "validate" => pc[p] \in {"a_approved", "b_approved"}
    BY <1>2, <1>7, ContinuationShape
  <2> HIDE DEF to
  <2>3. to \in Labels
    BY <2>2 DEF Labels, SaveLabels
  <2>4. pc' \in [Procs -> Labels] /\ pc'[p] = to
    BY <2>1, <2>3, <1>1 DEF Typed, TypeOK
  <2>5. Typed'
    BY <2>1, <2>4, <1>1, <1>2, <1>3 DEF Typed, TypeOK
  <2>6. Alone(p)
    BY <2>1, <1>1 DEF Alone, Typed, TypeOK
  <2>7. EngineAudited(p)'
    BY <2>1, <1>1, <1>2, <1>3 DEF Local, EngineAudited, Entered
  <2>8. CommandMatches(p)'
    BY <2>1, <2>2, <2>4, <1>1 DEF Local, CommandMatches, ApproveLabels, HandoffLabels
  <2>9. Deciding(p)' => Deciding(p)
    BY <2>1, <2>2, <2>4, <1>1 DEF Local, CommandMatches, Deciding, HandoffLabels
  <2>10. /\ pc'[p] \in DecidedLabels => pc[p] \in DecidedLabels
         /\ pc'[p] # "b_approved" /\ pc'[p] # "merging"
         /\ cmd[p] = "run" /\ pc'[p] = "validate" => pc[p] = "b_approved"
    BY <2>2, <2>4, <1>1 DEF DecidedLabels, Local, CommandMatches, ApproveLabels
  <2>11. DecisionTaken(p)'
    <3>1. Deciding(p)' => mem'[p].choice \in {"approve", "reject"}
      BY <2>1, <2>9, <1>1 DEF Local, DecisionTaken
    <3>2. pc'[p] \in DecidedLabels => "approve" \in ledger'.decided
      BY <2>10, <1>1, <1>2 DEF Local, DecisionTaken
    <3>3. cmd'[p] = "run" /\ pc'[p] = "validate" => Moved("complete_review")'
      BY <2>1, <2>10, <1>1, <1>2 DEF Local, DecisionTaken, Moved
    <3> QED
      BY <2>10, <3>1, <3>2, <3>3 DEF DecisionTaken
  <2> QED
    BY <2>5, <2>6, <2>7, <2>8, <2>11, <1>4, <1>5 DEF Keeps, Local
<1> QED
  BY <1>6, <1>7

LEMMA ExecuteStepKeeps ==
  ASSUME IInv, NEW p \in Procs, ExecuteStep(p)
  PROVE  Keeps(p)
<1>1. CASE ExecuteStart(p)
  BY <1>1, CallKeeps DEF ExecuteStart, Calls
<1>2. CASE AgentFails(p)
  BY <1>2, CallKeeps DEF AgentFails, Calls
<1>3. CASE AgentSucceeds(p)
  BY <1>3, QuitsKeeps DEF AgentSucceeds
<1>4. CASE AgentClaims(p)
  BY <1>4, CallKeeps DEF AgentClaims, Calls
<1>5. CASE VerificationPasses(p)
  BY <1>5, CallKeeps DEF VerificationPasses, Calls
<1>6. CASE VerificationFails(p)
  BY <1>6, CallKeeps DEF VerificationFails, Calls
<1>7. CASE VerificationRaises(p)
  BY <1>7, QuitsKeeps DEF VerificationRaises
<1>8. CASE AutoRepairs(p)
  BY <1>8, CallKeeps DEF AutoRepairs, Calls
<1>9. CASE GivesUp(p)
  BY <1>9, QuitsKeeps DEF GivesUp
<1> QED
  BY <1>1, <1>2, <1>3, <1>4, <1>5, <1>6, <1>7, <1>8, <1>9 DEF ExecuteStep

LEMMA ReviewStepKeeps ==
  ASSUME IInv, NEW p \in Procs, ReviewStep(p)
  PROVE  Keeps(p)
<1>1. CASE HandoffStart(p)
  BY <1>1, CallKeeps DEF HandoffStart, Calls
<1>2. CASE HandoffSubmit(p)
  BY <1>2, CallKeeps DEF HandoffSubmit, Calls
<1>3. CASE Dispatch(p)
  <2>1. /\ Leave(p) /\ findings' \in {findings, TRUE}
        /\ UNCHANGED <<row, gated, packet, approval, ledger, last, commands>>
    BY <1>3 DEF Dispatch
  <2>2. Typed
    BY DEF IInv
  <2>3. Typed'
    BY <2>1, <2>2, LeaveTyped DEF Typed, TypeOK, Memories
  <2>4. findings => findings'
    BY <2>1, Zenon
  <2>5. Local(p)' /\ Alone(p)
    BY <2>1, <2>2, LeaveLocal
  <2> QED
    BY <2>1, <2>3, <2>4, <2>5, QuietKeeps
<1> QED
  BY <1>1, <1>2, <1>3 DEF ReviewStep

-----------------------------------------------------------------------------
(* Steps that move one command on and write nothing the invariant reads.   *)

LEMMA GoesTyped ==
  ASSUME Typed, NEW p \in Procs, NEW label \in Labels, GoTo(p, label)
  PROVE  /\ pc' \in [Procs -> Labels] /\ cmd' \in [Procs -> Commands \cup {"none"}]
         /\ pc'[p] = label /\ cmd'[p] = cmd[p]
         /\ \A q \in Procs \ {p} : pc'[q] = pc[q] /\ cmd'[q] = cmd[q]
BY DEF GoTo, Typed, TypeOK

LEMMA GoingKeeps ==
  ASSUME IInv, NEW p \in Procs, NEW label \in Labels, GoTo(p, label),
         UNCHANGED <<row, gated, findings, ledger, last, commands>>,
         packet' \in PacketKinds, approval' \in Decisions,
         eng' \in [Procs -> Engines], mem' \in [Procs -> Memories],
         \A q \in Procs \ {p} : eng'[q] = eng[q] /\ mem'[q] = mem[q],
         Entered(eng'[p].state), eng'[p].state # "verifying",
         mem'[p].findings => findings,
         label \in ApproveLabels \cup HandoffLabels => cmd[p] = "approve",
         label \in {"a_record", "b_record"} \cup HandoffLabels
           => mem'[p].choice \in {"approve", "reject"},
         label \in DecidedLabels => pc[p] \in DecidedLabels,
         label \notin {"validate", "merging", "b_approved"}
  PROVE  Keeps(p)
<1>1. Typed /\ Global /\ Local(p)
  BY DEF IInv
<1>2. /\ pc' \in [Procs -> Labels] /\ cmd' \in [Procs -> Commands \cup {"none"}]
      /\ pc'[p] = label /\ cmd'[p] = cmd[p]
      /\ \A q \in Procs \ {p} : pc'[q] = pc[q] /\ cmd'[q] = cmd[q]
  BY <1>1, GoesTyped
<1>3. Typed'
  BY <1>1, <1>2 DEF Typed, TypeOK, Memories
<1>4. Alone(p)
  BY <1>2 DEF Alone
<1>5. EngineAudited(p)'
  BY DEF EngineAudited, Entered
<1>6. CommandMatches(p)'
  BY <1>2 DEF CommandMatches
<1>7. DecisionTaken(p)'
  BY <1>1, <1>2 DEF Local, DecisionTaken, Deciding
<1>8. Local(p)'
  BY <1>5, <1>6, <1>7 DEF Local
<1>9. findings => findings'
  OBVIOUS
<1> QED
  BY <1>3, <1>4, <1>8, <1>9, QuietKeeps

\* what a command holds that does not verify
LEMMA HeldSound ==
  ASSUME IInv, NEW p \in Procs, pc[p] # "x_verify"
  PROVE  /\ Entered(eng[p].state) /\ eng[p].state # "verifying"
         /\ mem[p].findings => findings
         /\ eng \in [Procs -> Engines] /\ mem \in [Procs -> Memories]
         /\ packet \in PacketKinds /\ approval \in Decisions
BY DEF IInv, Local, EngineAudited, Typed, TypeOK, Memories

LEMMA LoadKeeps ==
  ASSUME IInv, NEW p \in Procs, NEW label, pc[p] # "x_verify",
         ReadManifest(p), GoTo(p, label), UNCHANGED <<mem, shared, commands>>,
         \/ label = "a_evidence" /\ cmd[p] = "approve"
         \/ label = "c_move"
  PROVE  Keeps(p)
<1>1. Typed /\ Global
  BY DEF IInv
<1>2. eng' \in [Procs -> Engines] /\ eng'[p].state = row
  BY <1>1, ReadTyped
<1>3. \A q \in Procs \ {p} : eng'[q] = eng[q]
  BY <1>1 DEF ReadManifest, Typed, TypeOK
<1>4. Entered(eng'[p].state) /\ eng'[p].state # "verifying"
  BY <1>1, <1>2 DEF Global
<1>5. label \in Labels /\ label \notin HandoffLabels /\ label \notin DecidedLabels
  BY DEF Labels, HandoffLabels, DecidedLabels
<1>6. label \in ApproveLabels => cmd[p] = "approve"
  BY DEF ApproveLabels
<1>7. UNCHANGED <<row, gated, packet, findings, approval, ledger, last, commands, mem>>
  BY DEF shared
<1>8. /\ mem[p].findings => findings
      /\ packet' \in PacketKinds /\ approval' \in Decisions /\ mem' \in [Procs -> Memories]
      /\ mem'[p] = mem[p] /\ \A q \in Procs \ {p} : mem'[q] = mem[q]
  BY <1>7, HeldSound
<1>9. label \notin {"a_record", "b_record", "validate", "merging", "b_approved"}
  OBVIOUS
<1> QED
  BY <1>2, <1>3, <1>4, <1>5, <1>6, <1>7, <1>8, <1>9, GoingKeeps

LEMMA ApproveLoadKeeps ==
  ASSUME IInv, NEW p \in Procs, ApproveLoad(p)
  PROVE  Keeps(p)
<1>1. pc[p] = "a_load" /\ UNCHANGED <<shared, commands>>
  BY DEF ApproveLoad
<1>2. cmd[p] = "approve"
  BY <1>1 DEF IInv, Local, CommandMatches, ApproveLabels
<1>3. CASE Leave(p)
  BY <1>1, <1>3, QuitsKeeps DEF Quits
<1>4. CASE ReadManifest(p) /\ GoTo(p, "a_evidence") /\ UNCHANGED mem
  BY <1>1, <1>2, <1>4, LoadKeeps
<1> QED
  BY <1>3, <1>4 DEF ApproveLoad

LEMMA CompleteLoadKeeps ==
  ASSUME IInv, NEW p \in Procs, CompleteLoad(p)
  PROVE  Keeps(p)
<1>1. pc[p] = "c_load" /\ UNCHANGED <<shared, commands>>
  BY DEF CompleteLoad
<1>2. CASE Leave(p)
  BY <1>1, <1>2, QuitsKeeps DEF Quits
<1>3. CASE ReadManifest(p) /\ GoTo(p, "c_move") /\ UNCHANGED mem
  BY <1>1, <1>3, LoadKeeps
<1> QED
  BY <1>2, <1>3 DEF CompleteLoad

\* reading the packet or taking a decision changes one field of the memory
LEMMA MemoryTyped ==
  ASSUME Typed, NEW p \in Procs, NEW v
  PROVE  /\ v \in PacketKinds /\ mem' = [mem EXCEPT ![p].packet = v]
              => /\ mem' \in [Procs -> Memories]
                 /\ mem'[p].findings = mem[p].findings
                 /\ \A q \in Procs \ {p} : mem'[q] = mem[q]
         /\ v \in Decisions /\ mem' = [mem EXCEPT ![p].choice = v]
              => /\ mem' \in [Procs -> Memories]
                 /\ mem'[p].findings = mem[p].findings /\ mem'[p].choice = v
                 /\ \A q \in Procs \ {p} : mem'[q] = mem[q]
BY DEF Typed, TypeOK, Memories

LEMMA ApproveEvidenceKeeps ==
  ASSUME IInv, NEW p \in Procs, ApproveEvidence(p)
  PROVE  Keeps(p)
<1>1. PICK read \in {packet, "none"} : mem' = [mem EXCEPT ![p].packet = read]
  BY DEF ApproveEvidence
<1>2. /\ pc[p] = "a_evidence" /\ GoTo(p, "a_confirm")
      /\ UNCHANGED <<row, gated, packet, findings, approval, ledger, last, commands, eng>>
  BY DEF ApproveEvidence, shared
<1>3. /\ Entered(eng[p].state) /\ eng[p].state # "verifying"
      /\ mem[p].findings => findings
      /\ eng \in [Procs -> Engines]
      /\ packet \in PacketKinds /\ approval \in Decisions
  BY <1>2, HeldSound
<1>4. read \in PacketKinds
  BY <1>3 DEF PacketKinds
<1>5. /\ mem' \in [Procs -> Memories] /\ mem'[p].findings = mem[p].findings
      /\ \A q \in Procs \ {p} : mem'[q] = mem[q]
  BY <1>1, <1>4, MemoryTyped DEF IInv
<1>6. cmd[p] = "approve"
  BY <1>2 DEF IInv, Local, CommandMatches, ApproveLabels
<1>7. "a_confirm" \in Labels /\ "a_confirm" \notin HandoffLabels \cup DecidedLabels
  BY DEF Labels, HandoffLabels, DecidedLabels
<1>8. /\ Entered(eng'[p].state) /\ eng'[p].state # "verifying"
      /\ eng' \in [Procs -> Engines]
      /\ \A q \in Procs \ {p} : eng'[q] = eng[q]
      /\ mem'[p].findings => findings
      /\ packet' \in PacketKinds /\ approval' \in Decisions
  BY <1>2, <1>3, <1>5
<1> QED
  BY <1>2, <1>5, <1>6, <1>7, <1>8, GoingKeeps

LEMMA ConfirmKeeps ==
  ASSUME IInv, NEW p \in Procs, NEW choice \in {"approve", "reject"},
         ApproveConfirm(p, choice)
  PROVE  Keeps(p)
<1>1. PICK label \in {"h_start", "h_submit", "a_record"} : GoTo(p, label)
  BY DEF ApproveConfirm
<1>2. /\ pc[p] = "a_confirm" /\ mem' = [mem EXCEPT ![p].choice = choice]
      /\ UNCHANGED <<row, gated, packet, findings, approval, ledger, last, commands, eng>>
  BY DEF ApproveConfirm, shared
<1>3. /\ Entered(eng[p].state) /\ eng[p].state # "verifying"
      /\ mem[p].findings => findings
      /\ eng \in [Procs -> Engines]
      /\ packet \in PacketKinds /\ approval \in Decisions
  BY <1>2, HeldSound
<1>4. choice \in Decisions
  BY DEF Decisions
<1>5. /\ mem' \in [Procs -> Memories] /\ mem'[p].findings = mem[p].findings
      /\ mem'[p].choice = choice /\ \A q \in Procs \ {p} : mem'[q] = mem[q]
  BY <1>2, <1>4, MemoryTyped DEF IInv
<1>6. cmd[p] = "approve"
  BY <1>2 DEF IInv, Local, CommandMatches, ApproveLabels
<1>7. /\ label \in Labels /\ label \notin DecidedLabels
      /\ label \notin {"validate", "merging", "b_approved"}
  BY DEF Labels, SaveLabels, DecidedLabels
<1>8. /\ Entered(eng'[p].state) /\ eng'[p].state # "verifying"
      /\ eng' \in [Procs -> Engines]
      /\ \A q \in Procs \ {p} : eng'[q] = eng[q]
      /\ mem'[p].findings => findings
      /\ mem'[p].choice \in {"approve", "reject"}
      /\ packet' \in PacketKinds /\ approval' \in Decisions
  BY <1>2, <1>3, <1>5
<1> QED
  BY <1>1, <1>2, <1>5, <1>6, <1>7, <1>8, GoingKeeps

LEMMA RunDecideKeeps ==
  ASSUME IInv, NEW p \in Procs, NEW choice \in {"approve", "reject"},
         RunDecide(p, choice)
  PROVE  Keeps(p)
<1>1. /\ pc[p] = "b_confirm" /\ GoTo(p, "b_record")
      /\ mem' = [mem EXCEPT ![p].choice = choice] /\ approval' = choice
      /\ UNCHANGED <<row, gated, packet, findings, ledger, last, commands, eng>>
  BY DEF RunDecide
<1>2. /\ Entered(eng[p].state) /\ eng[p].state # "verifying"
      /\ mem[p].findings => findings
      /\ eng \in [Procs -> Engines] /\ packet \in PacketKinds
  BY <1>1, HeldSound
<1>3. choice \in Decisions
  BY DEF Decisions
<1>4. /\ mem' \in [Procs -> Memories] /\ mem'[p].findings = mem[p].findings
      /\ mem'[p].choice = choice /\ \A q \in Procs \ {p} : mem'[q] = mem[q]
  BY <1>1, <1>3, MemoryTyped DEF IInv
<1>5. "b_record" \in Labels /\ "b_record" \notin ApproveLabels \cup HandoffLabels \cup DecidedLabels
  BY DEF Labels, ApproveLabels, HandoffLabels, DecidedLabels
<1>6. /\ Entered(eng'[p].state) /\ eng'[p].state # "verifying"
      /\ eng' \in [Procs -> Engines]
      /\ \A q \in Procs \ {p} : eng'[q] = eng[q]
      /\ mem'[p].findings => findings
      /\ mem'[p].choice \in {"approve", "reject"}
      /\ packet' \in PacketKinds /\ approval' \in Decisions
  BY <1>1, <1>2, <1>3, <1>4
<1> QED
  BY <1>1, <1>4, <1>5, <1>6, GoingKeeps

\* complete stores its packet and its approval before it looks at the state
LEMMA StoringKeeps ==
  ASSUME IInv, NEW p \in Procs, CompleteEvidence(p) \/ CompleteConfirm(p)
  PROVE  Keeps(p)
<1> DEFINE label == IF pc[p] = "c_evidence" THEN "c_confirm" ELSE "c_load"
<1>1. /\ pc[p] # "x_verify" /\ GoTo(p, label)
      /\ UNCHANGED <<row, gated, findings, ledger, last, commands, eng, mem>>
  BY DEF CompleteEvidence, CompleteConfirm
<1>2. /\ Entered(eng[p].state) /\ eng[p].state # "verifying"
      /\ mem[p].findings => findings
      /\ eng \in [Procs -> Engines] /\ mem \in [Procs -> Memories]
      /\ packet \in PacketKinds /\ approval \in Decisions
  BY <1>1, HeldSound
<1>3. /\ packet' \in {packet, "manual"} /\ approval' \in {approval, "approve"}
  BY DEF CompleteEvidence, CompleteConfirm
<1>4. packet' \in PacketKinds /\ approval' \in Decisions
  BY <1>2, <1>3 DEF PacketKinds, Decisions
<1>5. label \in Labels /\ label \notin ApproveLabels \cup HandoffLabels \cup DecidedLabels
  BY DEF Labels, ApproveLabels, HandoffLabels, DecidedLabels
<1>6. label \notin {"a_record", "b_record", "validate", "merging", "b_approved"}
  OBVIOUS
<1> HIDE DEF label
<1>7. /\ Entered(eng'[p].state) /\ eng'[p].state # "verifying"
      /\ eng' \in [Procs -> Engines] /\ mem' \in [Procs -> Memories]
      /\ \A q \in Procs \ {p} : eng'[q] = eng[q] /\ mem'[q] = mem[q]
      /\ mem'[p].findings => findings
  BY <1>1, <1>2
<1> QED
  BY <1>1, <1>4, <1>5, <1>6, <1>7, GoingKeeps

LEMMA RunAgentKeeps ==
  ASSUME IInv, NEW p \in Procs, RunAgent(p)
  PROVE  Keeps(p)
<1>1. /\ pc[p] = "b_agent" /\ packet' \in {"ready", "blocked"}
      /\ UNCHANGED <<row, gated, findings, approval, ledger, last, commands>>
  BY DEF RunAgent
<1>2. /\ Entered(eng[p].state) /\ eng[p].state # "verifying"
      /\ mem[p].findings => findings
      /\ eng \in [Procs -> Engines] /\ approval \in Decisions
  BY <1>1, HeldSound
<1>3. packet' \in PacketKinds
  BY <1>1 DEF PacketKinds
<1>4. CASE /\ GoTo(p, "b_submit") /\ UNCHANGED eng
           /\ mem' = [mem EXCEPT ![p].packet = packet']
  <2>1. /\ mem' \in [Procs -> Memories] /\ mem'[p].findings = mem[p].findings
        /\ \A q \in Procs \ {p} : mem'[q] = mem[q]
    BY <1>3, <1>4, MemoryTyped DEF IInv
  <2>2. /\ "b_submit" \in Labels /\ "b_submit" \notin ApproveLabels \cup HandoffLabels \cup DecidedLabels
        /\ "b_submit" \notin {"a_record", "b_record", "validate", "merging", "b_approved"}
    BY DEF Labels, ApproveLabels, HandoffLabels, DecidedLabels
  <2>3. /\ Entered(eng'[p].state) /\ eng'[p].state # "verifying"
        /\ eng' \in [Procs -> Engines] /\ mem' \in [Procs -> Memories]
        /\ \A q \in Procs \ {p} : eng'[q] = eng[q] /\ mem'[q] = mem[q]
        /\ mem'[p].findings => findings
        /\ approval' \in Decisions
    BY <1>1, <1>2, <1>4, <2>1
  <2> QED
    BY <1>1, <1>3, <1>4, <2>1, <2>2, <2>3, GoingKeeps
<1>5. CASE Leave(p)
  <2>1. Typed
    BY DEF IInv
  <2>2. Typed'
    BY <1>1, <1>3, <1>5, <2>1, LeaveTyped DEF Typed, TypeOK, Memories
  <2>3. Local(p)' /\ Alone(p)
    BY <1>5, <2>1, LeaveLocal
  <2>4. findings => findings'
    BY <1>1
  <2> QED
    BY <1>1, <2>2, <2>3, <2>4, QuietKeeps
<1> QED
  BY <1>4, <1>5 DEF RunAgent

LEMMA RunWalkKeeps ==
  ASSUME IInv, NEW p \in Procs, RunWalk(p)
  PROVE  Keeps(p)
<1>1. PICK m \in SubMoves :
        /\ eng' = [eng EXCEPT ![p].sub = m.to]
        /\ GoTo(p, IF m.to = "decision" THEN "b_complete" ELSE "b_walk")
  BY DEF RunWalk
<1> DEFINE label == IF m.to = "decision" THEN "b_complete" ELSE "b_walk"
<1>2. /\ pc[p] = "b_walk"
      /\ UNCHANGED <<row, gated, packet, findings, approval, ledger, last, commands, mem>>
  BY DEF RunWalk, shared
<1>3. /\ Entered(eng[p].state) /\ eng[p].state # "verifying"
      /\ mem[p].findings => findings
      /\ eng \in [Procs -> Engines] /\ mem \in [Procs -> Memories]
      /\ packet \in PacketKinds /\ approval \in Decisions
  BY <1>2, HeldSound
<1>4. m.to \in SubStates
  BY DEF SubMoves, Edge, SubStates
<1>5. /\ eng' \in [Procs -> Engines] /\ eng'[p].state = eng[p].state
      /\ \A q \in Procs \ {p} : eng'[q] = eng[q]
  BY <1>1, <1>3, <1>4 DEF Engines
<1>6. /\ label \in Labels /\ label \notin ApproveLabels \cup HandoffLabels
      /\ label \notin {"a_record", "b_record", "validate", "merging", "b_approved"}
  BY DEF Labels, ApproveLabels, HandoffLabels
<1>7. pc[p] \in DecidedLabels
  BY <1>2 DEF DecidedLabels
<1>8. GoTo(p, label)
  BY <1>1
<1> HIDE DEF label
<1>9. /\ Entered(eng'[p].state) /\ eng'[p].state # "verifying"
      /\ mem' \in [Procs -> Memories]
      /\ \A q \in Procs \ {p} : mem'[q] = mem[q]
      /\ mem'[p].findings => findings
      /\ packet' \in PacketKinds /\ approval' \in Decisions
  BY <1>2, <1>3, <1>5
<1> QED
  BY <1>2, <1>5, <1>6, <1>7, <1>8, <1>9, GoingKeeps

-----------------------------------------------------------------------------
(* Steps that write the row or the ledger themselves.                      *)

LEMMA RunLaunchKeeps ==
  ASSUME IInv, NEW p \in Procs, RunLaunch(p)
  PROVE  Keeps(p)
<1>1. Typed /\ Global /\ Local(p)
  BY DEF IInv
<1>2. /\ pc[p] = "b_launch" /\ row' = "in_flight" /\ GoTo(p, "b_agent")
      /\ UNCHANGED <<gated, packet, findings, approval, ledger, last, commands, eng, mem>>
  BY DEF RunLaunch
<1>3. "b_agent" \in Labels /\ "b_agent" \notin ApproveLabels \cup HandoffLabels \cup DecidedLabels
  BY DEF Labels, ApproveLabels, HandoffLabels, DecidedLabels
<1>4. /\ pc' \in [Procs -> Labels] /\ cmd' \in [Procs -> Commands \cup {"none"}]
      /\ pc'[p] = "b_agent" /\ cmd'[p] = cmd[p]
      /\ \A q \in Procs \ {p} : pc'[q] = pc[q] /\ cmd'[q] = cmd[q]
  BY <1>1, <1>2, <1>3, GoesTyped
<1>5. row' \in States
  BY <1>2 DEF States
<1>6. Typed'
  BY <1>1, <1>2, <1>4, <1>5 DEF Typed, TypeOK
<1>7. Global'
  BY <1>1, <1>2 DEF Global, Entered, MergesEarned, Moved
<1>8. EngineAudited(p)'
  BY <1>1, <1>2 DEF Local, EngineAudited, Entered
<1>9. CommandMatches(p)' /\ DecisionTaken(p)'
  BY <1>3, <1>4 DEF CommandMatches, DecisionTaken, Deciding
<1>10. Grows /\ Alone(p)
  BY <1>2, <1>4 DEF Grows, Alone
<1> QED
  BY <1>6, <1>7, <1>8, <1>9, <1>10 DEF Keeps, Local

LEMMA RunSubmitKeeps ==
  ASSUME IInv, NEW p \in Procs, RunSubmit(p)
  PROVE  Keeps(p)
<1> DEFINE e == Build("in_flight", NoSub)
           m == MoveOf(e, "submit_for_review")
<1>1. Typed /\ Global /\ Local(p)
  BY DEF IInv
<1>2. e \in Engines /\ e.state = "in_flight"
  BY BuildType DEF States
<1>3. CanMove(e, "submit_for_review")
  <2> DEFINE submission == Edge("submit_for_review", "in_flight", "under_review")
  <2>1. submission \in Moves
    BY DEF Moves, Transitions
  <2>2. submission.op = "submit_for_review" /\ submission.from = "in_flight"
    BY DEF Edge
  <2> HIDE DEF submission
  <2>3. Enabled(e, submission)
    BY <1>2, <2>2 DEF Enabled
  <2> QED
    BY <2>1, <2>2, <2>3 DEF CanMove
<1>4. /\ m \in Moves /\ m.op = "submit_for_review" /\ m.from = e.state
      /\ After(e, m) \in Engines
  BY <1>2, <1>3, MoveChosen, MoveAllowed
<1>5. m.to # "verifying"
  BY <1>4, MoveShape
<1>6. /\ eng' = [eng EXCEPT ![p] = After(e, m)]
      /\ ledger' = [ledger EXCEPT !.moves = @ \cup {m}]
      /\ pc[p] = "b_submit" /\ GoTo(p, "b_submitted")
      /\ UNCHANGED <<row, gated, packet, findings, approval, last, commands, mem>>
  BY DEF RunSubmit
<1> HIDE DEF e, m
<1>7. /\ ledger'.moves = ledger.moves \cup {m}
      /\ ledger'.decided = ledger.decided /\ ledger'.merges = ledger.merges
      /\ ledger' \in [moves : SUBSET Moves, decided : SUBSET {"approve", "reject"},
                      merges : SUBSET {"allow", "block"}]
  BY <1>1, <1>4, <1>6 DEF Typed
<1>8. /\ eng' \in [Procs -> Engines] /\ eng'[p].state = m.to
      /\ \A q \in Procs \ {p} : eng'[q] = eng[q]
  BY <1>1, <1>4, <1>6 DEF Typed, TypeOK, After
<1>9. /\ "b_submitted" \in Labels
      /\ "b_submitted" \notin ApproveLabels \cup HandoffLabels \cup DecidedLabels
  BY DEF Labels, SaveLabels, ApproveLabels, HandoffLabels, DecidedLabels
<1>10. /\ pc' \in [Procs -> Labels] /\ cmd' \in [Procs -> Commands \cup {"none"}]
       /\ pc'[p] = "b_submitted" /\ cmd'[p] = cmd[p]
       /\ \A q \in Procs \ {p} : pc'[q] = pc[q] /\ cmd'[q] = cmd[q]
  BY <1>1, <1>6, <1>9, GoesTyped
<1>11. Typed'
  BY <1>1, <1>6, <1>7, <1>8, <1>10 DEF Typed, TypeOK
<1>12. \A o : Moved(o)' <=> Moved(o) \/ o = "submit_for_review"
  BY <1>4, <1>7 DEF Moved
<1>13. MergesEarned'
  BY <1>1, <1>6, <1>7, <1>12 DEF Global, MergesEarned
<1>14. Global'
  BY <1>1, <1>4, <1>6, <1>7, <1>13 DEF Global, Entered
<1>15. mem[p].findings => findings
  BY <1>1 DEF Local, EngineAudited
<1>16. EngineAudited(p)'
  BY <1>5, <1>6, <1>7, <1>8, <1>15 DEF EngineAudited, Entered
<1>17. CommandMatches(p)' /\ DecisionTaken(p)'
  BY <1>9, <1>10 DEF CommandMatches, DecisionTaken, Deciding
<1>18. Grows /\ Alone(p)
  BY <1>6, <1>7, <1>8, <1>10 DEF Grows, Alone
<1> QED
  BY <1>11, <1>14, <1>16, <1>17, <1>18 DEF Keeps, Local

(* A decision is recorded: what comes after it relies on it.               *)
LEMMA RecordingKeeps ==
  ASSUME IInv, NEW p \in Procs, NEW reviewed \in BOOLEAN, NEW label,
         pc[p] \in {"a_record", "b_record"}, Records(p, reviewed), GoTo(p, label),
         label \in {"rejecting", "a_complete", "validate", "b_walk"},
         label # "rejecting" => mem[p].choice # "reject",
         label \in {"a_complete", "validate"} => pc[p] = "a_record"
  PROVE  Keeps(p)
<1>1. Typed /\ Global /\ Local(p)
  BY DEF IInv
<1>2. /\ ledger' = [ledger EXCEPT !.decided = @ \cup {mem[p].choice}]
      /\ last' = [choice |-> mem[p].choice, reviewed |-> reviewed]
      /\ UNCHANGED <<row, gated, packet, findings, approval, commands, eng, mem>>
  BY DEF Records
<1>3. mem[p].choice \in {"approve", "reject"}
  BY <1>1 DEF Local, DecisionTaken, Deciding
<1>4. /\ ledger'.decided = ledger.decided \cup {mem[p].choice}
      /\ ledger'.moves = ledger.moves /\ ledger'.merges = ledger.merges
      /\ ledger' \in [moves : SUBSET Moves, decided : SUBSET {"approve", "reject"},
                      merges : SUBSET {"allow", "block"}]
  BY <1>1, <1>2, <1>3 DEF Typed
<1>5. last' \in [choice : Decisions, reviewed : BOOLEAN]
  BY <1>2, <1>3 DEF Decisions
<1>6. label \in Labels /\ label \notin HandoffLabels
  BY DEF Labels, HandoffLabels
<1>7. /\ pc' \in [Procs -> Labels] /\ cmd' \in [Procs -> Commands \cup {"none"}]
      /\ pc'[p] = label /\ cmd'[p] = cmd[p]
      /\ \A q \in Procs \ {p} : pc'[q] = pc[q] /\ cmd'[q] = cmd[q]
  BY <1>1, <1>6, GoesTyped
<1>8. Typed'
  BY <1>1, <1>2, <1>4, <1>5, <1>7 DEF Typed, TypeOK
<1>9. Global'
  BY <1>1, <1>2, <1>4 DEF Global, Entered, MergesEarned, Moved
<1>10. EngineAudited(p)'
  <2>1. eng[p].state # "verifying"
    BY <1>1 DEF Local, EngineAudited
  <2> QED
    BY <2>1, <1>1, <1>2, <1>4 DEF Local, EngineAudited, Entered
<1>11. pc[p] = "a_record" => cmd[p] = "approve"
  BY <1>1 DEF Local, CommandMatches, ApproveLabels
<1>12. CommandMatches(p)'
  BY <1>6, <1>7, <1>11 DEF CommandMatches, ApproveLabels
<1>13. DecisionTaken(p)'
  BY <1>3, <1>4, <1>6, <1>7, <1>11 DEF DecisionTaken, Deciding, DecidedLabels
<1>14. Grows /\ Alone(p)
  BY <1>2, <1>4, <1>7 DEF Grows, Alone
<1> QED
  BY <1>8, <1>9, <1>10, <1>12, <1>13, <1>14 DEF Keeps, Local

LEMMA ApproveRecordKeeps ==
  ASSUME IInv, NEW p \in Procs, ApproveRecord(p)
  PROVE  Keeps(p)
<1> DEFINE label == CASE mem[p].choice = "reject" -> "rejecting"
                      [] mem[p].choice = "approve" /\ mem[p].findings
                         /\ eng[p].state = "under_review" -> "a_complete"
                      [] OTHER -> "validate"
<1>1. pc[p] = "a_record" /\ Records(p, mem[p].findings) /\ GoTo(p, label)
  BY DEF ApproveRecord
<1>2. mem[p].findings \in BOOLEAN
  BY DEF IInv, Typed, TypeOK
<1>3. CASE mem[p].choice = "reject"
  <2>1. label = "rejecting"
    BY <1>3
  <2> QED
    BY <2>1, <1>1, <1>2, RecordingKeeps
<1>4. CASE mem[p].choice # "reject"
  <2>1. label \in {"a_complete", "validate"}
    BY <1>4
  <2> HIDE DEF label
  <2> QED
    BY <2>1, <1>1, <1>2, <1>4, RecordingKeeps
<1> QED
  BY <1>3, <1>4

LEMMA RunRecordKeeps ==
  ASSUME IInv, NEW p \in Procs, RunRecord(p)
  PROVE  Keeps(p)
<1> DEFINE label == IF mem[p].choice = "reject" THEN "rejecting" ELSE "b_walk"
           reviewed == TRUE
<1>1. pc[p] = "b_record" /\ Records(p, reviewed) /\ GoTo(p, label)
  BY DEF RunRecord
<1>2. /\ label \in {"rejecting", "a_complete", "validate", "b_walk"}
      /\ label \notin {"a_complete", "validate"}
      /\ label # "rejecting" => mem[p].choice # "reject"
  OBVIOUS
<1>3. reviewed \in BOOLEAN
  BY Zenon
<1> HIDE DEF label, reviewed
<1> QED
  BY <1>1, <1>2, <1>3, RecordingKeeps

LEMMA CompleteRecordKeeps ==
  ASSUME IInv, NEW p \in Procs, CompleteRecord(p)
  PROVE  Keeps(p)
<1>1. Typed /\ Global /\ Local(p)
  BY DEF IInv
<1>2. /\ ledger' = [ledger EXCEPT !.decided = @ \cup {"approve"}]
      /\ last' = [choice |-> "approve", reviewed |-> FALSE]
      /\ Leave(p) /\ UNCHANGED <<row, gated, packet, findings, approval, commands>>
  BY DEF CompleteRecord
<1>3. /\ ledger'.decided = ledger.decided \cup {"approve"}
      /\ ledger'.moves = ledger.moves /\ ledger'.merges = ledger.merges
      /\ ledger' \in [moves : SUBSET Moves, decided : SUBSET {"approve", "reject"},
                      merges : SUBSET {"allow", "block"}]
  BY <1>1, <1>2 DEF Typed
<1>4. last' \in [choice : Decisions, reviewed : BOOLEAN]
  BY <1>2 DEF Decisions
<1>5. Typed'
  BY <1>1, <1>2, <1>3, <1>4, LeaveTyped DEF Typed, TypeOK, Memories
<1>6. Global'
  BY <1>1, <1>2, <1>3 DEF Global, Entered, MergesEarned, Moved
<1>7. Grows
  BY <1>2, <1>3 DEF Grows
<1> QED
  BY <1>1, <1>2, <1>5, <1>6, <1>7, LeaveLocal DEF Keeps

(* A merge that no check fails has a decided review behind it.             *)
LEMMA NoneFailing ==
  ASSUME NEW r, NEW now, NEW halted, Failing(r, now, halted) = {}
  PROVE  r.sub = "decision"
<1>1. "review_complete" \in DOMAIN Passed(r, now, halted)
  BY DEF Passed
<1>2. Passed(r, now, halted)["review_complete"]
  BY <1>1 DEF Failing
<1>3. Passed(r, now, halted)["review_complete"] = ReviewComplete(r)
  BY DEF Passed
<1> QED
  BY <1>2, <1>3 DEF ReviewComplete

LEMMA ValidateKeeps ==
  ASSUME IInv, NEW p \in Procs, ValidateMerge(p)
  PROVE  Keeps(p)
<1>1. Typed /\ Global /\ Local(p)
  BY DEF IInv
<1>2. PICK expired \in BOOLEAN :
        LET allowed == Failing(MergeRequest(p, expired), 1, FALSE) = {}
        IN  /\ ledger' = [ledger EXCEPT !.merges =
                             @ \cup {IF allowed THEN "allow" ELSE "block"}]
            /\ IF allowed /\ mem[p].packet # "blocked"
               THEN GoTo(p, "merging") /\ UNCHANGED <<eng, mem>>
               ELSE Leave(p)
  BY DEF ValidateMerge
<1> DEFINE allowed == Failing(MergeRequest(p, expired), 1, FALSE) = {}
           entry == IF allowed THEN "allow" ELSE "block"
<1>3. /\ pc[p] = "validate"
      /\ UNCHANGED <<row, gated, packet, findings, approval, last, commands>>
  BY DEF ValidateMerge
<1>4. ledger' = [ledger EXCEPT !.merges = @ \cup {entry}]
  BY <1>2
<1>5. entry \in {"allow", "block"}
  OBVIOUS
<1>6. allowed => cmd[p] = "run" \/ mem[p].findings
  <2>1. allowed => MergeRequest(p, expired).sub = "decision"
    BY NoneFailing
  <2>2. MergeRequest(p, expired).sub =
          IF cmd[p] = "run" \/ mem[p].findings THEN "decision" ELSE "pending_review"
    BY DEF MergeRequest
  <2> QED
    BY <2>1, <2>2
<1>7. \/ allowed /\ entry = "allow" /\ GoTo(p, "merging") /\ UNCHANGED <<eng, mem>>
      \/ Leave(p)
  BY <1>2
<1> HIDE DEF allowed, entry
<1>8. /\ ledger'.merges = ledger.merges \cup {entry}
      /\ ledger'.moves = ledger.moves /\ ledger'.decided = ledger.decided
      /\ ledger' \in [moves : SUBSET Moves, decided : SUBSET {"approve", "reject"},
                      merges : SUBSET {"allow", "block"}]
  BY <1>1, <1>4, <1>5 DEF Typed
<1>9. Global'
  BY <1>1, <1>3, <1>8 DEF Global, Entered, MergesEarned, Moved
<1>10. Grows
  BY <1>3, <1>8 DEF Grows
<1>11. CASE Leave(p)
  <2>1. Typed'
    BY <1>1, <1>3, <1>8, <1>11, LeaveTyped DEF Typed, TypeOK, Memories
  <2> QED
    BY <1>1, <1>9, <1>10, <1>11, <2>1, LeaveLocal DEF Keeps
<1>12. CASE allowed /\ entry = "allow" /\ GoTo(p, "merging") /\ UNCHANGED <<eng, mem>>
  <2>1. /\ "merging" \in Labels /\ "merging" \in DecidedLabels
        /\ "merging" \notin ApproveLabels \cup HandoffLabels
    BY DEF Labels, ApproveLabels, HandoffLabels, DecidedLabels
  <2>2. /\ pc' \in [Procs -> Labels] /\ cmd' \in [Procs -> Commands \cup {"none"}]
        /\ pc'[p] = "merging" /\ cmd'[p] = cmd[p]
        /\ \A q \in Procs \ {p} : pc'[q] = pc[q] /\ cmd'[q] = cmd[q]
    BY <1>1, <1>12, <2>1, GoesTyped
  <2>3. Typed'
    BY <1>1, <1>3, <1>8, <1>12, <2>2 DEF Typed, TypeOK
  <2>4. EngineAudited(p)'
    <3>1. eng[p].state # "verifying"
      BY <1>1, <1>3 DEF Local, EngineAudited
    <3> QED
      BY <3>1, <1>1, <1>3, <1>8, <1>12 DEF Local, EngineAudited, Entered
  <2>5. CommandMatches(p)'
    BY <2>1, <2>2 DEF CommandMatches
  <2>6. "approve" \in ledger.decided
    BY <1>1, <1>3 DEF Local, DecisionTaken, DecidedLabels
  <2>7. findings \/ Moved("complete_review")
    BY <1>1, <1>3, <1>6, <1>12 DEF Local, EngineAudited, DecisionTaken
  <2>8. DecisionTaken(p)'
    BY <2>1, <2>2, <2>6, <2>7, <1>3, <1>8, <1>12 DEF DecisionTaken, Deciding, Moved
  <2>9. Alone(p)
    BY <2>2, <1>12 DEF Alone
  <2> QED
    BY <2>3, <2>4, <2>5, <2>8, <2>9, <1>9, <1>10 DEF Keeps, Local
<1> QED
  BY <1>7, <1>11, <1>12

-----------------------------------------------------------------------------
(* Every step keeps the invariant.                                         *)

LEMMA ApproveStepKeeps ==
  ASSUME IInv, NEW p \in Procs, ApproveStep(p)
  PROVE  Keeps(p)
<1>1. CASE ApproveLoad(p) \/ ApproveEvidence(p) \/ ApproveRecord(p) \/ ValidateMerge(p)
  BY <1>1, ApproveLoadKeeps, ApproveEvidenceKeeps, ApproveRecordKeeps, ValidateKeeps
<1>2. CASE ApproveComplete(p)
  <2>1. \/ Call(p, "a_complete", "complete_review", "a_approved")
        \/ Quits(p)
    BY <1>2 DEF ApproveComplete
  <2> QED
    BY <2>1, CallKeeps, QuitsKeeps DEF Calls
<1>3. CASE ApproveMerge(p)
  BY <1>3, CallKeeps DEF ApproveMerge, Calls
<1>4. CASE Reject(p)
  BY <1>4, CallKeeps DEF Reject, Calls
<1> QED
  BY <1>1, <1>2, <1>3, <1>4 DEF ApproveStep

LEMMA CompleteStepKeeps ==
  ASSUME IInv, NEW p \in Procs, CompleteStep(p)
  PROVE  Keeps(p)
<1>1. CASE CompleteMove(p)
  BY <1>1, CallKeeps DEF CompleteMove, Calls
<1> QED
  BY <1>1, StoringKeeps, CompleteLoadKeeps, CompleteRecordKeeps DEF CompleteStep

LEMMA RunStepKeeps ==
  ASSUME IInv, NEW p \in Procs, RunStep(p)
  PROVE  Keeps(p)
<1>1. CASE RunLaunch(p) \/ RunAgent(p) \/ RunSubmit(p)
  BY <1>1, RunLaunchKeeps, RunAgentKeeps, RunSubmitKeeps
<1>2. CASE RunRecord(p) \/ RunWalk(p)
  BY <1>2, RunRecordKeeps, RunWalkKeeps
<1>3. CASE RunAgentRaises(p)
  BY <1>3, QuitsKeeps DEF RunAgentRaises
<1>4. CASE RunComplete(p)
  BY <1>4, CallKeeps DEF RunComplete, Calls
<1> QED
  BY <1>1, <1>2, <1>3, <1>4 DEF RunStep

LEMMA UserDecidesKeeps ==
  ASSUME IInv, NEW p \in Procs, UserDecides(p)
  PROVE  Keeps(p)
<1>1. PICK choice \in {"approve", "reject"} :
        \/ ApproveConfirm(p, choice) \/ ApproveRefuses(p, choice)
        \/ RunDecide(p, choice)
        \/ CompleteConfirm(p) \/ CompleteDeclined(p)
  BY DEF UserDecides
<1>2. ApproveRefuses(p, choice) \/ CompleteDeclined(p) => Quits(p)
  BY DEF ApproveRefuses, CompleteDeclined
<1> QED
  BY <1>1, <1>2, ConfirmKeeps, RunDecideKeeps, StoringKeeps, QuitsKeeps

LEMMA NextKeeps ==
  ASSUME IInv, Next
  PROVE  IInv'
<1>1. PICK p \in Procs :
        \/ Start(p) \/ UserDecides(p) \/ SaveManifest(p) \/ Die(p)
        \/ ExecuteStep(p) \/ ReviewStep(p) \/ ApproveStep(p)
        \/ CompleteStep(p) \/ RunStep(p)
  BY DEF Next
<1>2. Die(p) => Quits(p)
  BY DEF Die
<1>3. Keeps(p)
  BY <1>1, <1>2, StartKeeps, UserDecidesKeeps, SaveKeeps, QuitsKeeps, ExecuteStepKeeps,
     ReviewStepKeeps, ApproveStepKeeps, CompleteStepKeeps, RunStepKeeps
<1> QED
  BY <1>3, StepKeeps

LEMMA InitInductive == Init => IInv
<1> SUFFICES ASSUME Init PROVE IInv
  OBVIOUS
<1>1. ledger.moves = {} /\ row = "queued"
  BY DEF Init
<1>2. Global
  BY <1>1 DEF Global, Entered, MergesEarned, Moved
<1>3. ASSUME NEW p \in Procs
      PROVE  Local(p)
  <2>1. /\ pc[p] = "idle" /\ cmd[p] = "none" /\ mem[p] = NoMem
        /\ eng[p] = Build("queued", NoSub)
    BY DEF Init
  <2>2. EngineAudited(p)
    BY <2>1, BuildType DEF EngineAudited, Entered, States, NoMem
  <2> QED
    BY <2>1, <2>2 DEF Local, CommandMatches, DecisionTaken, Deciding, ApproveLabels,
       HandoffLabels, DecidedLabels
<1> QED
  BY <1>2, <1>3, InitTyped DEF IInv

LEMMA Inductive == Spec => []IInv
<1>1. IInv /\ UNCHANGED vars => IInv'
  <2> SUFFICES ASSUME IInv, UNCHANGED vars PROVE IInv'
    OBVIOUS
  <2>1. UNCHANGED <<row, gated, packet, findings, approval, ledger, last,
                    commands, pc, cmd, eng, mem>>
    BY DEF vars, shared
  <2>2. Typed'
    BY <2>1 DEF IInv, Typed, TypeOK
  <2>3. Global'
    BY <2>1, GlobalSame DEF IInv
  <2>4. Grows
    BY <2>1 DEF Grows
  <2>5. ASSUME NEW p \in Procs PROVE Local(p)'
    BY <2>1, <2>4, OthersKept DEF IInv
  <2> QED
    BY <2>2, <2>3, <2>5 DEF IInv
<1>2. IInv /\ [Next]_vars => IInv'
  BY <1>1, NextKeeps
<1> QED
  BY InitInductive, <1>2, PTL DEF Spec

-----------------------------------------------------------------------------
(* What it says of the stored row, the ledger and the merge.               *)

LEMMA EarnedFollows ==
  ASSUME IInv
  PROVE  MergeEarned /\ OutcomeAudited
<1>1. OutcomeAudited
  BY DEF IInv, Global, Entered, OutcomeAudited
<1>2. row = "merged" => Moved("approve_merge")
  BY MoveShape DEF IInv, Global, Entered, Typed, Moved
<1>3. MergeEarned
  BY <1>2 DEF IInv, Global, MergesEarned, MergeEarned
<1> QED
  BY <1>1, <1>3

(* Whatever runs at once and dies, nothing is stored while it is being     *)
(* verified: execute keeps the submission in memory until a verdict.       *)
THEOREM RowIsSound == Spec => []RowSound
<1>1. IInv => RowSound
  BY DEF IInv, Typed, Global, RowSound, NeverStoredVerifying
<1> QED
  BY <1>1, Inductive, PTL

(* No overlap of commands and no crash makes a merge that nobody approved, *)
(* that validate_merge did not allow, or that no review preceded.          *)
THEOREM MergeIsEarned == Spec => []MergeEarned
<1> QED
  BY EarnedFollows, Inductive, PTL

(* What is stored for a manifest was audited, by whichever command.        *)
THEOREM OutcomeIsAudited == Spec => []OutcomeAudited
<1> QED
  BY EarnedFollows, Inductive, PTL

-----------------------------------------------------------------------------
(* An approval is stored before it is audited, by run and by complete.     *)
(* Until it is, some command stands where it still will be; a command that *)
(* dies there leaves it unaudited, so this part needs that none does.      *)

YetUnrecorded(p) ==
  \/ pc[p] = "b_record" /\ mem[p].choice = approval
  \/ pc[p] \in {"c_load", "c_move", "c_saved", "c_record"} /\ approval = "approve"

ApprovalKept ==
  approval # "none" => \/ approval \in ledger.decided
                       \/ \E p \in Procs : YetUnrecorded(p)

Resolves(p) ==
  RunRecord(p) \/ CompleteLoad(p) \/ CompleteMove(p) \/ SaveManifest(p) \/ CompleteRecord(p)

StoresApproval(p) ==
  CompleteConfirm(p) \/ \E choice \in {"approve", "reject"} : RunDecide(p, choice)

PendingLabels == {"b_record", "c_load", "c_move", "c_saved", "c_record"}

Step(p) ==
  \/ Start(p) \/ UserDecides(p) \/ SaveManifest(p)
  \/ ExecuteStep(p) \/ ReviewStep(p) \/ ApproveStep(p)
  \/ CompleteStep(p) \/ RunStep(p)

LEMMA PendingSteps ==
  ASSUME NEW p \in Procs, Step(p), pc[p] \in PendingLabels
  PROVE  Resolves(p)
<1>1. CASE Start(p)
  BY <1>1 DEF Start, Execute, Review, Approve, Complete, Run, Begin, PendingLabels
<1>2. CASE UserDecides(p)
  BY <1>2 DEF UserDecides, ApproveConfirm, ApproveRefuses, RunDecide, CompleteConfirm,
     CompleteDeclined, PendingLabels
<1>3. CASE ExecuteStep(p)
  BY <1>3 DEF ExecuteStep, ExecuteStart, AgentFails, AgentSucceeds, AgentClaims,
     VerificationPasses, VerificationFails, VerificationRaises, AutoRepairs, GivesUp,
     Call, PendingLabels
<1>4. CASE ReviewStep(p)
  BY <1>4 DEF ReviewStep, HandoffStart, HandoffSubmit, Dispatch, Call, PendingLabels
<1>5. CASE ApproveStep(p)
  BY <1>5 DEF ApproveStep, ApproveLoad, ApproveEvidence, ApproveRecord, ApproveComplete,
     ValidateMerge, ApproveMerge, Reject, Call, PendingLabels
<1>6. CASE CompleteStep(p)
  BY <1>6 DEF CompleteStep, CompleteEvidence, Resolves, PendingLabels
<1>7. CASE RunStep(p)
  BY <1>7 DEF RunStep, RunLaunch, RunAgent, RunAgentRaises, RunSubmit, RunWalk, RunComplete,
     Call, Resolves, PendingLabels
<1>8. CASE SaveManifest(p)
  BY <1>8 DEF Resolves
<1> QED
  BY <1>1, <1>2, <1>3, <1>4, <1>5, <1>6, <1>7, <1>8 DEF Step

LEMMA ApprovalSteps ==
  ASSUME NEW p \in Procs, Step(p), approval' # approval
  PROVE  StoresApproval(p)
<1>1. CASE Start(p)
  BY <1>1 DEF Start, Execute, Review, Approve, Complete, Run, shared
<1>2. CASE UserDecides(p)
  BY <1>2 DEF UserDecides, ApproveConfirm, ApproveRefuses, CompleteDeclined, Quits, shared,
     StoresApproval
<1>3. CASE ExecuteStep(p)
  BY <1>3 DEF ExecuteStep, ExecuteStart, AgentFails, AgentSucceeds, AgentClaims,
     VerificationPasses, VerificationFails, VerificationRaises, AutoRepairs, GivesUp,
     Call, EngineMoves, Quits, shared
<1>4. CASE ReviewStep(p)
  BY <1>4 DEF ReviewStep, HandoffStart, HandoffSubmit, Dispatch, Call, EngineMoves
<1>5. CASE ApproveStep(p)
  BY <1>5 DEF ApproveStep, ApproveLoad, ApproveEvidence, ApproveRecord, Records, ApproveComplete,
     ValidateMerge, ApproveMerge, Reject, Call, EngineMoves, Quits, shared
<1>6. CASE CompleteStep(p)
  BY <1>6 DEF CompleteStep, CompleteEvidence, CompleteLoad, CompleteMove, CompleteRecord,
     Call, EngineMoves, shared
<1>7. CASE RunStep(p)
  BY <1>7 DEF RunStep, RunLaunch, RunAgent, RunAgentRaises, RunSubmit, RunRecord, Records,
     RunWalk, RunComplete, Call, EngineMoves, Quits, shared
<1>8. CASE SaveManifest(p)
  BY <1>8 DEF SaveManifest
<1> QED
  BY <1>1, <1>2, <1>3, <1>4, <1>5, <1>6, <1>7, <1>8 DEF Step

\* while it stays the latest one, it stays unrecorded or is recorded
LEMMA PendingResolves ==
  ASSUME IInv, NEW p \in Procs, Resolves(p), YetUnrecorded(p), approval' = approval
  PROVE  YetUnrecorded(p)' \/ approval \in ledger'.decided
<1>1. Typed /\ Global /\ Local(p)
  BY DEF IInv
<1>2. CASE RunRecord(p)
  <2>1. /\ ledger' = [ledger EXCEPT !.decided = @ \cup {mem[p].choice}]
        /\ pc[p] = "b_record"
    BY <1>2 DEF RunRecord, Records
  <2>2. mem[p].choice \in ledger'.decided
    BY <2>1, <1>1 DEF Typed
  <2> QED
    BY <2>1, <2>2 DEF YetUnrecorded
<1>3. CASE CompleteLoad(p)
  <2>1. /\ pc[p] = "c_load" /\ UNCHANGED <<row, ledger>>
        /\ IF row \in NotReconcilable THEN Leave(p)
           ELSE ReadManifest(p) /\ GoTo(p, "c_move") /\ UNCHANGED mem
    BY <1>3 DEF CompleteLoad, shared
  <2>2. approval = "approve"
    BY <2>1 DEF YetUnrecorded
  <2>3. CASE row \in NotReconcilable
    <3>1. row = "merged"
      BY <2>3, <1>1, MoveShape DEF NotReconcilable, Global, Entered, Typed
    <3>2. "approve" \in ledger.decided
      BY <3>1, EarnedFollows DEF MergeEarned
    <3> QED
      BY <3>2, <2>1, <2>2
  <2>4. CASE row \notin NotReconcilable
    <3>1. pc'[p] = "c_move"
      BY <2>1, <2>4, <1>1 DEF GoTo, Typed, TypeOK
    <3> QED
      BY <3>1, <2>2 DEF YetUnrecorded
  <2> QED
    BY <2>3, <2>4
<1>4. CASE CompleteMove(p)
  <2>1. pc[p] = "c_move" /\ pc'[p] = "c_saved"
    BY <1>4, <1>1 DEF CompleteMove, Call, GoTo, Typed, TypeOK
  <2> QED
    BY <2>1 DEF YetUnrecorded
<1>5. CASE SaveManifest(p)
  <2>1. pc[p] = "c_saved"
    BY <1>5 DEF SaveManifest, SaveLabels, YetUnrecorded
  <2>2. Continuation(p) = "c_record" /\ pc[p] \notin LastSaves
    BY <2>1 DEF Continuation, LastSaves
  <2>3. pc'[p] = "c_record"
    BY <2>2, <1>1, <1>5 DEF SaveManifest, GoTo, Typed, TypeOK
  <2> QED
    BY <2>1, <2>3 DEF YetUnrecorded
<1>6. CASE CompleteRecord(p)
  <2>1. /\ pc[p] = "c_record"
        /\ ledger' = [ledger EXCEPT !.decided = @ \cup {"approve"}]
    BY <1>6 DEF CompleteRecord
  <2>2. "approve" \in ledger'.decided
    BY <2>1, <1>1 DEF Typed
  <2> QED
    BY <2>1, <2>2 DEF YetUnrecorded
<1> QED
  BY <1>2, <1>3, <1>4, <1>5, <1>6 DEF Resolves

LEMMA StoringPends ==
  ASSUME IInv, NEW p \in Procs, StoresApproval(p)
  PROVE  YetUnrecorded(p)'
<1>1. Typed
  BY DEF IInv
<1>2. CASE CompleteConfirm(p)
  BY <1>1, <1>2 DEF CompleteConfirm, GoTo, YetUnrecorded, Typed, TypeOK
<1>3. ASSUME NEW choice \in {"approve", "reject"}, RunDecide(p, choice)
      PROVE  YetUnrecorded(p)'
  <2>1. /\ pc' = [pc EXCEPT ![p] = "b_record"] /\ approval' = choice
        /\ mem' = [mem EXCEPT ![p].choice = choice]
    BY <1>3 DEF RunDecide, GoTo
  <2>2. pc'[p] = "b_record" /\ mem'[p].choice = choice
    BY <2>1, <1>1 DEF Typed, TypeOK
  <2> QED
    BY <2>1, <2>2 DEF YetUnrecorded
<1> QED
  BY <1>2, <1>3 DEF StoresApproval

LEMMA ApprovalStep ==
  ASSUME IInv, ApprovalKept, MayDie = FALSE, Next
  PROVE  ApprovalKept'
<1>1. PICK p \in Procs : Step(p)
  BY DEF Next, Step, Die
<1>2. Keeps(p)
  BY <1>1, StartKeeps, UserDecidesKeeps, SaveKeeps, ExecuteStepKeeps,
     ReviewStepKeeps, ApproveStepKeeps, CompleteStepKeeps, RunStepKeeps DEF Step
<1>3. CASE approval' # approval
  <2>1. YetUnrecorded(p)'
    BY <1>1, <1>3, ApprovalSteps, StoringPends
  <2> QED
    BY <2>1 DEF ApprovalKept
<1>4. CASE approval' = approval
  <2>1. CASE approval \in ledger.decided
    BY <2>1, <1>2, <1>4 DEF Keeps, Grows, ApprovalKept
  <2>2. ASSUME NEW q \in Procs, YetUnrecorded(q)
        PROVE  ApprovalKept'
    <3>1. CASE q = p
      <4>1. Resolves(p)
        BY <3>1, <2>2, <1>1, PendingSteps DEF YetUnrecorded, PendingLabels
      <4> QED
        BY <4>1, <3>1, <2>2, <1>4, PendingResolves DEF ApprovalKept
    <3>2. CASE q # p
      <4>1. pc'[q] = pc[q] /\ mem'[q] = mem[q]
        BY <3>2, <1>2 DEF Keeps, Alone
      <4>2. YetUnrecorded(q)'
        BY <4>1, <2>2, <1>4 DEF YetUnrecorded
      <4> QED
        BY <4>2 DEF ApprovalKept
    <3> QED
      BY <3>1, <3>2
  <2> QED
    BY <2>1, <2>2, <1>4 DEF ApprovalKept
<1> QED
  BY <1>3, <1>4

(* While no command dies, an approval in the approvals table is in the     *)
(* ledger once the commands have returned, and the merge is earned.        *)
THEOREM DecisionsAreSound ==
  ASSUME MayDie = FALSE
  PROVE  Spec => []DecisionsSound
<1>1. Init => ApprovalKept
  BY DEF Init, ApprovalKept
<1>2. IInv /\ ApprovalKept /\ [Next]_vars => ApprovalKept'
  <2>1. UNCHANGED vars /\ ApprovalKept => ApprovalKept'
    BY DEF vars, shared, ApprovalKept, YetUnrecorded
  <2> QED
    BY <2>1, ApprovalStep
<1>3. IInv /\ ApprovalKept => DecisionsSound
  <2>1. ApprovalKept => ApprovalAudited
    BY DEF ApprovalKept, YetUnrecorded, ApprovalAudited, Quiet
  <2> QED
    BY <2>1, EarnedFollows DEF DecisionsSound, Audited
<1> QED
  BY <1>1, <1>2, <1>3, Inductive, PTL DEF Spec

-----------------------------------------------------------------------------
(* Refinement.  One process at a time moves the stored state along the     *)
(* abstract lifecycle: between two of its saves the engine it holds has    *)
(* made only moves that lead from the one to the other.  Two overlapping   *)
(* commands do not: the later save brings back what it read before.        *)

\* what the engine holds where a command is about to store it
Holds(p) ==
  /\ pc[p] \in {"x_started", "x_retried", "h_started"} => eng[p].state = "in_flight"
  /\ pc[p] = "x_ended" => eng[p].state \in {"failed", "under_review"}
  /\ pc[p] = "x_unverified" => eng[p].state = "failed"
  /\ pc[p] \in {"h_submitted", "b_submitted"} => eng[p].state = "under_review"
  /\ pc[p] \in {"a_approved", "b_approved", "c_saved"} => eng[p].state = "approved"
  /\ pc[p] = "merged" => eng[p].state = "merged"
  /\ pc[p] = "rejected" => eng[p].state = "rejected"

\* labels at which the command has not read the manifest yet
Unread == {"idle", "a_load", "c_evidence", "c_confirm", "c_load"}

\* labels at which it has read an approved manifest, or stored it as such
Merging == {"a_evidence", "a_confirm", "a_record", "validate", "merging",
            "c_move", "c_saved", "c_record"}

RowBehind(p) ==
  /\ row = "merged" => pc[p] \in Unread
  /\ row = "approved" => \/ pc[p] \in Unread
                         \/ pc[p] \in Merging /\ eng[p].state = "approved"
                         \/ pc[p] = "merged"
  /\ pc[p] = "a_record" /\ eng[p].state = "approved" => mem[p].choice = "approve"
  /\ commands = 0 => pc[p] = "idle" /\ row = "queued"

Sole(p) == Holds(p) /\ RowBehind(p)

LEMMA MoveLeads ==
  ASSUME NEW m \in Moves
  PROVE  /\ m.op \in {"start", "retry"} => m.to = "in_flight"
         /\ m.op \in {"fail", "verification_failed"} => m.to = "failed"
         /\ m.op \in {"submit_for_review", "verification_passed"} => m.to = "under_review"
         /\ m.op \in {"complete_review", "reconcile_manual_completion"} => m.to = "approved"
         /\ m.op = "approve_merge" => m.to = "merged"
         /\ m.op = "reject" => m.to = "rejected"
BY DEF Moves, Transitions, ManualOverrides, Edge

LEMMA SoleLeave ==
  ASSUME Typed, NEW p \in Procs, Sole(p), Leave(p), UNCHANGED commands,
         commands = 0 => row' = "queued"
  PROVE  Sole(p)'
<1>1. pc'[p] = "idle"
  BY DEF Leave, Typed, TypeOK
<1> QED
  BY <1>1 DEF Sole, Holds, RowBehind, Unread

LEMMA SoleCall ==
  ASSUME Typed, NEW p \in Procs, Sole(p), NEW from, NEW op, NEW to,
         <<from, op, to>> \in Calls, Call(p, from, op, to)
  PROVE  Sole(p)'
<1> DEFINE m == MoveOf(eng[p], op)
<1>1. m \in Moves /\ m.op = op
  BY MoveChosen DEF Call, EngineMoves
<1>2. /\ eng' = [eng EXCEPT ![p] = After(eng[p], m)]
      /\ pc' = [pc EXCEPT ![p] = to] /\ pc[p] = from
      /\ row' = row /\ commands' = commands /\ mem' = mem
  BY DEF Call, EngineMoves, GoTo
<1> HIDE DEF m
<1>3. eng'[p].state = m.to /\ pc'[p] = to
  BY <1>2 DEF Typed, TypeOK, After
<1>4. Holds(p)'
  BY <1>1, <1>3, MoveLeads DEF Holds, Calls
<1>5. row # "merged" /\ commands # 0
  BY <1>2 DEF Sole, RowBehind, Unread, Calls
<1>6. row = "approved" => <<from, op, to>> \in
        {<<"merging", "approve_merge", "merged">>,
         <<"c_move", "reconcile_manual_completion", "c_saved">>}
  BY <1>2 DEF Sole, RowBehind, Unread, Merging, Calls
<1>7. to # "a_record"
  BY CallShape
<1>8. RowBehind(p)'
  BY <1>1, <1>2, <1>3, <1>5, <1>6, <1>7, MoveLeads DEF RowBehind, Merging
<1> QED
  BY <1>4, <1>8 DEF Sole

\* a step from a label that no stored approval has been read at
LEMMA SoleGoes ==
  ASSUME NEW p \in Procs, Sole(p), NEW label, pc'[p] = label,
         label \notin SaveLabels \cup {"a_record"}, label # "idle",
         commands' # 0, row' \notin {"approved", "merged"}
  PROVE  Sole(p)'
BY DEF Sole, Holds, RowBehind, SaveLabels

LEMMA SoleSave ==
  ASSUME Typed, NEW p \in Procs, Sole(p), SaveManifest(p)
  PROVE  Sole(p)'
<1>1. pc[p] \in SaveLabels /\ row' = eng[p].state /\ commands' = commands
  BY DEF SaveManifest
<1>2. pc[p] # "idle" /\ commands # 0
  BY <1>1 DEF SaveLabels, Sole, RowBehind
<1>3. CASE pc[p] \in LastSaves
  BY <1>1, <1>2, <1>3, SoleLeave DEF SaveManifest
<1>4. CASE pc[p] \notin LastSaves
  <2>1. pc' = [pc EXCEPT ![p] = Continuation(p)] /\ UNCHANGED <<eng, mem>>
    BY <1>4 DEF SaveManifest, GoTo
  <2>2. pc'[p] = Continuation(p) /\ eng'[p].state = eng[p].state
    BY <2>1 DEF Typed, TypeOK
  <2>3. Continuation(p) \in {"x_agent", "x_retry", "h_submit", "r_dispatch",
                            "a_record", "b_confirm", "validate", "c_record"}
    BY <1>1, <1>4, ContinuationShape
  <2>4. Holds(p)'
    BY <2>2, <2>3 DEF Holds
  <2>5. row' \in {"in_flight", "failed", "under_review", "approved"}
    BY <1>1, <1>4 DEF Sole, Holds, SaveLabels, LastSaves
  <2>6. row' = "approved" => Continuation(p) \in {"validate", "c_record"}
    BY <1>1, <1>4 DEF Sole, Holds, SaveLabels, LastSaves, Continuation
  <2>7. eng[p].state = "approved" => Continuation(p) # "a_record"
    BY <2>6, <1>1
  <2> QED
    BY <2>2, <2>3, <2>4, <2>5, <2>6, <2>7, <1>1, <1>2 DEF Sole, RowBehind, Merging
<1> QED
  BY <1>3, <1>4

LEMMA SoleStart ==
  ASSUME Typed, NEW p \in Procs, Sole(p), Start(p)
  PROVE  Sole(p)'
<1>1. commands' # 0 /\ row' = row
  BY CommandsAreKnown DEF Start, Execute, Review, Approve, Complete, Run, Begin, shared,
     Typed, TypeOK
<1>2. CASE Execute(p) \/ Review(p)
  <2>1. row \notin {"approved", "merged"}
    BY <1>2 DEF Execute, Review
  <2>2. pc'[p] \in {"x_start", "x_agent", "h_start", "h_submit", "r_dispatch"}
    BY <1>2 DEF Execute, Review, Begin, Typed, TypeOK
  <2>3. pc'[p] \notin SaveLabels \cup {"a_record"} /\ pc'[p] # "idle"
    BY <2>2 DEF SaveLabels
  <2> QED
    BY <1>1, <2>1, <2>3, SoleGoes
<1>3. CASE Approve(p) \/ Complete(p)
  <2>1. pc'[p] \in {"a_load", "c_evidence"}
    BY <1>3 DEF Approve, Complete, Begin, Typed, TypeOK
  <2> QED
    BY <1>1, <2>1 DEF Sole, Holds, RowBehind, Unread
<1>4. CASE Run(p)
  <2>1. row = "queued"
    BY <1>4 DEF Run, Sole, RowBehind
  <2>2. pc'[p] = "b_launch"
    BY <1>4 DEF Run, Begin, Typed, TypeOK
  <2>3. pc'[p] \notin SaveLabels \cup {"a_record"} /\ pc'[p] # "idle"
    BY <2>2 DEF SaveLabels
  <2> QED
    BY <1>1, <2>1, <2>3, SoleGoes
<1> QED
  BY <1>2, <1>3, <1>4 DEF Start

LEMMA SoleApprove ==
  ASSUME IInv, NEW p \in Procs, Sole(p),
         \/ ApproveLoad(p) \/ ApproveEvidence(p) \/ ApproveRecord(p) \/ ValidateMerge(p)
         \/ \E choice \in {"approve", "reject"} : ApproveConfirm(p, choice)
  PROVE  Sole(p)'
<1>1. Typed
  BY DEF IInv
<1>2. commands' = commands /\ row' = row
  BY DEF ApproveLoad, ApproveEvidence, ApproveRecord, Records, ValidateMerge, ApproveConfirm, shared
<1>3. pc[p] \in {"a_load", "a_evidence", "a_record", "validate", "a_confirm"}
  BY DEF ApproveLoad, ApproveEvidence, ApproveRecord, ValidateMerge, ApproveConfirm
<1>4. commands # 0
  BY <1>3 DEF Sole, RowBehind
<1>5. CASE Leave(p)
  BY <1>1, <1>2, <1>4, <1>5, SoleLeave
<1>6. CASE row = "merged" /\ ~Leave(p)
  <2>1. pc[p] = "a_load"
    BY <1>3, <1>6 DEF Sole, RowBehind, Unread
  <2>2. ApproveLoad(p)
    BY <2>1 DEF ApproveEvidence, ApproveRecord, ValidateMerge, ApproveConfirm
  <2> QED
    BY <1>6, <2>2 DEF ApproveLoad
<1>7. CASE row # "merged" /\ ApproveLoad(p) /\ ~Leave(p)
  <2>1. GoTo(p, "a_evidence") /\ ReadManifest(p)
    BY <1>7 DEF ApproveLoad
  <2>2. pc'[p] = "a_evidence" /\ eng'[p].state = row
    BY <2>1, <1>1, ReadTyped DEF GoTo, Typed, TypeOK
  <2> QED
    BY <2>2, <1>2, <1>4, <1>7 DEF Sole, Holds, RowBehind, Merging
<1>8. CASE row # "merged" /\ ApproveEvidence(p)
  <2>1. pc'[p] = "a_confirm" /\ eng' = eng /\ pc[p] = "a_evidence"
    BY <1>1, <1>8 DEF ApproveEvidence, GoTo, Typed, TypeOK
  <2> QED
    BY <2>1, <1>2, <1>4, <1>8 DEF Sole, Holds, RowBehind, Merging, Unread
<1>9. ASSUME row # "merged", NEW choice \in {"approve", "reject"}, ApproveConfirm(p, choice)
      PROVE  Sole(p)'
  <2>1. /\ pc[p] = "a_confirm" /\ eng' = eng
        /\ pc'[p] \in {"h_start", "h_submit", "a_record"}
        /\ pc'[p] \in {"h_start", "h_submit"} => eng[p].state \in {"queued", "in_flight"}
    BY <1>1, <1>9 DEF ApproveConfirm, GoTo, Typed, TypeOK
  <2>2. pc'[p] = "a_record" => eng[p].state \in Decidable(choice)
    BY <1>1, <1>9 DEF ApproveConfirm, GoTo, Typed, TypeOK
  <2>3. mem'[p].choice = choice
    BY <1>1, <1>9 DEF ApproveConfirm, Typed, TypeOK
  <2>4. pc'[p] = "a_record" /\ eng[p].state = "approved" => choice = "approve"
    BY <2>2 DEF Decidable
  <2>5. row = "approved" => eng[p].state = "approved"
    BY <2>1 DEF Sole, RowBehind, Unread
  <2> QED
    BY <2>1, <2>3, <2>4, <2>5, <1>2, <1>4, <1>9 DEF Sole, Holds, RowBehind, Merging
<1>10. CASE row # "merged" /\ ApproveRecord(p)
  <2>1. pc[p] = "a_record" /\ eng' = eng
    BY <1>10 DEF ApproveRecord, Records
  <2>2. pc'[p] \in {"rejecting", "a_complete", "validate"}
    BY <1>1, <1>10 DEF ApproveRecord, GoTo, Typed, TypeOK
  <2>3. eng[p].state = "approved" => pc'[p] = "validate"
    <3>1. eng[p].state = "approved" => mem[p].choice = "approve"
      BY <2>1 DEF Sole, RowBehind
    <3> QED
      BY <3>1, <1>1, <1>10 DEF ApproveRecord, GoTo, Typed, TypeOK
  <2>4. row = "approved" => eng[p].state = "approved"
    BY <2>1 DEF Sole, RowBehind, Unread
  <2> QED
    BY <2>1, <2>2, <2>3, <2>4, <1>2, <1>4, <1>10 DEF Sole, Holds, RowBehind, Merging
<1>11. CASE row # "merged" /\ ValidateMerge(p) /\ ~Leave(p)
  <2>1. pc[p] = "validate" /\ GoTo(p, "merging") /\ eng' = eng
    BY <1>11 DEF ValidateMerge
  <2>2. pc'[p] = "merging"
    BY <2>1, <1>1 DEF GoTo, Typed, TypeOK
  <2> QED
    BY <2>1, <2>2, <1>2, <1>4, <1>11 DEF Sole, Holds, RowBehind, Merging, Unread
<1> QED
  BY <1>5, <1>6, <1>7, <1>8, <1>9, <1>10, <1>11

LEMMA SoleComplete ==
  ASSUME IInv, NEW p \in Procs, Sole(p),
         CompleteEvidence(p) \/ CompleteConfirm(p) \/ CompleteLoad(p) \/ CompleteRecord(p)
  PROVE  Sole(p)'
<1>1. Typed
  BY DEF IInv
<1>2. commands' = commands /\ row' = row
  BY DEF CompleteEvidence, CompleteConfirm, CompleteLoad, CompleteRecord, shared
<1>3. pc[p] \in {"c_evidence", "c_confirm", "c_load", "c_record"}
  BY DEF CompleteEvidence, CompleteConfirm, CompleteLoad, CompleteRecord
<1>4. commands # 0
  BY <1>3 DEF Sole, RowBehind
<1>5. CASE Leave(p)
  BY <1>1, <1>2, <1>4, <1>5, SoleLeave
<1>6. CASE CompleteEvidence(p) \/ CompleteConfirm(p)
  <2>1. pc'[p] \in {"c_confirm", "c_load"}
    BY <1>1, <1>6 DEF CompleteEvidence, CompleteConfirm, GoTo, Typed, TypeOK
  <2> QED
    BY <2>1, <1>2, <1>4 DEF Sole, Holds, RowBehind, Unread
<1>7. CASE CompleteLoad(p) /\ ~Leave(p)
  <2>1. GoTo(p, "c_move") /\ ReadManifest(p) /\ row # "merged"
    BY <1>7 DEF CompleteLoad, NotReconcilable
  <2>2. pc'[p] = "c_move" /\ eng'[p].state = row
    BY <2>1, <1>1, ReadTyped DEF GoTo, Typed, TypeOK
  <2> QED
    BY <2>1, <2>2, <1>2, <1>4 DEF Sole, Holds, RowBehind, Merging
<1> QED
  BY <1>5, <1>6, <1>7 DEF CompleteRecord

LEMMA SoleRun ==
  ASSUME IInv, NEW p \in Procs, Sole(p),
         \/ RunLaunch(p) \/ RunAgent(p) \/ RunSubmit(p) \/ RunRecord(p) \/ RunWalk(p)
         \/ \E choice \in {"approve", "reject"} : RunDecide(p, choice)
  PROVE  Sole(p)'
<1>1. Typed
  BY DEF IInv
<1>2. commands' = commands /\ row' \in {row, "in_flight"}
  BY DEF RunLaunch, RunAgent, RunSubmit, RunRecord, Records, RunWalk, RunDecide, shared
<1>3. pc[p] \in {"b_launch", "b_agent", "b_submit", "b_record", "b_walk", "b_confirm"}
  BY DEF RunLaunch, RunAgent, RunSubmit, RunRecord, RunWalk, RunDecide
<1>4. commands # 0 /\ row \notin {"approved", "merged"}
  BY <1>3 DEF Sole, RowBehind, Unread, Merging
<1>5. row' \notin {"approved", "merged"}
  BY <1>2, <1>4
<1>6. CASE Leave(p)
  BY <1>1, <1>2, <1>4, <1>6, SoleLeave
<1>7. CASE RunSubmit(p)
  <2> DEFINE e == Build("in_flight", NoSub)
             m == MoveOf(e, "submit_for_review")
  <2>1. e.state = "in_flight"
    BY BuildType DEF States
  <2>2. m.to = "under_review"
    <3>1. Edge("submit_for_review", "in_flight", "under_review") \in Moves
      BY DEF Moves, Transitions
    <3>2. \E n \in Moves : n.op = "submit_for_review" /\ n.from = e.state
      BY <2>1, <3>1 DEF Edge
    <3>3. m \in Moves /\ m.op = "submit_for_review"
      BY <3>2 DEF MoveOf
    <3> HIDE DEF m
    <3> QED
      BY <3>3, MoveLeads
  <2>3. eng' = [eng EXCEPT ![p] = After(e, m)] /\ GoTo(p, "b_submitted")
    BY <1>7 DEF RunSubmit
  <2> HIDE DEF e, m
  <2>4. pc'[p] = "b_submitted" /\ eng'[p].state = "under_review"
    BY <2>2, <2>3, <1>1 DEF GoTo, After, Typed, TypeOK
  <2> QED
    BY <2>4, <1>2, <1>4, <1>5 DEF Sole, Holds, RowBehind
<1>8. CASE ~RunSubmit(p) /\ ~Leave(p)
  <2>1. pc'[p] \in {"b_agent", "b_submit", "b_record", "rejecting", "b_walk", "b_complete"}
    BY <1>1, <1>8 DEF RunLaunch, RunAgent, RunRecord, RunWalk, RunDecide, GoTo, Typed, TypeOK
  <2>2. pc'[p] \notin SaveLabels \cup {"a_record"} /\ pc'[p] # "idle"
    BY <2>1 DEF SaveLabels
  <2> QED
    BY <2>2, <1>2, <1>4, <1>5, SoleGoes
<1> QED
  BY <1>6, <1>7, <1>8

LEMMA SoleQuits ==
  ASSUME Typed, NEW p \in Procs, Sole(p), Quits(p) \/ Dispatch(p)
  PROVE  Sole(p)'
<1>1. Leave(p) /\ UNCHANGED <<row, commands>>
  BY DEF Quits, Dispatch, shared
<1>2. commands = 0 => row' = "queued"
  BY <1>1 DEF Sole, RowBehind
<1> QED
  BY <1>1, <1>2, SoleLeave

LEMMA SoleStep ==
  ASSUME IInv, NEW p \in Procs, Sole(p), Step(p) \/ Die(p)
  PROVE  Sole(p)'
<1>1. Typed
  BY DEF IInv
<1>2. CASE Start(p)
  BY <1>1, <1>2, SoleStart
<1>3. CASE SaveManifest(p)
  BY <1>1, <1>3, SoleSave
<1>4. CASE Die(p)
  BY <1>1, <1>4, SoleQuits DEF Die
<1>5. CASE UserDecides(p)
  <2>1. PICK choice \in {"approve", "reject"} :
          \/ ApproveConfirm(p, choice) \/ ApproveRefuses(p, choice)
          \/ RunDecide(p, choice)
          \/ CompleteConfirm(p) \/ CompleteDeclined(p)
    BY <1>5 DEF UserDecides
  <2>2. ApproveRefuses(p, choice) \/ CompleteDeclined(p) => Quits(p)
    BY DEF ApproveRefuses, CompleteDeclined
  <2> QED
    BY <1>1, <2>1, <2>2, SoleApprove, SoleComplete, SoleRun, SoleQuits
<1>6. CASE ExecuteStep(p)
  <2>1. \/ Quits(p)
        \/ Call(p, "x_start", "start", "x_started")
        \/ Call(p, "x_agent", "fail", "x_ended")
        \/ Call(p, "x_agent", "submit_for_verification", "x_verify")
        \/ Call(p, "x_verify", "verification_passed", "x_ended")
        \/ Call(p, "x_verify", "verification_failed", "x_unverified")
        \/ Call(p, "x_retry", "retry", "x_retried")
    BY <1>6 DEF ExecuteStep, ExecuteStart, AgentFails, AgentSucceeds, AgentClaims,
       VerificationPasses, VerificationFails, VerificationRaises, AutoRepairs, GivesUp
  <2> QED
    BY <1>1, <2>1, SoleCall, SoleQuits DEF Calls
<1>7. CASE ReviewStep(p)
  <2>1. \/ Dispatch(p)
        \/ Call(p, "h_start", "start", "h_started")
        \/ Call(p, "h_submit", "submit_for_review", "h_submitted")
    BY <1>7 DEF ReviewStep, HandoffStart, HandoffSubmit
  <2> QED
    BY <1>1, <2>1, SoleCall, SoleQuits DEF Calls
<1>8. CASE ApproveStep(p)
  <2>1. \/ ApproveLoad(p) \/ ApproveEvidence(p) \/ ApproveRecord(p) \/ ValidateMerge(p)
        \/ Quits(p)
        \/ Call(p, "a_complete", "complete_review", "a_approved")
        \/ Call(p, "merging", "approve_merge", "merged")
        \/ Call(p, "rejecting", "reject", "rejected")
    BY <1>8 DEF ApproveStep, ApproveComplete, ApproveMerge, Reject
  <2> QED
    BY <1>1, <2>1, SoleApprove, SoleCall, SoleQuits DEF Calls
<1>9. CASE CompleteStep(p)
  <2>1. \/ CompleteEvidence(p) \/ CompleteLoad(p) \/ CompleteRecord(p)
        \/ Call(p, "c_move", "reconcile_manual_completion", "c_saved")
    BY <1>9 DEF CompleteStep, CompleteMove
  <2> QED
    BY <1>1, <2>1, SoleComplete, SoleCall DEF Calls
<1>10. CASE RunStep(p)
  <2>1. \/ RunLaunch(p) \/ RunAgent(p) \/ RunSubmit(p) \/ RunRecord(p) \/ RunWalk(p)
        \/ Quits(p)
        \/ Call(p, "b_complete", "complete_review", "b_approved")
    BY <1>10 DEF RunStep, RunAgentRaises, RunComplete
  <2> QED
    BY <1>1, <2>1, SoleRun, SoleCall, SoleQuits DEF Calls
<1> QED
  BY <1>2, <1>3, <1>4, <1>5, <1>6, <1>7, <1>8, <1>9, <1>10 DEF Step

\* only a save and the launch of run write the row
LEMMA RowSteps ==
  ASSUME NEW p \in Procs, Step(p) \/ Die(p), row' # row
  PROVE  SaveManifest(p) \/ RunLaunch(p)
<1>1. CASE Start(p)
  BY <1>1 DEF Start, Execute, Review, Approve, Complete, Run, shared
<1>2. CASE UserDecides(p)
  BY <1>2 DEF UserDecides, ApproveConfirm, ApproveRefuses, CompleteConfirm, CompleteDeclined,
     RunDecide, Quits, shared
<1>3. CASE ExecuteStep(p)
  BY <1>3 DEF ExecuteStep, ExecuteStart, AgentFails, AgentSucceeds, AgentClaims,
     VerificationPasses, VerificationFails, VerificationRaises, AutoRepairs, GivesUp,
     Call, EngineMoves, Quits, shared
<1>4. CASE ReviewStep(p)
  BY <1>4 DEF ReviewStep, HandoffStart, HandoffSubmit, Dispatch, Call, EngineMoves
<1>5. CASE ApproveStep(p)
  BY <1>5 DEF ApproveStep, ApproveLoad, ApproveEvidence, ApproveRecord, Records, ApproveComplete,
     ValidateMerge, ApproveMerge, Reject, Call, EngineMoves, Quits, shared
<1>6. CASE CompleteStep(p)
  BY <1>6 DEF CompleteStep, CompleteEvidence, CompleteLoad, CompleteMove, CompleteRecord,
     Call, EngineMoves, shared
<1>7. CASE RunStep(p)
  BY <1>7 DEF RunStep, RunAgent, RunAgentRaises, RunSubmit, RunRecord, Records,
     RunWalk, RunComplete, Call, EngineMoves, Quits, shared
<1>8. CASE Die(p)
  BY <1>8 DEF Die, Quits, shared
<1> QED
  BY <1>1, <1>2, <1>3, <1>4, <1>5, <1>6, <1>7, <1>8 DEF Step

LEMMA RowLeads ==
  ASSUME IInv, NEW p \in Procs, Sole(p), Step(p) \/ Die(p), row' # row
  PROVE  ManifestRow!Next
<1>1. row \in States /\ row \notin {"deployed", "cancelled"}
  BY MoveShape DEF IInv, Typed, TypeOK, Global, Entered
<1>2. CASE RunLaunch(p)
  <2>1. row' = "in_flight" /\ row \notin {"approved", "merged"}
    BY <1>2 DEF RunLaunch, Sole, RowBehind, Unread, Merging
  <2> QED
    BY <1>1, <2>1 DEF ManifestRow!Next, ManifestRow!Successors, States
<1>3. CASE SaveManifest(p)
  <2>1. row' = eng[p].state /\ pc[p] \in SaveLabels
    BY <1>3 DEF SaveManifest
  <2>2. row' \in States \ {"queued"}
    BY <2>1 DEF Sole, Holds, SaveLabels, States
  <2>3. row # "merged"
    BY <2>1 DEF Sole, RowBehind, Unread, SaveLabels
  <2>4. row = "approved" => row' = "merged"
    BY <2>1 DEF Sole, Holds, RowBehind, Unread, Merging, SaveLabels
  <2> QED
    BY <1>1, <2>2, <2>3, <2>4 DEF ManifestRow!Next, ManifestRow!Successors
<1> QED
  BY <1>2, <1>3, RowSteps

(* A single process, whatever commands it runs and wherever it dies, moves *)
(* the stored state as the abstract lifecycle allows: never back to queued,*)
(* never out of an approval but into the merge, never out of a merge.      *)
THEOREM RowFollowsLifecycle ==
  ASSUME NEW p, Procs = {p}
  PROVE  Spec => ImplementsLifecycle
<1>1. Init => Sole(p)
  BY DEF Init, Sole, Holds, RowBehind, Unread
<1>2. IInv /\ Next => Step(p) \/ Die(p)
  BY DEF Next, Step
<1>3. IInv /\ Sole(p) /\ [Next]_vars => Sole(p)'
  <2>1. UNCHANGED vars /\ Sole(p) => Sole(p)'
    BY DEF vars, shared, Sole, Holds, RowBehind
  <2> QED
    BY <1>2, <2>1, SoleStep
<1>4. IInv /\ Sole(p) /\ [Next]_vars => [ManifestRow!Next]_row
  <2>1. UNCHANGED vars => row' = row
    BY DEF vars, shared
  <2> QED
    BY <1>2, <2>1, RowLeads
<1>5. Init => ManifestRow!Init
  BY DEF Init, ManifestRow!Init
<1> QED
  BY <1>1, <1>3, <1>4, <1>5, Inductive, PTL DEF Spec, ImplementsLifecycle, ManifestRow!Spec

-----------------------------------------------------------------------------
(* The ratings.                                                            *)
Grades == [tier : Tiers, confidence : 1..5, class : 1..5]

LEMMA Joined ==
  ASSUME NEW S, NEW s \in Seq(S), NEW t \in Seq(S)
  PROVE  s \o t \in Seq(S) /\ Len(s \o t) = Len(s) + Len(t)
BY ConcatProperties

LEMMA Elements ==
  ASSUME NEW S, NEW s \in Seq(S)
  PROVE  \A i \in 1..Len(s) : s[i] \in S
OBVIOUS

LEMMA TableGraded == \A i \in 1..38 : Table[i] \in Grades
<1>1. ChangesToProducts \in Seq(Grades) /\ Len(ChangesToProducts) = 15
  BY DEF ChangesToProducts, Grades, Tiers, Rated
<1>2. ChangesToSystems \in Seq(Grades) /\ Len(ChangesToSystems) = 15
  BY DEF ChangesToSystems, Grades, Tiers, Rated
<1>3. ChangesToGovernance \in Seq(Grades) /\ Len(ChangesToGovernance) = 8
  BY DEF ChangesToGovernance, Grades, Tiers, Rated
<1> DEFINE both == ChangesToProducts \o ChangesToSystems
<1>4. /\ both \in Seq(Grades)
      /\ Len(both) = Len(ChangesToProducts) + Len(ChangesToSystems)
  BY <1>1, <1>2, Joined
<1> HIDE DEF both
<1>5. /\ both \o ChangesToGovernance \in Seq(Grades)
      /\ Len(both \o ChangesToGovernance) = Len(both) + Len(ChangesToGovernance)
  BY <1>3, <1>4, Joined
<1>6. Table \in Seq(Grades) /\ Len(Table) = 38
  BY <1>1, <1>2, <1>3, <1>4, <1>5 DEF Table, both
<1> QED
  BY <1>6, Elements

LEMMA NoDowngrade ==
  ASSUME NEW r \in Grades
  PROVE  ~CheckDowngrade(r, r)
<1>1. r.tier \in Tiers /\ r.confidence \in 1..5
  BY DEF Grades
<1>2. TierRank[r.tier] \in 1..3
  BY <1>1 DEF TierRank, Tiers
<1> QED
  BY <1>1, <1>2 DEF CheckDowngrade

LEMMA AggregateOfTwo ==
  ASSUME NEW r \in Grades, NEW s \in Grades
  PROVE  ~CheckDowngrade(Aggregate({r, s}), r) /\ ~CheckDowngrade(Aggregate({r, s}), s)
<1> DEFINE tiers == {x.tier : x \in {r, s}}
           levels == {x.confidence : x \in {r, s}}
           t == CHOOSE y \in tiers : \A x \in {r, s} : TierRank[x.tier] <= TierRank[y]
           c == Highest(levels)
<1>1. r.tier \in Tiers /\ s.tier \in Tiers /\ r.confidence \in 1..5 /\ s.confidence \in 1..5
  BY DEF Grades
<1>2. TierRank[r.tier] \in 1..3 /\ TierRank[s.tier] \in 1..3
  BY <1>1 DEF TierRank, Tiers
<1>3. r.tier \in tiers /\ s.tier \in tiers /\ levels = {r.confidence, s.confidence}
  OBVIOUS
<1>4. \E y \in tiers : \A x \in {r, s} : TierRank[x.tier] <= TierRank[y]
  <2>1. CASE TierRank[r.tier] <= TierRank[s.tier]
    <3>1. \A x \in {r, s} : TierRank[x.tier] <= TierRank[s.tier]
      BY <1>2, <2>1
    <3> QED
      BY <1>3, <3>1
  <2>2. CASE TierRank[s.tier] <= TierRank[r.tier]
    <3>1. \A x \in {r, s} : TierRank[x.tier] <= TierRank[r.tier]
      BY <1>2, <2>2
    <3> QED
      BY <1>3, <3>1
  <2> QED
    BY <1>2, <2>1, <2>2
<1>5. t \in tiers /\ \A x \in {r, s} : TierRank[x.tier] <= TierRank[t]
  BY <1>4
<1>6. TierRank[t] \in 1..3
  BY <1>2, <1>5
<1>7. \E x \in levels : \A y \in levels : y <= x
  BY <1>1, <1>3
<1>8. c \in levels /\ \A y \in levels : y <= c
  BY <1>7 DEF Highest
<1>9. c \in 1..5 /\ r.confidence <= c /\ s.confidence <= c
  BY <1>1, <1>3, <1>8
<1>10. Aggregate({r, s}).tier = t /\ Aggregate({r, s}).confidence = c
  BY DEF Aggregate, Rated
<1> HIDE DEF t, c
<1> QED
  BY <1>1, <1>2, <1>5, <1>6, <1>9, <1>10 DEF CheckDowngrade

LEMMA HintsOrdered ==
  ASSUME NEW h \in Hints
  PROVE  /\ ~CheckDowngrade(ClassifyHints(h), ClassifyHints([h EXCEPT !.risk = ""]))
         /\ ~CheckDowngrade(ClassifyHints([h EXCEPT !.sensitive = TRUE]), ClassifyHints(h))
         /\ ~CheckDowngrade(ClassifyHints([h EXCEPT !.radius = "system"]), ClassifyHints(h))
<1> DEFINE m == [h EXCEPT !.risk = ""] s == [h EXCEPT !.sensitive = TRUE]
           w == [h EXCEPT !.radius = "system"]
           Tier(k) == IF k.risk = "" THEN Baseline(k) ELSE Higher(Baseline(k), k.risk)
<1>1. /\ h.radius \in {"isolated", "module", "system", "cross-cutting"}
      /\ h.sensitive \in BOOLEAN /\ h.risk \in {"", "A", "B", "C"}
  BY DEF Hints
<1>2. /\ m.radius = h.radius /\ m.sensitive = h.sensitive /\ m.risk = ""
      /\ s.radius = h.radius /\ s.sensitive = TRUE /\ s.risk = h.risk
      /\ w.radius = "system" /\ w.sensitive = h.sensitive /\ w.risk = h.risk
  BY DEF Hints
<1> DEFINE ofH == ClassifyHints(h) ofM == ClassifyHints(m)
           ofS == ClassifyHints(s) ofW == ClassifyHints(w)
<1>3. /\ ofH.tier = Tier(h) /\ ofM.tier = Tier(m) /\ ofS.tier = Tier(s) /\ ofW.tier = Tier(w)
      /\ ofH.confidence = 2 /\ ofM.confidence = 2 /\ ofS.confidence = 2 /\ ofW.confidence = 2
  BY DEF ClassifyHints, Rated
<1> HIDE DEF m, s, w
<1>4. Baseline(h) \in Tiers /\ Baseline(m) = Baseline(h)
      /\ Baseline(s) = "A" /\ Baseline(w) = "A"
  BY <1>1, <1>2 DEF Baseline, Tiers
<1>5. /\ \A t \in Tiers : TierRank[t] \in 1..3 /\ TierRank[t] <= TierRank["A"]
      /\ \A t, u \in Tiers : /\ Higher(t, u) \in Tiers
                             /\ TierRank[t] <= TierRank[Higher(t, u)]
                             /\ TierRank[u] <= TierRank[Higher(t, u)]
                             /\ Higher("A", u) = "A"
  BY DEF TierRank, Tiers, Higher
<1>6. Tier(m) = Baseline(h)
  BY <1>2, <1>4
<1>7. Tier(h) \in Tiers /\ TierRank[Baseline(h)] <= TierRank[Tier(h)]
  <2>1. CASE h.risk = ""
    <3>1. Tier(h) = Baseline(h)
      BY <2>1
    <3>2. TierRank[Baseline(h)] \in 1..3
      BY <1>4, <1>5
    <3> HIDE DEF Tier
    <3> QED
      BY <1>4, <3>1, <3>2
  <2>2. CASE h.risk \in Tiers
    <3>1. Tier(h) = Higher(Baseline(h), h.risk)
      BY <2>2 DEF Tiers
    <3> QED
      BY <1>4, <1>5, <2>2, <3>1
  <2> QED
    BY <1>1, <2>1, <2>2 DEF Tiers
<1>8. Tier(s) = "A" /\ Tier(w) = "A" /\ "A" \in Tiers
  <2>1. \A u \in Tiers : Higher("A", u) = "A"
    BY <1>5 DEF Tiers
  <2> QED
    BY <1>1, <1>2, <1>4, <2>1 DEF Tiers
<1>9. TierRank[Tier(h)] \in 1..3 /\ TierRank[Baseline(h)] \in 1..3 /\ TierRank["A"] \in 1..3
      /\ TierRank[Tier(h)] <= TierRank["A"]
  BY <1>4, <1>5, <1>7, <1>8
<1> HIDE DEF Tier, ofH, ofM, ofS, ofW
<1>10. ~CheckDowngrade(ofH, ofM)
  BY <1>3, <1>6, <1>7, <1>9 DEF CheckDowngrade
<1>11. ~CheckDowngrade(ofS, ofH)
  BY <1>3, <1>8, <1>9 DEF CheckDowngrade
<1>12. ~CheckDowngrade(ofW, ofH)
  BY <1>3, <1>8, <1>9 DEF CheckDowngrade
<1> QED
  BY <1>10, <1>11, <1>12 DEF m, s, w, ofH, ofM, ofS, ofW

LEMMA RequestsOrdered ==
  ASSUME NEW request \in Requests
  PROVE  /\ RateCautiously(request) \in Ratings /\ RateForBuild(request) \in Ratings
         /\ ~CheckDowngrade(RateCautiously(request), RateForBuild(request))
         /\ ClassifyTask(request) \subseteq {RateCautiously(request)} \cap {RateForBuild(request)}
<1> DEFINE r == Table[request.best] matched == Classify(request).matched
<1>1. request.best \in SampledRules
  BY DEF Requests
<1>2. r \in Grades /\ r \in Ratings
  BY <1>1, TableGraded, RegistryBounds DEF Ratings
<1>3. matched = {} \/ matched = {r}
  BY DEF Classify
<1> HIDE DEF matched, r
<1>4. CASE matched = {}
  <2>1. RateCautiously(request) = Rated("A", 3, 5) /\ RateForBuild(request) = Assisted
        /\ ClassifyTask(request) = {}
    BY <1>4 DEF RateCautiously, RateForBuild, ClassifyTask, Elect, matched
  <2>2. ~CheckDowngrade(Rated("A", 3, 5), Assisted)
    BY DEF CheckDowngrade, Rated, Assisted, TierRank
  <2> QED
    BY <2>1, <2>2 DEF Ratings
<1>5. CASE matched = {r}
  <2>1. RateCautiously(request) = r /\ RateForBuild(request) = r
        /\ ClassifyTask(request) = {r}
    BY <1>5 DEF RateCautiously, RateForBuild, ClassifyTask, Elect, matched
  <2> QED
    BY <1>2, <2>1, NoDowngrade
<1> QED
  BY <1>3, <1>4, <1>5

LEMMA Ordered == RatingsOrdered
<1>1. \A t, u \in Tiers : TierRank[t] <= TierRank[u] => TimeToLive[u] <= TimeToLive[t]
  BY DEF TierRank, TimeToLive, Tiers
<1>2. \A i, j \in 1..38 : LET both == Aggregate({Table[i], Table[j]}) IN
        ~CheckDowngrade(both, Table[i]) /\ ~CheckDowngrade(both, Table[j])
  BY TableGraded, AggregateOfTwo
<1> QED
  BY <1>1, <1>2, RequestsOrdered, HintsOrdered DEF RatingsOrdered

-----------------------------------------------------------------------------
(* What a clerk relies on where it stands: a manifest that is not stored   *)
(* yet is its alone, and of a stored one no command changes who made it.   *)
Makers == {"manifest", "auto", "build", "spec"}
StatesStored ==
  {"queued", "in_flight", "under_review", "approved", "merged", "rejected", "failed"}
Payloads == [rating : Ratings, state : StatesStored]
Seals == {{}} \cup {{payload} : payload \in Payloads}
Copies ==
  [by : Makers \cup {"none"}, rating : Ratings, state : StatesStored, born : Days, seal : Seals]
Errands ==
  [at : {"idle", "create", "store", "note", "sign", "seal", "start", "launch", "agent", "decide"},
   cmd : Makers \cup {"none", "execute", "approve"}, id : Ids \cup {0}, copy : Copies]

RegistryTyped ==
  /\ rows \in [Ids -> Copies] /\ clerk \in [Clerks -> Errands]
  /\ noted \subseteq [id : Ids, by : Makers] /\ signed \subseteq Ids /\ today \in Days

Unstored(p) == clerk[p].at \in {"create", "store"}
Holding(p) == clerk[p].at \in {"sign", "seal", "start", "launch", "agent", "decide"}

\* the id of a manifest that is not stored is nobody else's
Apart == \A p \in Clerks : Unstored(p) => \A q \in Clerks \ {p} : clerk[q].id # clerk[p].id

ErrandFits(p) ==
  /\ clerk[p].at # "idle" => clerk[p].id \in Ids
  /\ Unstored(p) =>
       /\ clerk[p].cmd \in {"manifest", "auto", "build"} /\ clerk[p].copy.by = clerk[p].cmd
       /\ rows[clerk[p].id].by = "none" /\ clerk[p].copy.seal = {}
  /\ clerk[p].at = "store" => [id |-> clerk[p].id, by |-> clerk[p].cmd] \in noted
  /\ clerk[p].at = "note" => clerk[p].cmd = "spec" /\ rows[clerk[p].id].by = "spec"
  /\ Holding(p) => /\ clerk[p].copy.by # "none"
                   /\ rows[clerk[p].id].by = clerk[p].copy.by

\* which commands get there, and what they have behind them
SealFits(p) ==
  /\ clerk[p].at \in {"sign", "seal"} => clerk[p].cmd \in {"build", "approve"}
  /\ clerk[p].at = "seal" => clerk[p].id \in signed
  /\ clerk[p].at = "decide" => clerk[p].cmd = "approve"
  /\ clerk[p].at \in {"start", "launch", "agent"} => clerk[p].cmd \in {"build", "execute"}
  /\ \/ clerk[p].at = "decide"
     \/ clerk[p].at \in {"start", "launch", "agent"} /\ clerk[p].cmd = "build"
     => clerk[p].copy.seal # {}
  /\ clerk[p].copy.seal # {} =>
       /\ clerk[p].id \in signed
       /\ \A payload \in clerk[p].copy.seal : payload.rating = clerk[p].copy.rating

UnstoredUnsealed == \A m \in Ids : rows[m].by = "none" => rows[m].seal = {}

RegistryInv ==
  /\ RegistryTyped /\ Apart /\ UnstoredUnsealed /\ CreationOnRecord /\ SealsOnRecord
  /\ \A p \in Clerks : ErrandFits(p) /\ SealFits(p)

LEMMA RatingsKnown ==
  /\ Assisted \in Ratings /\ Rated("A", 3, 5) \in Ratings
  /\ \A radius \in StoryRadii : ClassifyHints(Story(radius)) \in Ratings
BY DEF Ratings

LEMMA SealsKnown == {} \in Seals /\ \A payload \in Payloads : {payload} \in Seals
BY DEF Seals

LEMMA BlankCopy ==
  /\ NoManifest = [by |-> "none", rating |-> Assisted, state |-> "queued", born |-> 0, seal |-> {}]
  /\ NoManifest \in Copies /\ NoManifest.by = "none" /\ NoManifest.seal = {}
<1>1. NoManifest = [by |-> "none", rating |-> Assisted, state |-> "queued", born |-> 0,
                    seal |-> {}]
  BY DEF NoManifest
<1>2. Assisted \in Ratings /\ {} \in Seals /\ 0 \in Days
  BY RatingsKnown, SealsKnown, RegistryBounds
<1> QED
  BY <1>1, <1>2 DEF Copies, StatesStored

LEMMA FirstCopies ==
  ASSUME RegistryTyped, NEW by \in Makers, NEW rating \in Ratings
  PROVE  /\ NewManifest(by, rating) \in Copies /\ NewManifest(by, rating).by = by
         /\ NewManifest(by, rating).seal = {}
<1>1. today \in Days /\ by \in Makers \cup {"none"}
  BY DEF RegistryTyped
<1>2. NoManifest \in Copies /\ NoManifest.seal = {}
  BY BlankCopy
<1> QED
  BY <1>1, <1>2 DEF NewManifest, Copies

LEMMA IdleErrand ==
  /\ NoErrand = [at |-> "idle", cmd |-> "none", id |-> 0, copy |-> NoManifest]
  /\ NoErrand \in Errands /\ NoErrand.at = "idle" /\ NoErrand.id = 0
  /\ NoErrand.copy = NoManifest
BY BlankCopy DEF NoErrand, Errands

LEMMA RegistryBegins == RegistryInit => RegistryInv
<1> SUFFICES ASSUME RegistryInit PROVE RegistryInv
  OBVIOUS
<1>1. /\ \A m \in Ids : rows[m] = NoManifest
      /\ \A p \in Clerks : clerk[p] = NoErrand
      /\ noted = {} /\ signed = {} /\ today = 0
  BY DEF RegistryInit
<1>2. NoManifest \in Copies /\ NoManifest.by = "none" /\ NoManifest.seal = {}
  BY BlankCopy
<1>3. RegistryTyped
  BY <1>1, <1>2, IdleErrand, RegistryBounds DEF RegistryTyped, RegistryInit
<1>4. Apart /\ UnstoredUnsealed /\ CreationOnRecord /\ SealsOnRecord
  BY <1>1, <1>2, IdleErrand DEF Apart, Unstored, UnstoredUnsealed, CreationOnRecord,
    SealsOnRecord
<1>5. \A p \in Clerks : ErrandFits(p) /\ SealFits(p)
  BY <1>1, <1>2, IdleErrand DEF ErrandFits, SealFits, Unstored, Holding
<1> QED
  BY <1>3, <1>4, <1>5 DEF RegistryInv

(* A step of one clerk leaves the errands of the others as they were, if   *)
(* it stores nothing under an id that is another one's, and never says     *)
(* anew who made a manifest.                                               *)
LEMMA OtherErrands ==
  ASSUME RegistryInv, NEW p \in Clerks, NEW e, clerk' = [clerk EXCEPT ![p] = e],
         noted \subseteq noted', signed \subseteq signed',
         \A m \in Ids : \/ rows'[m].by = rows[m].by
                        \/ /\ rows[m].by = "none"
                           /\ \A q \in Clerks \ {p} : clerk[q].id # m
  PROVE  /\ clerk'[p] = e
         /\ \A q \in Clerks \ {p} : clerk'[q] = clerk[q] /\ ErrandFits(q)' /\ SealFits(q)'
<1>1. clerk'[p] = e /\ \A q \in Clerks \ {p} : clerk'[q] = clerk[q]
  BY DEF RegistryInv, RegistryTyped
<1>2. ASSUME NEW q \in Clerks \ {p} PROVE ErrandFits(q)'
  <2>1. clerk'[q] = clerk[q] /\ ErrandFits(q) /\ clerk[q] \in Errands
    BY <1>1 DEF RegistryInv, RegistryTyped
  <2>2. clerk[q].at # "idle" => rows'[clerk[q].id].by = rows[clerk[q].id].by
    BY <2>1 DEF ErrandFits
  <2>3. Unstored(q) \/ Holding(q) \/ clerk[q].at = "note" => clerk[q].at # "idle"
    BY DEF Unstored, Holding
  <2>4. (Unstored(q)' <=> Unstored(q)) /\ (Holding(q)' <=> Holding(q))
    BY <2>1 DEF Unstored, Holding
  <2> QED
    BY <2>1, <2>2, <2>3, <2>4 DEF ErrandFits
<1>3. ASSUME NEW q \in Clerks \ {p} PROVE SealFits(q)'
  <2>1. clerk'[q] = clerk[q] /\ SealFits(q)
    BY <1>1 DEF RegistryInv
  <2> QED
    BY <2>1 DEF SealFits
<1> QED
  BY <1>1, <1>2, <1>3

\* the same for ids that are not stored
LEMMA StillApart ==
  ASSUME RegistryInv, NEW p \in Clerks, NEW e, clerk' = [clerk EXCEPT ![p] = e],
         \/ e.id = clerk[p].id /\ (e.at \in {"create", "store"} => Unstored(p))
         \/ e.id = 0 /\ e.at = "idle"
         \/ /\ \A q \in Clerks \ {p} : clerk[q].id = e.id => ~Unstored(q)
            /\ e.at \in {"create", "store"} => \A q \in Clerks \ {p} : clerk[q].id # e.id
  PROVE  Apart'
<1>1. clerk'[p] = e /\ \A q \in Clerks \ {p} : clerk'[q] = clerk[q]
  BY DEF RegistryInv, RegistryTyped
<1>2. \A q \in Clerks : Unstored(q) => clerk[q].id \in Ids
  BY DEF RegistryInv, ErrandFits, Unstored
<1>3. 0 \notin Ids
  BY RegistryBounds DEF Ids
<1>4. ASSUME NEW q \in Clerks \ {p}, Unstored(q)', NEW r \in Clerks \ {q}
      PROVE  clerk'[r].id # clerk'[q].id
  <2>1. Unstored(q) /\ clerk'[q] = clerk[q]
    BY <1>1, <1>4 DEF Unstored
  <2>2. CASE r = p
    BY <1>1, <1>2, <1>3, <2>1, <2>2 DEF RegistryInv, Apart
  <2>3. CASE r # p
    BY <1>1, <2>1, <2>3 DEF RegistryInv, Apart
  <2> QED
    BY <2>2, <2>3
<1>5. ASSUME Unstored(p)', NEW r \in Clerks \ {p}
      PROVE  clerk'[r].id # clerk'[p].id
  <2>1. e.at \in {"create", "store"} /\ clerk'[r] = clerk[r]
    BY <1>1, <1>5 DEF Unstored
  <2>2. CASE e.id = clerk[p].id /\ Unstored(p)
    BY <1>1, <2>1, <2>2 DEF RegistryInv, Apart
  <2> QED
    BY <1>1, <1>3, <2>1, <2>2
<1> QED
  BY <1>4, <1>5 DEF Apart

LEMMA Going ==
  ASSUME RegistryInv, NEW p \in Clerks, NEW l, Go(p, l),
         l \in {"store", "seal", "start", "agent", "decide", "sign"}
  PROVE  /\ clerk' = [clerk EXCEPT ![p] = [clerk[p] EXCEPT !.at = l]]
         /\ [clerk[p] EXCEPT !.at = l] \in Errands
         /\ [clerk[p] EXCEPT !.at = l].at = l
         /\ [clerk[p] EXCEPT !.at = l].cmd = clerk[p].cmd
         /\ [clerk[p] EXCEPT !.at = l].id = clerk[p].id
         /\ [clerk[p] EXCEPT !.at = l].copy = clerk[p].copy
<1>1. clerk[p] \in Errands
  BY DEF RegistryInv, RegistryTyped
<1>2. clerk' = [clerk EXCEPT ![p] = [clerk[p] EXCEPT !.at = l]]
  BY DEF Go
<1> QED
  BY <1>1, <1>2 DEF Errands

LEMMA Finished ==
  ASSUME NEW p \in Clerks, RegistryTyped, clerk' = [clerk EXCEPT ![p] = NoErrand]
  PROVE  ErrandFits(p)' /\ SealFits(p)'
<1>1. clerk'[p] = NoErrand
  BY DEF RegistryTyped
<1>2. clerk'[p].at = "idle" /\ clerk'[p].copy.seal = {}
  BY <1>1, IdleErrand, BlankCopy
<1> QED
  BY <1>2 DEF ErrandFits, SealFits, Unstored, Holding

LEMMA ProposeKeeps ==
  ASSUME RegistryInv, NEW p \in Clerks, NEW m \in Ids, NEW by \in {"manifest", "auto", "build"},
         NEW rating \in Ratings, Propose(p, m, by, rating)
  PROVE  RegistryInv'
<1> DEFINE e == [NoErrand EXCEPT !.at = "create", !.cmd = by, !.id = m,
                                 !.copy = NewManifest(by, rating)]
<1>1. NewManifest(by, rating) \in Copies /\ NewManifest(by, rating).by = by
      /\ NewManifest(by, rating).seal = {}
  BY FirstCopies DEF RegistryInv, Makers
<1>2. /\ e \in Errands /\ e.at = "create" /\ e.cmd = by /\ e.id = m
      /\ e.copy = NewManifest(by, rating)
  BY <1>1, IdleErrand DEF Errands, Makers
<1>3. clerk' = [clerk EXCEPT ![p] = e] /\ UNCHANGED <<rows, noted, signed, today>> /\ FreshId(m)
  BY DEF Propose
<1> HIDE DEF e
<1>4. rows[m].by = "none" /\ \A q \in Clerks : clerk[q].id # m
  BY <1>3 DEF FreshId, Begun
<1>5. RegistryTyped'
  BY <1>2, <1>3 DEF RegistryInv, RegistryTyped
<1>6. clerk'[p] = e /\ \A q \in Clerks \ {p} : ErrandFits(q)' /\ SealFits(q)'
  BY <1>3, OtherErrands
<1>7. Apart'
  BY <1>2, <1>3, <1>4, StillApart
<1>8. ErrandFits(p)'
  BY <1>1, <1>2, <1>3, <1>4, <1>6 DEF ErrandFits, Unstored, Holding
<1>9. SealFits(p)'
  BY <1>1, <1>2, <1>6 DEF SealFits
<1>10. UnstoredUnsealed' /\ CreationOnRecord' /\ SealsOnRecord'
  BY <1>3 DEF RegistryInv, UnstoredUnsealed, CreationOnRecord, SealsOnRecord
<1> QED
  BY <1>5, <1>6, <1>7, <1>8, <1>9, <1>10 DEF RegistryInv

LEMMA AuditCreationKeeps ==
  ASSUME RegistryInv, NEW p \in Clerks, AuditCreation(p)
  PROVE  RegistryInv'
<1> DEFINE e == [clerk[p] EXCEPT !.at = "store"]
<1>1. /\ Is(p, "create") /\ Go(p, "store") /\ UNCHANGED <<rows, signed, today>>
      /\ noted' = noted \cup {[id |-> clerk[p].id, by |-> clerk[p].cmd]}
  BY DEF AuditCreation
<1>2. /\ clerk' = [clerk EXCEPT ![p] = e] /\ e \in Errands /\ e.at = "store"
      /\ e.cmd = clerk[p].cmd /\ e.id = clerk[p].id /\ e.copy = clerk[p].copy
  BY <1>1, Going
<1> HIDE DEF e
<1>3. /\ clerk[p].id \in Ids /\ clerk[p].cmd \in {"manifest", "auto", "build"}
      /\ clerk[p].copy.by = clerk[p].cmd /\ rows[clerk[p].id].by = "none"
      /\ clerk[p].copy.seal = {} /\ Unstored(p)
  BY <1>1 DEF RegistryInv, ErrandFits, Unstored, Is
<1>4. RegistryTyped'
  BY <1>1, <1>2, <1>3 DEF RegistryInv, RegistryTyped, Makers
<1>5. clerk'[p] = e /\ \A q \in Clerks \ {p} : ErrandFits(q)' /\ SealFits(q)'
  BY <1>1, <1>2, OtherErrands
<1>6. Apart'
  BY <1>2, <1>3, StillApart
<1>7. ErrandFits(p)'
  BY <1>1, <1>2, <1>3, <1>5 DEF ErrandFits, Unstored, Holding
<1>8. SealFits(p)'
  BY <1>2, <1>3, <1>5 DEF SealFits
<1>9. UnstoredUnsealed' /\ CreationOnRecord' /\ SealsOnRecord'
  BY <1>1, <1>3 DEF RegistryInv, UnstoredUnsealed, CreationOnRecord, SealsOnRecord
<1> QED
  BY <1>4, <1>5, <1>6, <1>7, <1>8, <1>9 DEF RegistryInv

LEMMA PersistKeeps ==
  ASSUME RegistryInv, NEW p \in Clerks, PersistManifest(p)
  PROVE  RegistryInv'
<1> DEFINE i == clerk[p].id c == clerk[p].copy
<1>1. /\ Is(p, "store") /\ UNCHANGED <<noted, signed, today>>
      /\ rows' = [rows EXCEPT ![i] = c]
      /\ IF clerk[p].cmd = "build" THEN Go(p, "sign") ELSE Finish(p)
  BY DEF PersistManifest
<1>2. /\ i \in Ids /\ clerk[p].cmd \in {"manifest", "auto", "build"} /\ c.by = clerk[p].cmd
      /\ rows[i].by = "none" /\ c.seal = {} /\ Unstored(p) /\ c \in Copies
      /\ [id |-> i, by |-> c.by] \in noted
  BY <1>1 DEF RegistryInv, RegistryTyped, Errands, ErrandFits, Unstored, Is
<1>3. \A q \in Clerks \ {p} : clerk[q].id # i
  BY <1>2 DEF RegistryInv, Apart
<1> HIDE DEF i, c
<1>4. /\ rows' \in [Ids -> Copies] /\ rows'[i] = c
      /\ \A m \in Ids : m # i => rows'[m] = rows[m]
  BY <1>1, <1>2 DEF RegistryInv, RegistryTyped
<1>8. \A m \in Ids : \/ rows'[m].by = rows[m].by
                    \/ /\ rows[m].by = "none"
                       /\ \A q \in Clerks \ {p} : clerk[q].id # m
  BY <1>2, <1>3, <1>4
<1>5. UnstoredUnsealed' /\ CreationOnRecord' /\ SealsOnRecord'
  BY <1>1, <1>2, <1>4
  DEF RegistryInv, UnstoredUnsealed, CreationOnRecord, SealsOnRecord
<1>6. CASE clerk[p].cmd = "build"
  <2> DEFINE e == [clerk[p] EXCEPT !.at = "sign"]
  <2>1. Go(p, "sign")
    BY <1>1, <1>6
  <2>2. /\ clerk' = [clerk EXCEPT ![p] = e] /\ e \in Errands /\ e.at = "sign"
        /\ e.cmd = clerk[p].cmd /\ e.id = i /\ e.copy = c
    BY <2>1, Going DEF i, c
  <2> HIDE DEF e
  <2>3. RegistryTyped'
    BY <1>1, <1>4, <2>2 DEF RegistryInv, RegistryTyped
  <2>4. clerk'[p] = e /\ \A q \in Clerks \ {p} : ErrandFits(q)' /\ SealFits(q)'
    BY <1>1, <1>8, <2>2, OtherErrands
  <2>5. Apart'
    BY <2>2, StillApart DEF i
  <2>6. ErrandFits(p)'
    BY <1>2, <1>4, <2>2, <2>4 DEF ErrandFits, Unstored, Holding
  <2>7. SealFits(p)'
    BY <1>2, <1>6, <2>2, <2>4 DEF SealFits
  <2> QED
    BY <1>5, <2>3, <2>4, <2>5, <2>6, <2>7 DEF RegistryInv
<1>7. CASE clerk[p].cmd # "build"
  <2>1. clerk' = [clerk EXCEPT ![p] = NoErrand]
    BY <1>1, <1>7 DEF Finish
  <2>2. RegistryTyped'
    BY <1>1, <1>4, <2>1, IdleErrand DEF RegistryInv, RegistryTyped
  <2>3. \A q \in Clerks \ {p} : ErrandFits(q)' /\ SealFits(q)'
    BY <1>1, <1>8, <2>1, OtherErrands
  <2>4. Apart'
    BY <2>1, StillApart, IdleErrand
  <2>5. ErrandFits(p)' /\ SealFits(p)'
    BY <2>1, Finished DEF RegistryInv
  <2> QED
    BY <1>5, <2>2, <2>3, <2>4, <2>5 DEF RegistryInv
<1> QED
  BY <1>6, <1>7

LEMMA StoreStoryKeeps ==
  ASSUME RegistryInv, NEW p \in Clerks, StoreStory(p)
  PROVE  RegistryInv'
<1>1. PICK m \in Ids, radius \in StoryRadii :
        /\ Is(p, "idle") /\ FreshId(m)
        /\ rows' = [rows EXCEPT ![m] = NewManifest("spec", ClassifyHints(Story(radius)))]
        /\ clerk' = [clerk EXCEPT ![p] = [NoErrand EXCEPT !.at = "note", !.cmd = "spec", !.id = m]]
        /\ UNCHANGED <<noted, signed, today>>
  BY DEF StoreStory
<1> DEFINE c == NewManifest("spec", ClassifyHints(Story(radius)))
           e == [NoErrand EXCEPT !.at = "note", !.cmd = "spec", !.id = m]
<1>2. ClassifyHints(Story(radius)) \in Ratings /\ "spec" \in Makers /\ RegistryTyped
  BY RatingsKnown DEF Makers, RegistryInv
<1>3. c \in Copies /\ c.by = "spec" /\ c.seal = {}
  BY <1>2, FirstCopies
<1>4. /\ e \in Errands /\ e.at = "note" /\ e.cmd = "spec" /\ e.id = m
      /\ e.copy = NoManifest
  BY IdleErrand DEF Errands, Makers
<1>5. rows' = [rows EXCEPT ![m] = c] /\ clerk' = [clerk EXCEPT ![p] = e]
  BY <1>1
<1> HIDE DEF c, e
<1>6. /\ rows[m].by = "none" /\ \A q \in Clerks : clerk[q].id # m
      /\ \A entry \in noted : entry.id # m
  BY <1>1 DEF FreshId, Begun
<1>7. /\ rows' \in [Ids -> Copies] /\ rows'[m] = c
      /\ \A n \in Ids : n # m => rows'[n] = rows[n]
  BY <1>3, <1>5 DEF RegistryInv, RegistryTyped
<1>8. UnstoredUnsealed' /\ CreationOnRecord' /\ SealsOnRecord'
  BY <1>1, <1>3, <1>7
  DEF RegistryInv, UnstoredUnsealed, CreationOnRecord, SealsOnRecord
<1>9. RegistryTyped'
  BY <1>1, <1>4, <1>5, <1>7 DEF RegistryInv, RegistryTyped
<1>14. \A n \in Ids : \/ rows'[n].by = rows[n].by
                     \/ /\ rows[n].by = "none"
                        /\ \A q \in Clerks \ {p} : clerk[q].id # n
  BY <1>6, <1>7
<1>10. clerk'[p] = e /\ \A q \in Clerks \ {p} : ErrandFits(q)' /\ SealFits(q)'
  BY <1>1, <1>5, <1>14, OtherErrands
<1>11. Apart'
  BY <1>4, <1>5, <1>6, StillApart
<1>12. ErrandFits(p)'
  BY <1>3, <1>4, <1>7, <1>10 DEF ErrandFits, Unstored, Holding
<1>13. SealFits(p)'
  BY <1>4, <1>10, BlankCopy DEF SealFits
<1> QED
  BY <1>8, <1>9, <1>10, <1>11, <1>12, <1>13 DEF RegistryInv

LEMMA AuditStoryKeeps ==
  ASSUME RegistryInv, NEW p \in Clerks, AuditStory(p)
  PROVE  RegistryInv'
<1>1. /\ Is(p, "note") /\ UNCHANGED <<rows, signed, today>>
      /\ noted' = noted \cup {[id |-> clerk[p].id, by |-> clerk[p].cmd]}
      /\ clerk' = [clerk EXCEPT ![p] = NoErrand]
  BY DEF AuditStory, Finish
<1>2. clerk[p].id \in Ids /\ clerk[p].cmd = "spec" /\ rows[clerk[p].id].by = "spec"
  BY <1>1 DEF RegistryInv, ErrandFits, Is
<1>3. RegistryTyped'
  BY <1>1, <1>2, IdleErrand DEF RegistryInv, RegistryTyped, Makers
<1>4. \A q \in Clerks \ {p} : ErrandFits(q)' /\ SealFits(q)'
  BY <1>1, OtherErrands
<1>5. Apart'
  BY <1>1, StillApart, IdleErrand
<1>6. ErrandFits(p)' /\ SealFits(p)'
  BY <1>1, Finished DEF RegistryInv
<1>7. UnstoredUnsealed' /\ CreationOnRecord' /\ SealsOnRecord'
  BY <1>1, <1>2 DEF RegistryInv, UnstoredUnsealed, CreationOnRecord, SealsOnRecord
<1> QED
  BY <1>3, <1>4, <1>5, <1>6, <1>7 DEF RegistryInv

(* Who holds the copy of a stored manifest writes it back: who made it and *)
(* how it was rated stays as it was, and the copy answers for its seal.    *)
LEMMA Rewritten ==
  ASSUME RegistryInv, NEW p \in Clerks, Holding(p), NEW v \in Copies,
         v.by = clerk[p].copy.by, v.seal # {} => clerk[p].id \in signed,
         \A payload \in v.seal : payload.rating = v.rating,
         rows' = [rows EXCEPT ![clerk[p].id] = v], UNCHANGED <<noted, signed>>
  PROVE  /\ rows' \in [Ids -> Copies]
         /\ \A m \in Ids : rows'[m].by = rows[m].by
         /\ UnstoredUnsealed' /\ CreationOnRecord' /\ SealsOnRecord'
<1> DEFINE i == clerk[p].id
<1>1. i \in Ids /\ v.by # "none" /\ rows[i].by = v.by
  BY DEF RegistryInv, ErrandFits, Holding
<1> HIDE DEF i
<1>2. rows' = [rows EXCEPT ![i] = v]
  BY DEF i
<1>3. /\ rows' \in [Ids -> Copies] /\ rows'[i] = v
      /\ \A m \in Ids : m # i => rows'[m] = rows[m]
  BY <1>1, <1>2 DEF RegistryInv, RegistryTyped
<1>4. \A m \in Ids : rows'[m].by = rows[m].by
  BY <1>1, <1>3
<1>5. UnstoredUnsealed'
  BY <1>1, <1>3 DEF RegistryInv, UnstoredUnsealed
<1>6. CreationOnRecord'
  <2>1. noted' = noted /\ CreationOnRecord
    BY DEF RegistryInv
  <2> QED
    BY <1>4, <2>1 DEF CreationOnRecord
<1>7. SealsOnRecord'
  BY <1>1, <1>3 DEF RegistryInv, SealsOnRecord, i
<1> QED
  BY <1>3, <1>4, <1>5, <1>6, <1>7

\* rows that no step touched
LEMMA Unwritten ==
  ASSUME RegistryInv, rows' = rows, noted' = noted, signed \subseteq signed'
  PROVE  /\ rows' \in [Ids -> Copies]
         /\ \A m \in Ids : rows'[m].by = rows[m].by
         /\ UnstoredUnsealed' /\ CreationOnRecord' /\ SealsOnRecord'
BY DEF RegistryInv, RegistryTyped, UnstoredUnsealed, CreationOnRecord, SealsOnRecord

(* A clerk that ends, having written or not.                               *)
LEMMA EndKeeps ==
  ASSUME RegistryInv, NEW p \in Clerks, Finish(p), UNCHANGED <<noted, signed, today>>,
         rows' \in [Ids -> Copies], \A m \in Ids : rows'[m].by = rows[m].by,
         UnstoredUnsealed', CreationOnRecord', SealsOnRecord'
  PROVE  RegistryInv'
<1>1. clerk' = [clerk EXCEPT ![p] = NoErrand]
  BY DEF Finish
<1>2. RegistryTyped'
  BY <1>1, IdleErrand DEF RegistryInv, RegistryTyped
<1>3. \A q \in Clerks \ {p} : ErrandFits(q)' /\ SealFits(q)'
  BY <1>1, OtherErrands
<1>4. Apart'
  BY <1>1, StillApart, IdleErrand
<1>5. ErrandFits(p)' /\ SealFits(p)'
  BY <1>1, Finished DEF RegistryInv
<1> QED
  BY <1>2, <1>3, <1>4, <1>5 DEF RegistryInv

(* A clerk that holds a copy and goes on with it.                          *)
LEMMA GoOnKeeps ==
  ASSUME RegistryInv, NEW p \in Clerks, NEW e \in Errands, clerk' = [clerk EXCEPT ![p] = e],
         Holding(p), e.id = clerk[p].id, e.cmd = clerk[p].cmd,
         e.copy.by = clerk[p].copy.by,
         e.at \in {"seal", "start", "launch", "agent", "decide"},
         noted' = noted, today' = today, signed \subseteq signed', signed' \subseteq Ids,
         rows' \in [Ids -> Copies], \A m \in Ids : rows'[m].by = rows[m].by,
         UnstoredUnsealed', CreationOnRecord', SealsOnRecord',
         e.at = "seal" => e.cmd \in {"build", "approve"} /\ e.id \in signed',
         e.at = "decide" => e.cmd = "approve" /\ e.copy.seal # {},
         e.at \in {"start", "launch", "agent"} =>
           e.cmd \in {"build", "execute"} /\ (e.cmd = "build" => e.copy.seal # {}),
         e.copy.seal # {} => e.id \in signed',
         \A payload \in e.copy.seal : payload.rating = e.copy.rating
  PROVE  RegistryInv'
<1>1. RegistryTyped'
  BY DEF RegistryInv, RegistryTyped
<1>2. clerk'[p] = e /\ \A q \in Clerks \ {p} : ErrandFits(q)' /\ SealFits(q)'
  BY OtherErrands
<1>3. Apart'
  BY StillApart
<1>4. clerk[p].id \in Ids /\ clerk[p].copy.by # "none"
      /\ rows[clerk[p].id].by = clerk[p].copy.by
  BY DEF RegistryInv, ErrandFits, Holding
<1>5. ErrandFits(p)'
  BY <1>2, <1>4 DEF ErrandFits, Unstored, Holding
<1>6. SealFits(p)'
  BY <1>2 DEF SealFits
<1> QED
  BY <1>1, <1>2, <1>3, <1>5, <1>6 DEF RegistryInv

LEMMA GetManifestKeeps ==
  ASSUME RegistryInv, NEW p \in Clerks, GetManifest(p)
  PROVE  RegistryInv'
<1>1. PICK m \in Ids, asked \in {"execute", "approve"} :
        /\ Is(p, "idle") /\ rows[m].by # "none" /\ CanBegin(asked, rows[m])
        /\ clerk' = [clerk EXCEPT ![p] =
                       [NoErrand EXCEPT !.at = IF asked = "execute" THEN "start" ELSE "sign",
                                        !.cmd = asked, !.id = m, !.copy = rows[m]]]
        /\ UNCHANGED <<rows, noted, signed, today>>
  BY DEF GetManifest
<1> DEFINE l == IF asked = "execute" THEN "start" ELSE "sign"
           c == rows[m]
<1>2. PICK e : e = [NoErrand EXCEPT !.at = l, !.cmd = asked, !.id = m, !.copy = c]
  OBVIOUS
<1>3. c \in Copies /\ l \in {"start", "sign"} /\ (l = "start" <=> asked = "execute")
  BY DEF RegistryInv, RegistryTyped
<1>4. clerk' = [clerk EXCEPT ![p] = e]
  BY <1>1, <1>2
<1>5. /\ c.by # "none" /\ c.by = rows[m].by
      /\ c.seal # {} => m \in signed
      /\ \A payload \in c.seal : payload.rating = c.rating
  BY <1>1 DEF RegistryInv, SealsOnRecord
<1> HIDE DEF c, l
<1>6. /\ e \in Errands /\ e.at = l /\ e.cmd = asked /\ e.id = m
      /\ e.copy = c
  BY <1>2, <1>3, IdleErrand DEF Errands
<1>7. \A q \in Clerks : clerk[q].id = m => ~Unstored(q)
  BY <1>1 DEF RegistryInv, ErrandFits
<1>8. RegistryTyped'
  BY <1>1, <1>4, <1>6 DEF RegistryInv, RegistryTyped
<1>9. clerk'[p] = e /\ \A q \in Clerks \ {p} : ErrandFits(q)' /\ SealFits(q)'
  BY <1>1, <1>4, OtherErrands
<1>10. Apart'
  BY <1>3, <1>4, <1>6, <1>7, StillApart
<1>11. ErrandFits(p)'
  BY <1>1, <1>3, <1>5, <1>6, <1>9 DEF ErrandFits, Unstored, Holding
<1>12. SealFits(p)'
  <2>1. clerk'[p].at = l /\ clerk'[p].cmd = asked /\ clerk'[p].id = m /\ clerk'[p].copy = c
    BY <1>6, <1>9
  <2> QED
    BY <1>1, <1>3, <1>5, <2>1 DEF SealFits
<1>13. UnstoredUnsealed' /\ CreationOnRecord' /\ SealsOnRecord'
  BY <1>1, Unwritten
<1> QED
  BY <1>8, <1>9, <1>10, <1>11, <1>12, <1>13 DEF RegistryInv

LEMMA AuditSigningKeeps ==
  ASSUME RegistryInv, NEW p \in Clerks, AuditSigning(p)
  PROVE  RegistryInv'
<1>1. /\ Is(p, "sign") /\ clerk[p].copy.seal = {} /\ Go(p, "seal")
      /\ signed' = signed \cup {clerk[p].id} /\ UNCHANGED <<rows, noted, today>>
  BY DEF AuditSigning
<1>2. PICK e : e = [clerk[p] EXCEPT !.at = "seal"]
  OBVIOUS
<1>3. /\ clerk' = [clerk EXCEPT ![p] = e] /\ e \in Errands /\ e.at = "seal"
      /\ e.cmd = clerk[p].cmd /\ e.id = clerk[p].id /\ e.copy = clerk[p].copy
  BY <1>1, <1>2, Going
<1>4. /\ Holding(p) /\ clerk[p].id \in Ids /\ clerk[p].cmd \in {"build", "approve"}
  BY <1>1 DEF RegistryInv, ErrandFits, SealFits, Holding, Is
<1>5. signed' \subseteq Ids /\ signed \subseteq signed'
  BY <1>1, <1>4 DEF RegistryInv, RegistryTyped
<1>6. /\ rows' \in [Ids -> Copies] /\ \A m \in Ids : rows'[m].by = rows[m].by
      /\ UnstoredUnsealed' /\ CreationOnRecord' /\ SealsOnRecord'
  BY <1>1, <1>5, Unwritten
<1> QED
  BY <1>1, <1>3, <1>4, <1>5, <1>6, GoOnKeeps

LEMMA AlreadySignedKeeps ==
  ASSUME RegistryInv, NEW p \in Clerks, AlreadySigned(p)
  PROVE  RegistryInv'
<1> DEFINE l == NextAfterSeal(clerk[p].cmd)
<1>1. /\ Is(p, "sign") /\ clerk[p].copy.seal # {} /\ Go(p, l)
      /\ UNCHANGED <<rows, noted, signed, today>>
  BY DEF AlreadySigned
<1>2. /\ Holding(p) /\ clerk[p].id \in signed /\ clerk[p].cmd \in {"build", "approve"}
      /\ \A payload \in clerk[p].copy.seal : payload.rating = clerk[p].copy.rating
  BY <1>1 DEF RegistryInv, SealFits, Holding, Is
<1>3. l \in {"start", "decide"} /\ (l = "start" <=> clerk[p].cmd = "build")
  BY <1>2 DEF NextAfterSeal
<1>4. PICK to \in {"start", "decide"} : to = l
  BY <1>3
<1>5. PICK e : e = [clerk[p] EXCEPT !.at = to]
  OBVIOUS
<1> HIDE DEF l
<1>6. /\ clerk' = [clerk EXCEPT ![p] = e] /\ e \in Errands /\ e.at = to
      /\ e.cmd = clerk[p].cmd /\ e.id = clerk[p].id /\ e.copy = clerk[p].copy
  BY <1>1, <1>4, <1>5, Going
<1>7. /\ rows' \in [Ids -> Copies] /\ \A m \in Ids : rows'[m].by = rows[m].by
      /\ UnstoredUnsealed' /\ CreationOnRecord' /\ SealsOnRecord'
  BY <1>1, Unwritten
<1>8. signed' \subseteq Ids
  BY <1>1 DEF RegistryInv, RegistryTyped
<1> QED
  BY <1>1, <1>2, <1>3, <1>4, <1>6, <1>7, <1>8, GoOnKeeps

LEMMA SealedCopy ==
  ASSUME NEW c \in Copies
  PROVE  /\ SignManifest(c) \in Copies /\ SignManifest(c).by = c.by
         /\ SignManifest(c).seal # {} /\ SignManifest(c).rating = c.rating
         /\ \A payload \in SignManifest(c).seal : payload.rating = c.rating
<1>1. /\ SigningPayload(c) \in Payloads /\ SigningPayload(c).rating = c.rating
  BY DEF SigningPayload, Payloads, Copies
<1>2. {SigningPayload(c)} \in Seals
  BY <1>1, SealsKnown
<1> QED
  BY <1>1, <1>2 DEF SignManifest, Copies

LEMMA MovedCopy ==
  ASSUME NEW c \in Copies, NEW s \in StatesStored
  PROVE  /\ [c EXCEPT !.state = s] \in Copies /\ [c EXCEPT !.state = s].by = c.by
         /\ [c EXCEPT !.state = s].seal = c.seal /\ [c EXCEPT !.state = s].rating = c.rating
BY DEF Copies

LEMMA SaveSealedKeeps ==
  ASSUME RegistryInv, NEW p \in Clerks, SaveSealed(p)
  PROVE  RegistryInv' /\ UnsealedByStaleCopy
<1>1. PICK c : c = clerk[p].copy
  OBVIOUS
<1>2. PICK v : v = SignManifest(c)
  OBVIOUS
<1>3. c \in Copies /\ clerk[p] \in Errands
  BY <1>1 DEF RegistryInv, RegistryTyped, Errands
<1>4. v \in Copies /\ v.by = c.by /\ v.seal # {} /\ v.rating = c.rating
      /\ \A payload \in v.seal : payload.rating = v.rating
  BY <1>2, <1>3, SealedCopy
<1> DEFINE l == NextAfterSeal(clerk[p].cmd)
<1>5. /\ Is(p, "seal") /\ rows' = [rows EXCEPT ![clerk[p].id] = v]
      /\ clerk' = [clerk EXCEPT ![p].copy = v, ![p].at = l]
      /\ UNCHANGED <<noted, signed, today>>
  BY <1>1, <1>2 DEF SaveSealed
<1>6. /\ Holding(p) /\ clerk[p].id \in signed /\ clerk[p].cmd \in {"build", "approve"}
      /\ clerk[p].id \in Ids
  BY <1>5 DEF RegistryInv, SealFits, ErrandFits, Holding, Is
<1>7. l \in {"start", "decide"} /\ (l = "start" <=> clerk[p].cmd = "build")
  BY <1>6 DEF NextAfterSeal
<1> HIDE DEF l
<1>8. PICK e : e = [clerk[p] EXCEPT !.copy = v, !.at = l]
  OBVIOUS
<1>9. clerk' = [clerk EXCEPT ![p] = e]
  BY <1>5, <1>8
<1>10. e \in Errands /\ e.at = l /\ e.cmd = clerk[p].cmd /\ e.id = clerk[p].id /\ e.copy = v
  BY <1>3, <1>4, <1>7, <1>8 DEF Errands
<1>11. /\ rows' \in [Ids -> Copies] /\ \A m \in Ids : rows'[m].by = rows[m].by
       /\ UnstoredUnsealed' /\ CreationOnRecord' /\ SealsOnRecord'
  BY <1>1, <1>4, <1>5, <1>6, Rewritten
<1>12. signed' \subseteq Ids
  BY <1>5 DEF RegistryInv, RegistryTyped
<1>13. RegistryInv'
  BY <1>1, <1>4, <1>5, <1>6, <1>7, <1>9, <1>10, <1>11, <1>12, GoOnKeeps, ZenonT(40)
<1>14. UnsealedByStaleCopy
  BY <1>4, <1>5 DEF UnsealedByStaleCopy, RegistryInv, RegistryTyped
<1> QED
  BY <1>13, <1>14

(* A copy that another one may have overtaken unseals the row only if it   *)
(* was made before the signature.                                          *)
LEMMA StaleWrite ==
  ASSUME RegistryInv, NEW p \in Clerks, NEW v, rows' = [rows EXCEPT ![clerk[p].id] = v],
         clerk[p].cmd = "execute" \/ clerk[p].copy.seal # {}, v.seal = clerk[p].copy.seal
  PROVE  UnsealedByStaleCopy
BY DEF UnsealedByStaleCopy, RegistryInv, RegistryTyped

LEMMA InFlightKeeps ==
  ASSUME RegistryInv, NEW p \in Clerks, SaveInFlight(p)
  PROVE  RegistryInv' /\ UnsealedByStaleCopy
<1>1. PICK c : c = clerk[p].copy
  OBVIOUS
<1>2. PICK v : v = [c EXCEPT !.state = "in_flight"]
  OBVIOUS
<1>3. c \in Copies /\ clerk[p] \in Errands /\ "in_flight" \in StatesStored
  BY <1>1 DEF RegistryInv, RegistryTyped, Errands, StatesStored
<1>4. v \in Copies /\ v.by = c.by /\ v.seal = c.seal /\ v.rating = c.rating
  BY <1>2, <1>3, MovedCopy
<1>5. /\ Is(p, "start")
      /\ rows' = rows \/ rows' = [rows EXCEPT ![clerk[p].id] = v]
      /\ clerk' = [clerk EXCEPT ![p].copy = v, ![p].at = "launch"]
      /\ UNCHANGED <<noted, signed, today>>
  BY <1>1, <1>2 DEF SaveInFlight
<1>6. /\ Holding(p) /\ clerk[p].cmd \in {"build", "execute"}
      /\ clerk[p].cmd = "build" => c.seal # {}
      /\ c.seal # {} => clerk[p].id \in signed
      /\ \A payload \in c.seal : payload.rating = c.rating
  BY <1>1, <1>5 DEF RegistryInv, SealFits, Holding, Is
<1>7. PICK e : e = [clerk[p] EXCEPT !.copy = v, !.at = "launch"]
  OBVIOUS
<1>8. clerk' = [clerk EXCEPT ![p] = e]
  BY <1>5, <1>7
<1>9. /\ e \in Errands /\ e.at = "launch" /\ e.cmd = clerk[p].cmd /\ e.id = clerk[p].id
      /\ e.copy = v
  BY <1>3, <1>4, <1>7 DEF Errands
<1>10. /\ rows' \in [Ids -> Copies] /\ \A m \in Ids : rows'[m].by = rows[m].by
       /\ UnstoredUnsealed' /\ CreationOnRecord' /\ SealsOnRecord'
  <2>1. CASE rows' = rows
    BY <1>5, <2>1, Unwritten
  <2>2. CASE rows' = [rows EXCEPT ![clerk[p].id] = v]
    BY <1>1, <1>4, <1>5, <1>6, <2>2, Rewritten
  <2> QED
    BY <1>5, <2>1, <2>2
<1>11. signed' \subseteq Ids
  BY <1>5 DEF RegistryInv, RegistryTyped
<1>14. /\ e.cmd \in {"build", "execute"} /\ e.copy.by = clerk[p].copy.by
       /\ e.cmd = "build" => e.copy.seal # {}
       /\ e.copy.seal # {} => e.id \in signed'
       /\ \A payload \in e.copy.seal : payload.rating = e.copy.rating
       /\ today' = today /\ noted' = noted /\ signed \subseteq signed'
  BY <1>1, <1>4, <1>5, <1>6, <1>9
<1>12. RegistryInv'
  BY <1>6, <1>8, <1>9, <1>10, <1>11, <1>14, GoOnKeeps
<1>13. UnsealedByStaleCopy
  <2>1. CASE rows' = rows
    BY <2>1 DEF UnsealedByStaleCopy
  <2>2. CASE rows' = [rows EXCEPT ![clerk[p].id] = v]
    BY <1>1, <1>4, <1>6, <2>2, StaleWrite
  <2> QED
    BY <1>5, <2>1, <2>2
<1> QED
  BY <1>12, <1>13

LEMMA LaunchKeeps ==
  ASSUME RegistryInv, NEW p \in Clerks, LaunchAgent(p)
  PROVE  RegistryInv' /\ StartsOnActive
<1>1. /\ Is(p, "launch") /\ MayLaunch(clerk[p].copy) /\ Go(p, "agent")
      /\ UNCHANGED <<rows, noted, signed, today>>
  BY DEF LaunchAgent
<1>2. /\ Holding(p) /\ clerk[p].cmd \in {"build", "execute"} /\ clerk[p].copy.by # "none"
      /\ clerk[p].cmd = "build" => clerk[p].copy.seal # {}
      /\ clerk[p].copy.seal # {} => clerk[p].id \in signed
      /\ \A payload \in clerk[p].copy.seal : payload.rating = clerk[p].copy.rating
  BY <1>1 DEF RegistryInv, SealFits, ErrandFits, Holding, Is
<1>3. PICK e : e = [clerk[p] EXCEPT !.at = "agent"]
  OBVIOUS
<1>4. /\ clerk' = [clerk EXCEPT ![p] = e] /\ e \in Errands /\ e.at = "agent"
      /\ e.cmd = clerk[p].cmd /\ e.id = clerk[p].id /\ e.copy = clerk[p].copy
  BY <1>1, <1>3, Going
<1>5. /\ rows' \in [Ids -> Copies] /\ \A m \in Ids : rows'[m].by = rows[m].by
      /\ UnstoredUnsealed' /\ CreationOnRecord' /\ SealsOnRecord'
  BY <1>1, Unwritten
<1>6. signed' \subseteq Ids
  BY <1>1 DEF RegistryInv, RegistryTyped
<1>7. RegistryInv'
  BY <1>1, <1>2, <1>4, <1>5, <1>6, GoOnKeeps
<1>8. IsActive(clerk[p].copy)
  BY <1>1, <1>2 DEF MayLaunch, IsActive, Terminal
<1>9. \A q \in Clerks \ {p} : clerk'[q] = clerk[q]
  BY <1>4 DEF RegistryInv, RegistryTyped
<1>10. StartsOnActive
  BY <1>2, <1>8, <1>9 DEF StartsOnActive, Is
<1> QED
  BY <1>7, <1>10

LEMMA RefusedKeeps ==
  ASSUME RegistryInv, NEW p \in Clerks, Refused(p)
  PROVE  RegistryInv' /\ UnsealedByStaleCopy
<1>1. PICK c : c = clerk[p].copy
  OBVIOUS
<1>2. PICK v : v = [c EXCEPT !.state = "failed"]
  OBVIOUS
<1>3. c \in Copies /\ "failed" \in StatesStored
  BY <1>1 DEF RegistryInv, RegistryTyped, Errands, StatesStored
<1>4. v \in Copies /\ v.by = c.by /\ v.seal = c.seal /\ v.rating = c.rating
  BY <1>2, <1>3, MovedCopy
<1>5. /\ Is(p, "launch") /\ Finish(p) /\ UNCHANGED <<noted, signed, today>>
      /\ IF clerk[p].cmd = "execute" THEN rows' = [rows EXCEPT ![clerk[p].id] = v]
         ELSE rows' = rows
  BY <1>1, <1>2 DEF Refused
<1>6. /\ Holding(p)
      /\ c.seal # {} => clerk[p].id \in signed
      /\ \A payload \in c.seal : payload.rating = c.rating
  BY <1>1, <1>5 DEF RegistryInv, SealFits, Holding, Is
<1>7. CASE clerk[p].cmd = "execute"
  <2>1. rows' = [rows EXCEPT ![clerk[p].id] = v]
    BY <1>5, <1>7
  <2>2. /\ rows' \in [Ids -> Copies] /\ \A m \in Ids : rows'[m].by = rows[m].by
        /\ UnstoredUnsealed' /\ CreationOnRecord' /\ SealsOnRecord'
    BY <1>1, <1>4, <1>5, <1>6, <2>1, Rewritten
  <2>3. RegistryInv'
    BY <1>5, <2>2, EndKeeps
  <2>4. UnsealedByStaleCopy
    BY <1>1, <1>4, <1>7, <2>1, StaleWrite
  <2> QED
    BY <2>3, <2>4
<1>8. CASE clerk[p].cmd # "execute"
  <2>1. rows' = rows
    BY <1>5, <1>8
  <2>2. /\ rows' \in [Ids -> Copies] /\ \A m \in Ids : rows'[m].by = rows[m].by
        /\ UnstoredUnsealed' /\ CreationOnRecord' /\ SealsOnRecord'
    BY <1>5, <2>1, Unwritten
  <2>3. RegistryInv'
    BY <1>5, <2>2, EndKeeps
  <2> QED
    BY <2>1, <2>3 DEF UnsealedByStaleCopy
<1> QED
  BY <1>7, <1>8

LEMMA OutcomeKeeps ==
  ASSUME RegistryInv, NEW p \in Clerks, SaveOutcome(p)
  PROVE  RegistryInv' /\ UnsealedByStaleCopy
<1>1. PICK c : c = clerk[p].copy
  OBVIOUS
<1>2. PICK s \in Outcomes(clerk[p].cmd) :
        /\ rows' = [rows EXCEPT ![clerk[p].id] = [c EXCEPT !.state = s]]
        /\ Is(p, "agent") \/ Is(p, "decide")
        /\ Finish(p) /\ UNCHANGED <<noted, signed, today>>
  BY <1>1 DEF SaveOutcome
<1>3. PICK v : v = [c EXCEPT !.state = s]
  OBVIOUS
<1>4. c \in Copies /\ s \in StatesStored
  BY <1>1, <1>2 DEF RegistryInv, RegistryTyped, Errands, StatesStored, Outcomes
<1>5. v \in Copies /\ v.by = c.by /\ v.seal = c.seal /\ v.rating = c.rating
  BY <1>3, <1>4, MovedCopy
<1>6. /\ Holding(p)
      /\ c.seal # {} => clerk[p].id \in signed
      /\ \A payload \in c.seal : payload.rating = c.rating
      /\ clerk[p].cmd = "execute" \/ c.seal # {}
  BY <1>1, <1>2 DEF RegistryInv, SealFits, Holding, Is
<1>7. rows' = [rows EXCEPT ![clerk[p].id] = v]
  BY <1>2, <1>3
<1>8. /\ rows' \in [Ids -> Copies] /\ \A m \in Ids : rows'[m].by = rows[m].by
      /\ UnstoredUnsealed' /\ CreationOnRecord' /\ SealsOnRecord'
  <2>1. /\ v.by = clerk[p].copy.by
        /\ v.seal # {} => clerk[p].id \in signed
        /\ \A payload \in v.seal : payload.rating = v.rating
    BY <1>1, <1>5, <1>6
  <2>2. Holding(p) /\ noted' = noted /\ signed' = signed /\ v \in Copies
    BY <1>2, <1>5, <1>6
  <2> QED
    BY <1>7, <2>1, <2>2, Rewritten
<1>9. RegistryInv'
  BY <1>2, <1>8, EndKeeps
<1>10. UnsealedByStaleCopy
  BY <1>1, <1>5, <1>6, <1>7, StaleWrite
<1> QED
  BY <1>9, <1>10

LEMMA LeaveKeeps ==
  ASSUME RegistryInv, NEW p \in Clerks, ClerkLeaves(p)
  PROVE  RegistryInv'
<1>1. Finish(p) /\ UNCHANGED <<rows, noted, signed, today>>
  BY DEF ClerkLeaves
<1>2. /\ rows' \in [Ids -> Copies] /\ \A m \in Ids : rows'[m].by = rows[m].by
      /\ UnstoredUnsealed' /\ CreationOnRecord' /\ SealsOnRecord'
  BY <1>1, Unwritten
<1> QED
  BY <1>1, <1>2, EndKeeps

LEMMA DaysKeep ==
  ASSUME RegistryInv, UNCHANGED <<rows, noted, signed, clerk>>, today' \in Days
  PROVE  RegistryInv' /\ UnsealedByStaleCopy /\ StartsOnActive
<1>1. RegistryTyped'
  BY DEF RegistryInv, RegistryTyped
<1>2. Apart' /\ UnstoredUnsealed' /\ CreationOnRecord' /\ SealsOnRecord'
  BY DEF RegistryInv, Apart, Unstored, UnstoredUnsealed, CreationOnRecord, SealsOnRecord
<1>3. \A p \in Clerks : ErrandFits(p)' /\ SealFits(p)'
  BY DEF RegistryInv, ErrandFits, SealFits, Unstored, Holding
<1>4. UnsealedByStaleCopy /\ StartsOnActive
  BY DEF UnsealedByStaleCopy, StartsOnActive, Is
<1> QED
  BY <1>1, <1>2, <1>3, <1>4 DEF RegistryInv

\* no agent starts where the clerk of the step gets anywhere else
LEMMA NothingStarts ==
  ASSUME RegistryInv, NEW p \in Clerks, NEW e, clerk' = [clerk EXCEPT ![p] = e],
         e.at # "agent"
  PROVE  StartsOnActive
BY DEF StartsOnActive, Is, RegistryInv, RegistryTyped

LEMMA GoesElsewhere ==
  ASSUME RegistryInv, NEW p \in Clerks, NEW l \in {"store", "seal", "start", "decide", "sign"},
         Go(p, l)
  PROVE  StartsOnActive
<1>1. PICK e : e = [clerk[p] EXCEPT !.at = l]
  OBVIOUS
<1>2. clerk' = [clerk EXCEPT ![p] = e] /\ e.at = l
  BY <1>1, Going
<1> QED
  BY <1>2, NothingStarts

LEMMA RegistryStep ==
  ASSUME RegistryInv, [RegistryNext]_registryVars
  PROVE  RegistryInv' /\ UnsealedByStaleCopy /\ StartsOnActive
<1>1. CASE UNCHANGED registryVars
  <2>1. today' \in Days
    BY <1>1 DEF registryVars, RegistryInv, RegistryTyped
  <2> QED
    BY <1>1, <2>1, DaysKeep DEF registryVars
<1>2. CASE DaysPass
  BY <1>2, DaysKeep DEF DaysPass
<1>3. ASSUME NEW p \in Clerks, ProposeAny(p)
      PROVE  RegistryInv' /\ UnsealedByStaleCopy /\ StartsOnActive
  <2>1. PICK m \in Ids, by \in {"manifest", "auto", "build"}, rating \in Ratings :
          Propose(p, m, by, rating)
    BY <1>3, RequestsOrdered, RatingsKnown DEF ProposeAny
  <2>2. RegistryInv'
    BY <2>1, ProposeKeeps
  <2>3. rows' = rows
    BY <2>1 DEF Propose
  <2>4. PICK e : e = [NoErrand EXCEPT !.at = "create", !.cmd = by, !.id = m,
                                      !.copy = NewManifest(by, rating)]
    OBVIOUS
  <2>5. e.at = "create"
    BY <2>4, IdleErrand
  <2>6. clerk' = [clerk EXCEPT ![p] = e]
    BY <2>1, <2>4 DEF Propose
  <2>7. StartsOnActive
    BY <2>5, <2>6, NothingStarts
  <2> QED
    BY <2>2, <2>3, <2>7 DEF UnsealedByStaleCopy
<1>4. ASSUME NEW p \in Clerks, AuditCreation(p)
      PROVE  RegistryInv' /\ UnsealedByStaleCopy /\ StartsOnActive
  <2>1. Go(p, "store") /\ rows' = rows
    BY <1>4 DEF AuditCreation
  <2>2. StartsOnActive
    BY <2>1, GoesElsewhere
  <2> QED
    BY <1>4, <2>1, <2>2, AuditCreationKeeps DEF UnsealedByStaleCopy
<1>5. ASSUME NEW p \in Clerks, PersistManifest(p)
      PROVE  RegistryInv' /\ UnsealedByStaleCopy /\ StartsOnActive
  <2>1. rows' = [rows EXCEPT ![clerk[p].id] = clerk[p].copy]
        /\ Is(p, "store") /\ (Go(p, "sign") \/ Finish(p))
    BY <1>5 DEF PersistManifest
  <2>2. rows[clerk[p].id].seal = {}
    BY <2>1 DEF RegistryInv, ErrandFits, Unstored, Is, UnstoredUnsealed
  <2>3. UnsealedByStaleCopy
    BY <2>1, <2>2 DEF UnsealedByStaleCopy, RegistryInv, RegistryTyped
  <2>4. StartsOnActive
    <3>1. CASE Go(p, "sign")
      BY <3>1, GoesElsewhere
    <3>2. CASE Finish(p)
      BY <3>2, IdleErrand, NothingStarts DEF Finish
    <3> QED
      BY <2>1, <3>1, <3>2
  <2> QED
    BY <1>5, <2>3, <2>4, PersistKeeps
<1>6. ASSUME NEW p \in Clerks, StoreStory(p)
      PROVE  RegistryInv' /\ UnsealedByStaleCopy /\ StartsOnActive
  <2>1. PICK m \in Ids, radius \in StoryRadii :
          /\ FreshId(m)
          /\ rows' = [rows EXCEPT ![m] = NewManifest("spec", ClassifyHints(Story(radius)))]
          /\ clerk' = [clerk EXCEPT ![p] = [NoErrand EXCEPT !.at = "note", !.cmd = "spec", !.id = m]]
    BY <1>6 DEF StoreStory
  <2>2. rows[m].seal = {}
    BY <2>1 DEF FreshId, Begun, RegistryInv, UnstoredUnsealed
  <2>3. UnsealedByStaleCopy
    BY <2>1, <2>2 DEF UnsealedByStaleCopy, RegistryInv, RegistryTyped
  <2>4. [NoErrand EXCEPT !.at = "note", !.cmd = "spec", !.id = m].at = "note"
    BY IdleErrand
  <2>5. StartsOnActive
    BY <2>1, <2>4, NothingStarts
  <2> QED
    BY <1>6, <2>3, <2>5, StoreStoryKeeps
<1>7. ASSUME NEW p \in Clerks, AuditStory(p) \/ ClerkLeaves(p)
      PROVE  RegistryInv' /\ UnsealedByStaleCopy /\ StartsOnActive
  <2>1. Finish(p) /\ rows' = rows
    BY <1>7 DEF AuditStory, ClerkLeaves
  <2>2. StartsOnActive
    BY <2>1, IdleErrand, NothingStarts DEF Finish
  <2> QED
    BY <1>7, <2>1, <2>2, AuditStoryKeeps, LeaveKeeps DEF UnsealedByStaleCopy
<1>8. ASSUME NEW p \in Clerks, GetManifest(p)
      PROVE  RegistryInv' /\ UnsealedByStaleCopy /\ StartsOnActive
  <2>1. PICK m \in Ids, asked \in {"execute", "approve"} :
          /\ clerk' = [clerk EXCEPT ![p] =
                         [NoErrand EXCEPT !.at = IF asked = "execute" THEN "start" ELSE "sign",
                                          !.cmd = asked, !.id = m, !.copy = rows[m]]]
          /\ rows' = rows
    BY <1>8 DEF GetManifest
  <2>2. PICK e : e = [NoErrand EXCEPT !.at = IF asked = "execute" THEN "start" ELSE "sign",
                                      !.cmd = asked, !.id = m, !.copy = rows[m]]
    OBVIOUS
  <2>3. e.at # "agent"
    BY <2>2, IdleErrand
  <2>4. StartsOnActive
    BY <2>1, <2>2, <2>3, NothingStarts
  <2> QED
    BY <1>8, <2>1, <2>4, GetManifestKeeps DEF UnsealedByStaleCopy
<1>9. ASSUME NEW p \in Clerks, AuditSigning(p)
      PROVE  RegistryInv' /\ UnsealedByStaleCopy /\ StartsOnActive
  <2>1. Go(p, "seal") /\ rows' = rows
    BY <1>9 DEF AuditSigning
  <2>2. StartsOnActive
    BY <2>1, GoesElsewhere
  <2> QED
    BY <1>9, <2>1, <2>2, AuditSigningKeeps DEF UnsealedByStaleCopy
<1>10. ASSUME NEW p \in Clerks, AlreadySigned(p)
       PROVE  RegistryInv' /\ UnsealedByStaleCopy /\ StartsOnActive
  <2>1. PICK l \in {"start", "decide"} : Go(p, l) /\ rows' = rows
    BY <1>10 DEF AlreadySigned, NextAfterSeal
  <2>2. StartsOnActive
    BY <2>1, GoesElsewhere
  <2> QED
    BY <1>10, <2>1, <2>2, AlreadySignedKeeps DEF UnsealedByStaleCopy
<1>11. ASSUME NEW p \in Clerks, SaveSealed(p)
       PROVE  RegistryInv' /\ UnsealedByStaleCopy /\ StartsOnActive
  <2>1. PICK l \in {"start", "decide"} : clerk' = [clerk EXCEPT
          ![p].copy = SignManifest(clerk[p].copy), ![p].at = l]
    BY <1>11 DEF SaveSealed, NextAfterSeal
  <2>2. \A q \in Clerks : Is(q, "agent")' => q # p /\ clerk'[q] = clerk[q]
    BY <2>1 DEF Is, RegistryInv, RegistryTyped, Errands
  <2> QED
    BY <1>11, <2>2, SaveSealedKeeps DEF StartsOnActive, Is
<1>12. ASSUME NEW p \in Clerks, SaveInFlight(p)
       PROVE  RegistryInv' /\ UnsealedByStaleCopy /\ StartsOnActive
  <2>1. PICK v : clerk' = [clerk EXCEPT ![p].copy = v, ![p].at = "launch"]
    BY <1>12 DEF SaveInFlight
  <2>2. \A q \in Clerks : Is(q, "agent")' => q # p /\ clerk'[q] = clerk[q]
    BY <2>1 DEF Is, RegistryInv, RegistryTyped, Errands
  <2> QED
    BY <1>12, <2>2, InFlightKeeps DEF StartsOnActive, Is
<1>13. ASSUME NEW p \in Clerks, LaunchAgent(p)
       PROVE  RegistryInv' /\ UnsealedByStaleCopy /\ StartsOnActive
  BY <1>13, LaunchKeeps DEF UnsealedByStaleCopy, LaunchAgent
<1>14. ASSUME NEW p \in Clerks, Refused(p) \/ SaveOutcome(p)
       PROVE  RegistryInv' /\ UnsealedByStaleCopy /\ StartsOnActive
  <2>1. Finish(p)
    BY <1>14 DEF Refused, SaveOutcome
  <2>2. StartsOnActive
    BY <2>1, IdleErrand, NothingStarts DEF Finish
  <2> QED
    BY <1>14, <2>2, RefusedKeeps, OutcomeKeeps
<1> QED
  BY <1>1, <1>2, <1>3, <1>4, <1>5, <1>6, <1>7, <1>8, <1>9, <1>10, <1>11, <1>12, <1>13, <1>14
  DEF RegistryNext

(* Whatever commands of whatever number overlap, wherever they die: the    *)
(* ratings are ordered; a stored manifest of a request has its creation in *)
(* the ledger, and the recorded creation of a story has its row; every     *)
(* signature in the store is in the ledger and answers for the rating      *)
(* beside it; only an execute that writes back an older copy takes one     *)
(* away; and an agent starts on a copy that is active at that instant.     *)
THEOREM RegistryIsSound == RegistrySpec => RegistrySound
<1> DEFINE StepsFit == UnsealedByStaleCopy /\ StartsOnActive
           RowsFit == RatingsOrdered /\ RegistryTypeOK /\ CreationOnRecord /\ SealsOnRecord
<1>1. RegistryInit => RegistryInv
  BY RegistryBegins
<1>2. RegistryInv /\ [RegistryNext]_registryVars => RegistryInv'
  BY RegistryStep
<1>3. RegistryInv /\ [RegistryNext]_registryVars => [StepsFit]_registryVars
  BY RegistryStep
<1>4. RegistryInv => RowsFit
  <2> SUFFICES ASSUME RegistryInv PROVE RowsFit
    OBVIOUS
  <2>1. \A seal \in Seals : Cardinality(seal) <= 1
    <3>1. Cardinality({}) = 0 /\ \A x \in Payloads : Cardinality({x}) = 1
      BY FS_EmptySet, FS_Singleton
    <3>2. \A seal \in Seals : seal = {} \/ \E x \in Payloads : seal = {x}
      BY DEF Seals
    <3>3. ASSUME NEW seal \in Seals PROVE Cardinality(seal) <= 1
      <4>1. CASE seal = {}
        BY <3>1, <4>1
      <4>2. CASE \E x \in Payloads : seal = {x}
        <5>1. Cardinality(seal) = 1
          BY <3>1, <4>2
        <5> QED
          BY <5>1
      <4> QED
        BY <3>2, <4>1, <4>2
    <3> QED
      BY <3>3
  <2>2. RegistryTypeOK
    <3>1. /\ DOMAIN rows = Ids /\ signed \subseteq Ids /\ today \in Days
          /\ noted \subseteq [id : Ids, by : {"manifest", "auto", "build", "spec"}]
      BY DEF RegistryInv, RegistryTyped, Makers
    <3>2. ASSUME NEW m \in Ids
          PROVE  /\ rows[m].by \in {"none", "manifest", "auto", "build", "spec"}
                 /\ rows[m].rating \in Ratings /\ rows[m].born \in Days
                 /\ Cardinality(rows[m].seal) <= 1
      <4>1. rows[m] \in Copies
        BY DEF RegistryInv, RegistryTyped
      <4>2. rows[m].seal \in Seals
        BY <4>1 DEF Copies
      <4> QED
        BY <2>1, <4>1, <4>2 DEF Copies, Makers
    <3> QED
      BY <3>1, <3>2 DEF RegistryTypeOK
  <2> QED
    BY <2>2, Ordered DEF RegistryInv
<1> HIDE DEF StepsFit, RowsFit
<1>5. RegistrySpec => []RowsFit /\ [][StepsFit]_registryVars
  BY <1>1, <1>2, <1>3, <1>4, PTL DEF RegistrySpec
<1> QED
  BY <1>5 DEF RegistrySound, StepsFit, RowsFit

-----------------------------------------------------------------------------
(* The tables are in order: each step from a change to a decision is.      *)
LEMMA RanksOf ==
  /\ RiskRank["C"] = 1 /\ RiskRank["B"] = 2 /\ RiskRank["A"] = 3
  /\ TrustLoss["trusted"] = 0 /\ TrustLoss["candidate"] = 1
  /\ TrustLoss["watch"] = 2 /\ TrustLoss["constrained"] = 3
  /\ GateRank["agent"] = 1 /\ GateRank["hybrid"] = 2 /\ GateRank["human"] = 3
  /\ ColorRank["red"] = 0 /\ ColorRank["yellow"] = 1 /\ ColorRank["green"] = 2
BY DEF RiskRank, TrustLoss, GateRank, ColorRank

CategoryRank(category) ==
  CASE category = "tier_c_bc1_trusted" -> 1
    [] category = "tier_b_bc1_trusted_mc" -> 2
    [] category = "tier_a_or_bc2_plus" -> 3
    [] OTHER -> 4
Categories == {"tier_c_bc1_trusted", "tier_b_bc1_trusted_mc", "tier_a_or_bc2_plus", "non_trusted"}

LEMMA CategoryOrdered ==
  ASSUME NEW tier \in Risks, NEW tier2 \in Risks, NEW trust \in Trusts, NEW trust2 \in Trusts,
         NEW bc \in Behaviors, NEW bc2 \in Behaviors,
         RiskRank[tier] <= RiskRank[tier2], TrustLoss[trust] <= TrustLoss[trust2], bc <= bc2
  PROVE  /\ TrustCategory(tier, bc, trust) \in Categories
         /\ TrustCategory(tier2, bc2, trust2) \in Categories
         /\ CategoryRank(TrustCategory(tier, bc, trust))
              <= CategoryRank(TrustCategory(tier2, bc2, trust2))
<1>1. /\ tier \in {"A", "B", "C"} /\ tier2 \in {"A", "B", "C"} /\ bc \in 1..3 /\ bc2 \in 1..3
      /\ trust \in {"trusted", "candidate", "watch", "constrained"}
      /\ trust2 \in {"trusted", "candidate", "watch", "constrained"}
  BY DEF Risks, Trusts, Behaviors
<1>2. /\ trust2 = "trusted" => trust = "trusted"
      /\ tier = "A" => tier2 = "A"
      /\ tier = "B" => tier2 \in {"A", "B"}
      /\ bc > 1 => bc2 > 1
  BY <1>1, RanksOf
<1> QED
  BY <1>1, <1>2 DEF TrustCategory, CategoryRank, Categories

LEMMA GateOrdered ==
  ASSUME NEW step \in KnownPhases, NEW low \in Categories, NEW high \in Categories,
         CategoryRank(low) <= CategoryRank(high)
  PROVE  /\ GateTypeMatrix(step, low) \in {"agent", "hybrid", "human"}
         /\ GateTypeMatrix(step, high) \in {"agent", "hybrid", "human"}
         /\ GateRank[GateTypeMatrix(step, low)] <= GateRank[GateTypeMatrix(step, high)]
<1>1. /\ GateTypeMatrix(step, "non_trusted") = "human"
      /\ GateTypeMatrix(step, "tier_a_or_bc2_plus") = "human"
      /\ GateTypeMatrix(step, "tier_b_bc1_trusted_mc")
           = IF step \in {5, 7} THEN "agent" ELSE IF step \in {2, 6, 10} THEN "hybrid" ELSE "human"
      /\ GateTypeMatrix(step, "tier_c_bc1_trusted")
           = IF step \in {2, 5, 6, 7, 10} THEN "agent" ELSE "hybrid"
  BY DEF GateTypeMatrix
<1>2. step \in 1..10
  BY DEF KnownPhases
<1>3. \A category \in Categories : GateTypeMatrix(step, category) \in {"agent", "hybrid", "human"}
  BY <1>1, <1>2 DEF Categories
<1>4. CASE low = high
  BY <1>3, <1>4, RanksOf
<1>5. CASE high \in {"non_trusted", "tier_a_or_bc2_plus"}
  BY <1>1, <1>3, <1>5, RanksOf
<1>6. CASE low = "tier_c_bc1_trusted" /\ high = "tier_b_bc1_trusted_mc"
  BY <1>1, <1>2, <1>6, RanksOf
<1>7. low = high \/ high \in {"non_trusted", "tier_a_or_bc2_plus"}
        \/ (low = "tier_c_bc1_trusted" /\ high = "tier_b_bc1_trusted_mc")
  BY DEF CategoryRank, Categories
<1> QED
  BY <1>3, <1>4, <1>5, <1>6, <1>7

LEMMA ElevationOrdered ==
  ASSUME NEW low \in {"agent", "hybrid", "human"}, NEW high \in {"agent", "hybrid", "human"},
         NEW sure \in Int, NEW less \in Int, GateRank[low] <= GateRank[high], less <= sure
  PROVE  GateRank[ApplyConfidenceElevation(low, sure)]
           <= GateRank[ApplyConfidenceElevation(high, less)]
<1>1. /\ high = "agent" => low = "agent"
      /\ low = "human" => high = "human"
  BY RanksOf
<1>2. CASE less < 70
  <2>1. ApplyConfidenceElevation(high, less) = "human"
    BY <1>2 DEF ApplyConfidenceElevation
  <2>2. ApplyConfidenceElevation(low, sure) \in {"agent", "hybrid", "human"}
    BY DEF ApplyConfidenceElevation
  <2> QED
    BY <2>1, <2>2, RanksOf
<1>3. CASE ~(less < 70)
  <2>1. /\ ApplyConfidenceElevation(low, sure) \in {"agent", "hybrid", "human"}
        /\ ApplyConfidenceElevation(high, less) \in {"agent", "hybrid", "human"}
        /\ ApplyConfidenceElevation(high, less) = "agent" => ApplyConfidenceElevation(low, sure) = "agent"
        /\ ApplyConfidenceElevation(low, sure) = "human" => ApplyConfidenceElevation(high, less) = "human"
    BY <1>1, <1>3 DEF ApplyConfidenceElevation
  <2> QED
    BY <2>1, RanksOf
<1> QED
  BY <1>2, <1>3

LEMMA TriageOrdered ==
  ASSUME NEW tier \in Risks, NEW tier2 \in Risks, NEW trust \in Trusts, NEW trust2 \in Trusts,
         RiskRank[tier] <= RiskRank[tier2], TrustLoss[trust] <= TrustLoss[trust2],
         NEW green \in BOOLEAN
  PROVE  /\ ColorRank[TriageMatrix(tier2, trust2, FALSE)] <= ColorRank[TriageMatrix(tier, trust, green)]
         /\ ColorRank[TriageMatrix(tier2, trust2, TRUE)] <= ColorRank[TriageMatrix(tier, trust, TRUE)]
<1>1. /\ tier \in {"A", "B", "C"} /\ tier2 \in {"A", "B", "C"}
      /\ trust \in {"trusted", "candidate", "watch", "constrained"}
      /\ trust2 \in {"trusted", "candidate", "watch", "constrained"}
  BY DEF Risks, Trusts
<1>2. /\ trust2 = "trusted" => trust = "trusted"
      /\ tier2 = "C" => tier = "C"
      /\ RiskRank[tier] + TrustLoss[trust] <= RiskRank[tier2] + TrustLoss[trust2]
      /\ RiskRank[tier] + TrustLoss[trust] \in Int /\ RiskRank[tier2] + TrustLoss[trust2] \in Int
  BY <1>1, RanksOf
<1> DEFINE p == RiskRank[tier] + TrustLoss[trust]
           p2 == RiskRank[tier2] + TrustLoss[trust2]
<1>3. /\ TriageMatrix(tier2, trust2, FALSE)
           = IF tier2 = "C" /\ trust2 = "trusted" THEN "yellow" ELSE "red"
      /\ TriageMatrix(tier2, trust2, TRUE)
           = IF tier2 = "C" /\ trust2 = "trusted" THEN "green"
             ELSE IF trust2 = "trusted" \/ p2 <= 3 THEN "yellow" ELSE "red"
      /\ TriageMatrix(tier, trust, FALSE)
           = IF tier = "C" /\ trust = "trusted" THEN "yellow" ELSE "red"
      /\ TriageMatrix(tier, trust, TRUE)
           = IF tier = "C" /\ trust = "trusted" THEN "green"
             ELSE IF trust = "trusted" \/ p <= 3 THEN "yellow" ELSE "red"
  BY DEF TriageMatrix
<1> HIDE DEF p, p2
<1>4. p <= p2 /\ p \in Int /\ p2 \in Int
  BY <1>2 DEF p, p2
<1>5. ColorRank[TriageMatrix(tier2, trust2, TRUE)] <= ColorRank[TriageMatrix(tier, trust, TRUE)]
  <2>1. PICK high, low : /\ high = TriageMatrix(tier2, trust2, TRUE)
                         /\ low = TriageMatrix(tier, trust, TRUE)
    OBVIOUS
  <2>4. /\ high = IF tier2 = "C" /\ trust2 = "trusted" THEN "green"
                  ELSE IF trust2 = "trusted" \/ p2 <= 3 THEN "yellow" ELSE "red"
        /\ low = IF tier = "C" /\ trust = "trusted" THEN "green"
                 ELSE IF trust = "trusted" \/ p <= 3 THEN "yellow" ELSE "red"
    BY <1>3, <2>1
  <2>5. p2 <= 3 => p <= 3
    BY <1>4
  <2>2. /\ high \in {"red", "yellow", "green"} /\ low \in {"red", "yellow", "green"}
        /\ high = "green" => low = "green"
        /\ high = "yellow" => low # "red"
    BY <1>2, <2>4, <2>5
  <2>3. ColorRank[high] <= ColorRank[low]
    BY <2>2, RanksOf
  <2> QED
    BY <2>1, <2>3
<1>6. ASSUME NEW now \in BOOLEAN
      PROVE  ColorRank[TriageMatrix(tier2, trust2, FALSE)] <= ColorRank[TriageMatrix(tier, trust, now)]
  <2>1. PICK high, low : high = TriageMatrix(tier2, trust2, FALSE) /\ low = TriageMatrix(tier, trust, now)
    OBVIOUS
  <2>2. now = TRUE \/ now = FALSE
    OBVIOUS
  <2>3. /\ high \in {"red", "yellow"} /\ low \in {"red", "yellow", "green"}
        /\ high = "yellow" => low # "red"
    BY <1>2, <1>3, <1>4, <2>1, <2>2
  <2>4. ColorRank[high] <= ColorRank[low]
    BY <2>3, RanksOf
  <2> QED
    BY <2>1, <2>4
<1> QED
  BY <1>5, <1>6

LEMMA TablesAreOrdered == TablesOrdered
<1> SUFFICES ASSUME NEW tier \in Risks, NEW tier2 \in Risks, NEW trust \in Trusts, NEW trust2 \in Trusts,
                    RiskRank[tier] <= RiskRank[tier2], TrustLoss[trust] <= TrustLoss[trust2]
             PROVE
      /\ \A step \in KnownPhases, bc \in Behaviors, bc2 \in Behaviors : bc <= bc2 =>
           \A sure, less \in Certainties : less <= sure =>
             GateRank[ApplyConfidenceElevation(
                        GateTypeMatrix(step, TrustCategory(tier, bc, trust)), sure)]
               <= GateRank[ApplyConfidenceElevation(
                             GateTypeMatrix(step, TrustCategory(tier2, bc2, trust2)), less)]
      /\ \A green \in BOOLEAN :
           ColorRank[TriageMatrix(tier2, trust2, FALSE)] <= ColorRank[TriageMatrix(tier, trust, green)]
      /\ ColorRank[TriageMatrix(tier2, trust2, TRUE)] <= ColorRank[TriageMatrix(tier, trust, TRUE)]
  BY DEF TablesOrdered
<1>1. ASSUME NEW step \in KnownPhases, NEW bc \in Behaviors, NEW bc2 \in Behaviors, bc <= bc2,
             NEW sure \in Certainties, NEW less \in Certainties, less <= sure
      PROVE  GateRank[ApplyConfidenceElevation(
                        GateTypeMatrix(step, TrustCategory(tier, bc, trust)), sure)]
               <= GateRank[ApplyConfidenceElevation(
                             GateTypeMatrix(step, TrustCategory(tier2, bc2, trust2)), less)]
  <2>1. sure \in Int /\ less \in Int
    BY GateBounds
  <2>2. /\ TrustCategory(tier, bc, trust) \in Categories
        /\ TrustCategory(tier2, bc2, trust2) \in Categories
        /\ CategoryRank(TrustCategory(tier, bc, trust)) <= CategoryRank(TrustCategory(tier2, bc2, trust2))
    BY <1>1, CategoryOrdered
  <2> QED
    BY <1>1, <2>1, <2>2, GateOrdered, ElevationOrdered
<1>2. ASSUME NEW green \in BOOLEAN
      PROVE  /\ ColorRank[TriageMatrix(tier2, trust2, FALSE)] <= ColorRank[TriageMatrix(tier, trust, green)]
             /\ ColorRank[TriageMatrix(tier2, trust2, TRUE)] <= ColorRank[TriageMatrix(tier, trust, TRUE)]
  BY TriageOrdered
<1>3. ColorRank[TriageMatrix(tier2, trust2, TRUE)] <= ColorRank[TriageMatrix(tier, trust, TRUE)]
  BY <1>2
<1> QED
  BY <1>1, <1>2, <1>3

LEMMA NoHumanGate == AutoApprovalMeetsNoHumanGate
<1> SUFFICES ASSUME NEW tier \in Risks, NEW trust \in Trusts, NEW bc \in Behaviors,
                    NEW seen \in SensorResults, EvaluateAutoApproval(tier, trust, seen, bc),
                    NEW step \in KnownPhases
             PROVE  GateTypeMatrix(step, TrustCategory(tier, bc, trust)) # "human"
  BY DEF AutoApprovalMeetsNoHumanGate
<1>1. tier = "C" /\ trust = "trusted" /\ bc = 1
  <2>1. TriageDecision(tier, trust, seen).eligible /\ bc = 1
    BY DEF EvaluateAutoApproval
  <2> QED
    BY <2>1 DEF TriageDecision
<1>2. TrustCategory(tier, bc, trust) = "tier_c_bc1_trusted"
  BY <1>1 DEF TrustCategory
<1> QED
  BY <1>2 DEF GateTypeMatrix

LEMMA PoliciesDoAgree == PoliciesAgree
BY DEF PoliciesAgree, ClaimedFileAllowed, OutOfScopeChanges, CheckFileAccess

-----------------------------------------------------------------------------
(* What an evaluator knows of a profile is what this process saw of it, and *)
(* what a command shows came from a packet or from the sensors.            *)
PlacesOf(p, seen) == {i \in DOMAIN seen : seen[i] = p}

EvaluationsFit ==
  /\ evaluations \in [Profiles -> Nat] /\ history \in Seq(Profiles)
  /\ Len(history) <= MaxEvaluations
  /\ \A p \in Profiles : evaluations[p] = Cardinality(PlacesOf(p, history))

VerdictFits ==
  verdict = NoVerdict \/
    /\ verdict.profile \in Profiles /\ verdict.gate \in {"agent", "hybrid", "human"}
    /\ ~verdict.meta => verdict.tier # "A" /\ evaluations[verdict.profile] - 1 >= Threshold

ColorOf(tier, trust, seen) == TriageDecision(tier, trust, seen).color

TriageFits ==
  /\ results \in SensorResults
  /\ shelf = NoPacket \/
       /\ shelf.tier \in Risks /\ shelf.results \in SensorResults
       /\ shelf.color = ColorOf(shelf.tier, "trusted", shelf.results)
  /\ shown = NothingShown \/
       /\ ~shown.eligible /\ shown.tier \in Risks
       /\ ~shown.live => shelf # NoPacket /\ shown.color = shelf.color
       /\ shown.live => \E seen \in SensorResults : shown.color = ColorOf(shown.tier, "candidate", seen)

GateInv == EvaluationsFit /\ VerdictFits /\ TriageFits

LEMMA PlacesCounted ==
  ASSUME NEW seen \in Seq(Profiles), NEW p \in Profiles
  PROVE  /\ IsFiniteSet(PlacesOf(p, seen)) /\ Cardinality(PlacesOf(p, seen)) \in Nat
         /\ Cardinality(PlacesOf(p, seen)) <= Len(seen)
         /\ \A q \in Profiles : Cardinality(PlacesOf(q, Append(seen, p)))
              = IF q = p THEN Cardinality(PlacesOf(q, seen)) + 1 ELSE Cardinality(PlacesOf(q, seen))
<1>1. DOMAIN seen = 1..Len(seen) /\ Len(seen) \in Nat
  OBVIOUS
<1>2. IsFiniteSet(1..Len(seen)) /\ Cardinality(1..Len(seen)) = Len(seen)
  BY <1>1, FS_Interval
<1>3. \A q \in Profiles : /\ IsFiniteSet(PlacesOf(q, seen)) /\ Cardinality(PlacesOf(q, seen)) \in Nat
                          /\ Cardinality(PlacesOf(q, seen)) <= Len(seen)
  <2> TAKE q \in Profiles
  <2>1. PlacesOf(q, seen) \subseteq 1..Len(seen)
    BY <1>1 DEF PlacesOf
  <2> QED
    BY <1>2, <2>1, FS_Subset, FS_CardinalityType
<1>4. ASSUME NEW q \in Profiles
      PROVE  Cardinality(PlacesOf(q, Append(seen, p)))
               = IF q = p THEN Cardinality(PlacesOf(q, seen)) + 1 ELSE Cardinality(PlacesOf(q, seen))
  <2>1. PlacesOf(q, Append(seen, p))
          = IF q = p THEN PlacesOf(q, seen) \cup {Len(seen) + 1} ELSE PlacesOf(q, seen)
    BY <1>1, AppendProperties DEF PlacesOf
  <2>2. Len(seen) + 1 \notin PlacesOf(q, seen)
    BY <1>1 DEF PlacesOf
  <2>3. Cardinality(PlacesOf(q, seen) \cup {Len(seen) + 1}) = Cardinality(PlacesOf(q, seen)) + 1
    BY <1>3, <2>2, FS_AddElement
  <2> QED
    BY <2>1, <2>3
<1> QED
  BY <1>3, <1>4

LEMMA NothingCounted == \A p \in Profiles : Cardinality(PlacesOf(p, <<>>)) = 0
<1> TAKE p \in Profiles
<1>1. PlacesOf(p, <<>>) = {}
  BY DEF PlacesOf
<1> QED
  BY <1>1, FS_EmptySet

(* A change that nobody trusts yet is never green, is only not red where   *)
(* the sensors are green, and would fare no worse if it were trusted.      *)
LEMMA CandidateShown ==
  ASSUME NEW tier \in Risks, NEW seen \in SensorResults
  PROVE  /\ ColorOf(tier, "candidate", seen) \in {"red", "yellow"}
         /\ ColorOf(tier, "trusted", seen) \in {"red", "yellow", "green"}
         /\ ColorOf(tier, "candidate", seen) # "red" => SensorsGreen(seen)
         /\ ColorRank[ColorOf(tier, "candidate", seen)] <= ColorRank[ColorOf(tier, "trusted", seen)]
         /\ ~TriageDecision(tier, "candidate", seen).eligible
<1>1. tier \in {"A", "B", "C"}
  BY DEF Risks
<1>2. PICK green \in BOOLEAN : green = SensorsGreen(seen)
  BY DEF SensorsGreen
<1>3. \A trust \in Trusts : ColorOf(tier, trust, seen) = TriageMatrix(tier, trust, green)
  BY <1>2 DEF ColorOf, TriageDecision
<1>4. "candidate" \in Trusts /\ "trusted" \in Trusts
  BY DEF Trusts
<1>5. /\ TriageMatrix(tier, "candidate", green)
           = IF green /\ RiskRank[tier] + TrustLoss["candidate"] <= 3 THEN "yellow" ELSE "red"
      /\ TriageMatrix(tier, "trusted", green)
           = IF tier = "C" THEN (IF green THEN "green" ELSE "yellow")
             ELSE IF green THEN "yellow" ELSE "red"
  BY DEF TriageMatrix
<1>6. ColorRank[TriageMatrix(tier, "candidate", green)] <= ColorRank[TriageMatrix(tier, "trusted", green)]
  <2>1. PICK high, low : high = TriageMatrix(tier, "candidate", green) /\ low = TriageMatrix(tier, "trusted", green)
    OBVIOUS
  <2>2. /\ high \in {"red", "yellow"} /\ low \in {"red", "yellow", "green"}
        /\ high = "yellow" => low # "red"
    BY <1>5, <2>1
  <2> QED
    BY <2>1, <2>2, RanksOf
<1>7. ~TriageDecision(tier, "candidate", seen).eligible
  BY DEF TriageDecision
<1> QED
  BY <1>2, <1>3, <1>4, <1>5, <1>6, <1>7

LEMMA GateBegins == GateInit => GateInv
<1> SUFFICES ASSUME GateInit PROVE GateInv
  OBVIOUS
<1>1. EvaluationsFit
  <2>1. /\ evaluations \in [Profiles -> Nat] /\ history = <<>>
        /\ \A p \in Profiles : evaluations[p] = 0
    BY DEF GateInit
  <2> QED
    BY <2>1, NothingCounted, GateBounds DEF EvaluationsFit
<1> QED
  BY <1>1 DEF GateInit, GateInv, VerdictFits, TriageFits, SensorResults

LEMMA EvaluateKeeps ==
  ASSUME GateInv,
         NEW step \in SampledPhases, NEW tier \in Risks, NEW bc \in Behaviors, NEW trust \in Trusts,
         NEW certainty \in Certainties, NEW profile \in Profiles,
         Evaluate(step, tier, bc, trust, certainty, profile)
  PROVE  GateInv'
<1>1. step \in KnownPhases /\ Len(history) < MaxEvaluations
  BY DEF Evaluate
<1>2. PICK meta \in ShouldMetaReview(tier, profile), hidden \in BOOLEAN :
        verdict' = [profile |-> profile, base |-> GateTypeMatrix(step, TrustCategory(tier, bc, trust)),
                    tier |-> tier,
                    gate |-> ApplyConfidenceElevation(
                               GateTypeMatrix(step, TrustCategory(tier, bc, trust)), certainty),
                    meta |-> meta, hidden |-> hidden]
  BY DEF Evaluate
<1>3. /\ history \in Seq(Profiles) /\ evaluations \in [Profiles -> Nat]
      /\ \A p \in Profiles : evaluations[p] = Cardinality(PlacesOf(p, history))
  BY DEF GateInv, EvaluationsFit
<1>4. evaluations' = [evaluations EXCEPT ![profile] = evaluations[profile] + 1]
      /\ history' = Append(history, profile)
  BY DEF Evaluate
<1>5. EvaluationsFit'
  <2>1. evaluations' \in [Profiles -> Nat] /\ history' \in Seq(Profiles) /\ Len(history') = Len(history) + 1
    BY <1>3, <1>4
  <2>2. \A q \in Profiles : Cardinality(PlacesOf(q, Append(history, profile)))
          = IF q = profile THEN Cardinality(PlacesOf(q, history)) + 1 ELSE Cardinality(PlacesOf(q, history))
    BY <1>3, PlacesCounted
  <2>3. \A q \in Profiles : evaluations'[q] = Cardinality(PlacesOf(q, history'))
    BY <1>3, <1>4, <2>2
  <2>4. Len(history) \in Nat /\ MaxEvaluations \in Nat
    BY <1>3, GateBounds
  <2> QED
    BY <1>1, <2>1, <2>3, <2>4 DEF EvaluationsFit
<1>6. VerdictFits'
  <2>1. GateTypeMatrix(step, TrustCategory(tier, bc, trust)) \in {"agent", "hybrid", "human"}
    <3>1. TrustCategory(tier, bc, trust) \in Categories
      BY DEF TrustCategory, Categories
    <3>2. CategoryRank(TrustCategory(tier, bc, trust)) <= CategoryRank(TrustCategory(tier, bc, trust))
      BY <3>1 DEF CategoryRank, Categories
    <3> QED
      BY <1>1, <3>1, <3>2, GateOrdered
  <2>2. verdict'.gate \in {"agent", "hybrid", "human"}
    BY <1>2, <2>1 DEF ApplyConfidenceElevation
  <2>3. verdict'.profile = profile /\ verdict'.tier = tier /\ verdict'.meta = meta
    BY <1>2
  <2>4. ASSUME ~meta PROVE tier # "A" /\ evaluations[profile] >= Threshold
    <3>1. ASSUME evaluations[profile] < Threshold \/ tier = "A" PROVE FALSE
      <4>1. ShouldMetaReview(tier, profile) = {TRUE}
        BY <3>1 DEF ShouldMetaReview
      <4>2. meta = TRUE
        BY <4>1
      <4> QED
        BY <2>4, <4>2
    <3>2. evaluations[profile] \in Nat /\ Threshold \in Nat
      BY <1>3, GateBounds
    <3> QED
      BY <3>1, <3>2
  <2>5. evaluations'[profile] - 1 = evaluations[profile]
    BY <1>3, <1>4
  <2> QED
    BY <2>2, <2>3, <2>4, <2>5 DEF VerdictFits
<1>7. TriageFits'
  BY DEF GateInv, TriageFits, Evaluate
<1> QED
  BY <1>5, <1>6, <1>7 DEF GateInv

LEMMA GateStep == GateInv /\ [GateNext]_gateVars => GateInv'
<1> SUFFICES ASSUME GateInv, [GateNext]_gateVars PROVE GateInv'
  OBVIOUS
<1> USE DEF GateInv
<1>0. /\ UNCHANGED <<evaluations, history>> => EvaluationsFit'
      /\ UNCHANGED <<evaluations, verdict>> => VerdictFits'
      /\ UNCHANGED <<results, shelf, shown>> => TriageFits'
  BY DEF EvaluationsFit, VerdictFits, TriageFits
<1>1. CASE UNCHANGED gateVars
  BY <1>0, <1>1 DEF gateVars
<1>2. CASE \E step \in SampledPhases, tier \in Risks, bc \in Behaviors, trust \in Trusts,
              certainty \in Certainties, profile \in Profiles :
             Evaluate(step, tier, bc, trust, certainty, profile)
  BY <1>2, EvaluateKeeps
<1>3. CASE Serve
  BY <1>0, <1>3 DEF Serve, VerdictFits
<1>4. CASE GateCommandEnds
  <2>1. /\ evaluations' \in [Profiles -> Nat] /\ history' = <<>> /\ verdict' = NoVerdict
        /\ \A p \in Profiles : evaluations'[p] = 0
    BY <1>4 DEF GateCommandEnds
  <2>2. EvaluationsFit'
    BY <2>1, NothingCounted, GateBounds DEF EvaluationsFit
  <2> QED
    BY <1>0, <1>4, <2>1, <2>2 DEF GateCommandEnds, VerdictFits
<1>5. CASE SensorsChange
  BY <1>0, <1>5 DEF SensorsChange, TriageFits
<1>6. CASE \E tier \in Risks : BuildTriages(tier)
  <2>1. PICK tier \in Risks : BuildTriages(tier)
    BY <1>6
  <2>2. shelf' = [color |-> ColorOf(tier, "trusted", results), tier |-> tier, results |-> results]
        /\ shown' = NothingShown /\ UNCHANGED <<evaluations, history, verdict, results>>
    BY <2>1 DEF BuildTriages, ColorOf
  <2>3. TriageFits'
    BY <2>2 DEF TriageFits
  <2> QED
    BY <1>0, <2>2, <2>3
<1>7. CASE \E tier \in Risks, refresh \in BOOLEAN : ShowTriage(tier, refresh)
  <2>1. PICK tier \in Risks, refresh \in BOOLEAN : ShowTriage(tier, refresh)
    BY <1>7
  <2>2. UNCHANGED <<evaluations, history, verdict, results, shelf>>
    BY <2>1 DEF ShowTriage
  <2>3. CASE shelf # NoPacket /\ ~refresh
    <3>1. shown' = [color |-> shelf.color, tier |-> tier, live |-> FALSE, eligible |-> FALSE]
      BY <2>1, <2>3 DEF ShowTriage
    <3>2. TriageFits'
      BY <2>2, <2>3, <3>1 DEF TriageFits
    <3> QED
      BY <1>0, <2>2, <3>2
  <2>4. CASE ~(shelf # NoPacket /\ ~refresh)
    <3>1. shown' = [color |-> ColorOf(tier, "candidate", results), tier |-> tier, live |-> TRUE,
                    eligible |-> TriageDecision(tier, "candidate", results).eligible]
      BY <2>1, <2>4 DEF ShowTriage, ColorOf
    <3>2. ~TriageDecision(tier, "candidate", results).eligible
      BY CandidateShown DEF TriageFits
    <3>3. TriageFits'
      BY <2>2, <3>1, <3>2 DEF TriageFits
    <3> QED
      BY <1>0, <2>2, <3>3
  <2> QED
    BY <2>3, <2>4
<1>8. CASE TriageCommandEnds
  BY <1>0, <1>8 DEF TriageCommandEnds, TriageFits
<1> QED
  BY <1>1, <1>2, <1>3, <1>4, <1>5, <1>6, <1>7, <1>8 DEF GateNext

LEMMA GateHolds == GateInv => GatesSound
<1> SUFFICES ASSUME GateInv PROVE GatesSound
  OBVIOUS
<1> USE DEF GateInv
<1>1. GateTypeOK
  <2>1. \A p \in Profiles : evaluations[p] <= MaxEvaluations
    <3> TAKE p \in Profiles
    <3>1. Cardinality(PlacesOf(p, history)) \in Nat /\ Cardinality(PlacesOf(p, history)) <= Len(history)
      BY PlacesCounted DEF EvaluationsFit
    <3>2. Len(history) \in Nat /\ MaxEvaluations \in Nat
      BY GateBounds DEF EvaluationsFit
    <3> QED
      BY <3>1, <3>2 DEF EvaluationsFit
  <2>2. evaluations \in [Profiles -> 0..MaxEvaluations]
    BY <2>1, GateBounds DEF EvaluationsFit
  <2>3. verdict = NoVerdict \/ verdict.gate \in DOMAIN GateRank
    BY DEF VerdictFits, GateRank
  <2>4. \A tier \in Risks, seen \in SensorResults :
          /\ ColorOf(tier, "trusted", seen) \in {"red", "yellow", "green"}
          /\ ColorOf(tier, "candidate", seen) \in {"red", "yellow"}
    BY CandidateShown
  <2>5. shelf.color \in {"none", "red", "yellow", "green"}
    BY <2>4 DEF TriageFits, NoPacket
  <2>6. shown.color \in {"none", "red", "yellow", "green"}
    BY <2>4, <2>5 DEF TriageFits, NothingShown
  <2> QED
    BY <2>2, <2>3, <2>5, <2>6 DEF GateTypeOK, EvaluationsFit, TriageFits
<1>2. MetaReviewDue
  <2>1. ASSUME NEW p \in Profiles PROVE Earlier(p) = evaluations[p] - 1
    BY DEF Earlier, EvaluationsFit, PlacesOf
  <2> QED
    BY <2>1 DEF MetaReviewDue, VerdictFits
<1>3. ColorsHonest
  <2> SUFFICES ASSUME shown # NothingShown
               PROVE
        /\ ~shown.eligible
        /\ ~shown.live => shown.color = TriageDecision(shelf.tier, "trusted", shelf.results).color
        /\ shown.live => shown.color # "green" /\ \E seen \in SensorResults :
                           /\ shown.color # "red" => SensorsGreen(seen)
                           /\ ColorRank[shown.color] <= ColorRank[TriageDecision(shown.tier, "trusted", seen).color]
    BY DEF ColorsHonest
  <2>1. ~shown.eligible /\ (~shown.live => shown.color = ColorOf(shelf.tier, "trusted", shelf.results))
    BY DEF TriageFits
  <2>2. ASSUME shown.live
        PROVE  shown.color # "green" /\ \E seen \in SensorResults :
                 /\ shown.color # "red" => SensorsGreen(seen)
                 /\ ColorRank[shown.color] <= ColorRank[ColorOf(shown.tier, "trusted", seen)]
    <3>1. PICK seen \in SensorResults : shown.color = ColorOf(shown.tier, "candidate", seen)
      BY <2>2 DEF TriageFits
    <3>2. shown.tier \in Risks
      BY DEF TriageFits
    <3>3. /\ ColorOf(shown.tier, "candidate", seen) \in {"red", "yellow"}
          /\ ColorOf(shown.tier, "candidate", seen) # "red" => SensorsGreen(seen)
          /\ ColorRank[ColorOf(shown.tier, "candidate", seen)] <= ColorRank[ColorOf(shown.tier, "trusted", seen)]
      BY <3>2, CandidateShown
    <3> QED
      BY <3>1, <3>3
  <2> QED
    BY <2>1, <2>2 DEF ColorOf
<1> QED
  BY <1>1, <1>2, <1>3, TablesAreOrdered, NoHumanGate, PoliciesDoAgree DEF GatesSound

-----------------------------------------------------------------------------
(* The prompt of a repair: where a kind comes before another one, its      *)
(* worst finding does.                                                     *)
LEMMA WorstExists ==
  ASSUME NEW batch \in SUBSET Findings, NEW f \in batch
  PROVE  /\ WorstOf(f.kind, batch) \in SeverityRanks
         /\ \E h \in batch : h.kind = f.kind /\ h.severity = WorstOf(f.kind, batch)
         /\ \A h \in batch : h.kind = f.kind => WorstOf(f.kind, batch) <= h.severity
<1> DEFINE S == {g \in batch : g.kind = f.kind}
           T == {g.severity : g \in S}
<1>1. T \subseteq 0..3 /\ f.severity \in T
  BY DEF Findings, SeverityRanks
<1>2. \E s \in T : \A t \in T : s <= t
  <2> HIDE DEF T
  <2>1. CASE 0 \in T
    BY <1>1, <2>1
  <2>2. CASE 0 \notin T /\ 1 \in T
    BY <1>1, <2>2
  <2>3. CASE 0 \notin T /\ 1 \notin T /\ 2 \in T
    BY <1>1, <2>3
  <2>4. CASE 0 \notin T /\ 1 \notin T /\ 2 \notin T
    <3>1. \A t \in T : t = 3
      BY <1>1, <2>4
    <3>2. \A t \in T : 3 <= t
      BY <3>1
    <3> QED
      BY <1>1, <3>1, <3>2
  <2> QED
    BY <2>1, <2>2, <2>3, <2>4
<1>3. \E s \in T : \A h \in batch : h.kind = f.kind => s <= h.severity
  BY <1>2
<1>4. WorstOf(f.kind, batch)
        = CHOOSE s \in T : \A h \in batch : h.kind = f.kind => s <= h.severity
  BY DEF WorstOf
<1>5. /\ WorstOf(f.kind, batch) \in T
      /\ \A h \in batch : h.kind = f.kind => WorstOf(f.kind, batch) <= h.severity
  BY <1>3, <1>4
<1> QED
  BY <1>1, <1>5 DEF SeverityRanks

LEMMA PromptIsOrdered == PromptOrdered
<1> SUFFICES ASSUME NEW batch \in SUBSET Findings, NEW f \in batch, NEW g \in batch,
                    PromptedBefore(f, g, batch), g.severity < f.severity
             PROVE  \E h \in batch : /\ h.kind = f.kind /\ h.severity <= g.severity
                                     /\ PromptedBefore(h, g, batch)
  BY DEF PromptOrdered
<1> DEFINE wf == WorstOf(f.kind, batch) wg == WorstOf(g.kind, batch)
<1>1. /\ f.severity \in 0..3 /\ g.severity \in 0..3 /\ f.kind \in 1..3 /\ g.kind \in 1..3
  BY DEF Findings, SeverityRanks, FindingKinds
<1>2. /\ wf \in 0..3 /\ wg \in 0..3 /\ wg <= g.severity
      /\ \E h \in batch : h.kind = f.kind /\ h.severity = wf
  BY WorstExists DEF SeverityRanks
<1> HIDE DEF wf, wg
<1>3. f.kind # g.kind
  BY <1>1 DEF PromptedBefore
<1>4. wf < wg \/ (wf = wg /\ f.kind < g.kind)
  BY <1>3 DEF PromptedBefore, wf, wg
<1>5. PICK h \in batch : h.kind = f.kind /\ h.severity = wf
  BY <1>2
<1>6. h.severity <= g.severity
  BY <1>1, <1>2, <1>4, <1>5
<1>7. PromptedBefore(h, g, batch)
  BY <1>3, <1>4, <1>5 DEF PromptedBefore, wf, wg
<1> QED
  BY <1>5, <1>6, <1>7

(* What bounds the loop: each claim but the last was answered by a repair. *)
LoopTyped ==
  loop \in [at : {"agent", "gate", "passed", "failed", "no_progress"}, limit : RepairLimits,
            attempt : Nat, retries : Nat, claimed : [Claims -> Nat], verified : [Claims -> Nat]]

LoopInv ==
  /\ LoopTyped
  /\ loop.retries = loop.attempt /\ loop.attempt <= loop.limit /\ loop.attempt <= RetryLimit
  /\ \A c \in Claims :
       /\ loop.verified[c] <= 3 /\ loop.verified[c] <= loop.claimed[c]
       /\ loop.claimed[c] <= loop.attempt + 1
       /\ loop.at = "agent" => loop.claimed[c] <= loop.attempt
       /\ loop.at # "no_progress" => loop.claimed[c] <= 3
  /\ loop.at = "no_progress" => \E c \in Claims : loop.claimed[c] > 3

Tasks ==
  [tier : {"A", "B", "C"}, retries : 0..RetryLimit, tokens : Nat, careful : BOOLEAN, model : Models]

TaskInv ==
  /\ task \in Tasks /\ BudgetKept
  /\ task.retries < RetryLimit => second = {}
  /\ task.retries = RetryLimit =>
       \/ task.tier # "A" /\ second = {}
       \/ /\ task.tier = "A"
          /\ \E m \in Models \ {task.model} : second = {[model |-> m, retry |-> RetryLimit]}

BreakerInv ==
  /\ breaker \in [depth : Nat, spawns : Nat, tripped : BOOLEAN, dispatched : Nat]
  /\ breaker.spawns = breaker.depth /\ breaker.dispatched <= breaker.depth
  /\ DelegationsBounded

RepairInv == LoopInv /\ TaskInv /\ BreakerInv

LEMMA RepairBegins == RepairInit => RepairInv
<1> SUFFICES ASSUME RepairInit PROVE RepairInv
  OBVIOUS
<1>1. LoopInv
  <2>1. PICK limit \in RepairLimits : loop = NewLoop(limit)
    BY DEF RepairInit
  <2>2. limit \in Nat /\ RetryLimit \in Nat
    BY RepairBounds
  <2> QED
    BY <2>1, <2>2 DEF LoopInv, LoopTyped, NewLoop
<1>2. TaskInv
  <2>1. PICK tier \in {"A", "B"}, careful \in BOOLEAN :
          task = [NoTask EXCEPT !.tier = tier, !.careful = careful]
    BY DEF RepairInit
  <2>2. (CHOOSE m \in Models : TRUE) \in Models /\ 0 \in 0..RetryLimit
        /\ RetryLimit \in Nat /\ 0 < RetryLimit /\ TokenBudget \in Nat
    BY RepairBounds
  <2>3. NoTask \in Tasks /\ NoTask.retries = 0 /\ NoTask.tokens = 0
    BY <2>2 DEF NoTask, Tasks
  <2>4. task \in Tasks /\ task.retries = 0 /\ task.tokens = 0
    BY <2>1, <2>3 DEF Tasks
  <2>5. second = {}
    BY DEF RepairInit
  <2> QED
    BY <2>2, <2>4, <2>5 DEF TaskInv, BudgetKept
<1>3. BreakerInv
  BY RepairBounds DEF RepairInit, NewBreaker, BreakerInv, DelegationsBounded
<1> QED
  BY <1>1, <1>2, <1>3 DEF RepairInv

LEMMA ClaimKeeps ==
  ASSUME LoopInv, AgentClaimsAgain
  PROVE  LoopInv'
<1>1. PICK c \in Claims :
        LET claimed == [loop.claimed EXCEPT ![c] = @ + 1] IN
        loop' = IF DetectNoProgress(claimed)
                THEN [loop EXCEPT !.claimed = claimed, !.at = "no_progress"]
                ELSE [loop EXCEPT !.claimed = claimed, !.at = "gate", !.verified[c] = @ + 1]
  BY DEF AgentClaimsAgain
<1>2. loop.at = "agent"
  BY DEF AgentClaimsAgain
<1> DEFINE claimed == [loop.claimed EXCEPT ![c] = loop.claimed[c] + 1]
           verified == [loop.verified EXCEPT ![c] = loop.verified[c] + 1]
<1>3. /\ loop.claimed \in [Claims -> Nat] /\ loop.verified \in [Claims -> Nat]
      /\ loop.attempt \in Nat /\ RetryLimit \in Nat /\ loop.limit \in Nat
  BY RepairBounds DEF LoopInv, LoopTyped
<1>4. claimed \in [Claims -> Nat] /\ verified \in [Claims -> Nat]
  BY <1>3
<1>5. \A d \in Claims : /\ claimed[d] = IF d = c THEN loop.claimed[d] + 1 ELSE loop.claimed[d]
                        /\ verified[d] = IF d = c THEN loop.verified[d] + 1 ELSE loop.verified[d]
  BY <1>3
<1> HIDE DEF claimed, verified
<1>6. CASE DetectNoProgress(claimed)
  <2>1. loop' = [loop EXCEPT !.claimed = claimed, !.at = "no_progress"]
    BY <1>1, <1>6 DEF claimed
  <2>2. /\ loop'.at = "no_progress" /\ loop'.claimed = claimed /\ loop'.verified = loop.verified
        /\ loop'.attempt = loop.attempt /\ loop'.retries = loop.retries /\ loop'.limit = loop.limit
        /\ LoopTyped'
    BY <1>4, <2>1 DEF LoopInv, LoopTyped
  <2>3. \E d \in Claims : claimed[d] > 3
    BY <1>6 DEF DetectNoProgress
  <2>4. ASSUME NEW d \in Claims
        PROVE  /\ loop.verified[d] <= 3 /\ loop.verified[d] <= claimed[d]
               /\ claimed[d] <= loop.attempt + 1
    BY <1>2, <1>3, <1>5 DEF LoopInv
  <2> QED
    BY <2>2, <2>3, <2>4 DEF LoopInv
<1>7. CASE ~DetectNoProgress(claimed)
  <2>1. loop' = [loop EXCEPT !.claimed = claimed, !.at = "gate", !.verified = verified]
    BY <1>1, <1>7 DEF claimed, verified
  <2>2. /\ loop'.at = "gate" /\ loop'.claimed = claimed /\ loop'.verified = verified
        /\ loop'.attempt = loop.attempt /\ loop'.retries = loop.retries /\ loop'.limit = loop.limit
        /\ LoopTyped'
    BY <1>4, <2>1 DEF LoopInv, LoopTyped
  <2>3. \A d \in Claims : claimed[d] <= 3
    BY <1>4, <1>7 DEF DetectNoProgress
  <2>4. ASSUME NEW d \in Claims
        PROVE  /\ verified[d] <= 3 /\ verified[d] <= claimed[d]
               /\ claimed[d] <= loop.attempt + 1
    BY <1>2, <1>3, <1>5, <2>3 DEF LoopInv
  <2> QED
    BY <2>2, <2>3, <2>4 DEF LoopInv
<1> QED
  BY <1>6, <1>7

LEMMA GateKeeps ==
  ASSUME LoopInv, AgentGivesNothing \/ GatePasses \/ GateRejects
  PROVE  LoopInv'
<1>0. /\ loop.attempt \in Nat /\ loop.retries \in Nat /\ RetryLimit \in Nat /\ loop.limit \in Nat
      /\ \A c \in Claims : loop.claimed[c] \in Nat
  BY RepairBounds DEF LoopInv, LoopTyped
<1>1. CASE \E to \in {"failed", "passed"} :
             loop.at # "no_progress" /\ loop' = [loop EXCEPT !.at = to]
  <2>1. PICK to \in {"failed", "passed"} :
          loop.at # "no_progress" /\ loop' = [loop EXCEPT !.at = to]
    BY <1>1
  <2>2. /\ loop'.at = to /\ loop'.claimed = loop.claimed /\ loop'.verified = loop.verified
        /\ loop'.attempt = loop.attempt /\ loop'.retries = loop.retries /\ loop'.limit = loop.limit
        /\ LoopTyped'
    BY <2>1 DEF LoopInv, LoopTyped
  <2> QED
    BY <2>1, <2>2 DEF LoopInv
<1>2. CASE /\ loop.at = "gate" /\ ~(loop.attempt >= loop.limit \/ loop.retries >= RetryLimit)
           /\ loop' = [loop EXCEPT !.at = "agent", !.attempt = @ + 1, !.retries = @ + 1]
  <2>0. loop' = [loop EXCEPT !.at = "agent", !.attempt = loop.attempt + 1,
                              !.retries = loop.retries + 1]
    BY <1>2
  <2>3. loop.attempt + 1 \in Nat /\ loop.retries + 1 \in Nat
    BY <1>0
  <2>4. LoopTyped'
    BY <2>0, <2>3 DEF LoopInv, LoopTyped
  <2>1. /\ loop'.at = "agent" /\ loop'.claimed = loop.claimed /\ loop'.verified = loop.verified
        /\ loop'.attempt = loop.attempt + 1 /\ loop'.retries = loop.retries + 1
        /\ loop'.limit = loop.limit
    BY <2>0 DEF LoopInv, LoopTyped
  <2>2. loop'.attempt <= loop'.limit /\ loop'.attempt <= RetryLimit /\ loop'.retries = loop'.attempt
    BY <1>0, <1>2, <2>1 DEF LoopInv
  <2>5. ASSUME NEW c \in Claims
        PROVE  /\ loop'.verified[c] <= 3 /\ loop'.verified[c] <= loop'.claimed[c]
               /\ loop'.claimed[c] <= loop'.attempt + 1 /\ loop'.claimed[c] <= loop'.attempt
               /\ loop'.claimed[c] <= 3
    BY <1>0, <1>2, <2>1 DEF LoopInv
  <2> QED
    BY <2>1, <2>2, <2>4, <2>5 DEF LoopInv
<1> QED
  BY <1>1, <1>2 DEF AgentGivesNothing, GatePasses, GateRejects

LEMMA RetryKeeps ==
  ASSUME TaskInv, RetryTask
  PROVE  TaskInv'
<1>1. PICK cost \in Costs :
        (task.careful => CheckTokenBudget(task, cost)) /\ task' = RecordRetry(task, cost)
  BY DEF RetryTask
<1>2. /\ cost \in Nat /\ task.tokens \in Nat /\ RetryLimit \in Nat \ {0} /\ TokenBudget \in Nat
      /\ task.retries \in 0..RetryLimit /\ task.careful \in BOOLEAN
  BY RepairBounds DEF TaskInv, Tasks
<1>3. task.retries < RetryLimit /\ task.tokens < TokenBudget /\ second = {}
  BY DEF RetryTask, CanRetry, TaskInv
<1>4. task' = [task EXCEPT !.retries = task.retries + 1, !.tokens = task.tokens + cost]
  BY <1>1 DEF RecordRetry
<1>5. /\ task' \in Tasks /\ task'.retries = task.retries + 1 /\ task'.tokens = task.tokens + cost
      /\ task'.tier = task.tier /\ task'.careful = task.careful /\ task'.model = task.model
  <2>1. task.retries + 1 \in 0..RetryLimit /\ task.tokens + cost \in Nat
    BY <1>2, <1>3
  <2>2. task' \in Tasks
    BY <1>4, <2>1 DEF TaskInv, Tasks
  <2> QED
    BY <1>4, <2>2 DEF TaskInv, Tasks
<1>6. BudgetKept'
  <2>1. task'.retries <= RetryLimit
    BY <1>2, <1>3, <1>5
  <2>2. ASSUME task'.tokens > TokenBudget
        PROVE  ~task'.careful /\ task'.tokens - cost < TokenBudget
    BY <1>1, <1>2, <1>3, <1>5, <2>2 DEF CheckTokenBudget
  <2> QED
    BY <2>1, <2>2 DEF BudgetKept
<1>7. CASE NeedsSecondAgent(task)
  <2>1. task.tier = "A" /\ task.retries + 1 = RetryLimit
    BY <1>2, <1>7 DEF NeedsSecondAgent
  <2>2. PICK m \in Models \ {task.model} :
          second' = second \cup {[model |-> m, retry |-> task.retries + 1]}
    BY <1>7 DEF RetryTask, AlternateModels
  <2>3. second' = {[model |-> m, retry |-> RetryLimit]}
    BY <1>3, <2>1, <2>2
  <2> QED
    BY <1>2, <1>5, <1>6, <2>1, <2>2, <2>3 DEF TaskInv
<1>8. CASE ~NeedsSecondAgent(task)
  <2>1. second' = {}
    BY <1>3, <1>8 DEF RetryTask
  <2>2. task'.retries = RetryLimit => task'.tier # "A"
    BY <1>2, <1>5, <1>8 DEF NeedsSecondAgent
  <2> QED
    BY <1>2, <1>5, <1>6, <2>1, <2>2 DEF TaskInv
<1> QED
  BY <1>7, <1>8

LEMMA DelegateKeeps ==
  ASSUME BreakerInv, DelegateCountedFirst \/ DelegateCheckedFirst
  PROVE  BreakerInv'
<1> DEFINE Breakers == [depth : Nat, spawns : Nat, tripped : BOOLEAN, dispatched : Nat]
           Went(b, depth, tripped, dispatched) ==
             /\ b \in Breakers /\ b.depth = depth /\ b.spawns = depth
             /\ b.tripped = tripped /\ b.dispatched = dispatched
<1>1. PICK d \in Nat, n \in Nat :
        /\ Went(breaker, d, FALSE, n) /\ n <= d /\ n <= MaxDepth
  BY DEF BreakerInv, DelegationsBounded, DelegateCountedFirst, DelegateCheckedFirst
<1>2. MaxDepth \in Nat /\ MaxSpawns \in Nat /\ MaxDepth <= MaxSpawns
  BY RepairBounds
<1>3. PICK b : b = breaker
  OBVIOUS
<1>4. Went(b, d, FALSE, n)
  BY <1>1, <1>3
<1>5. Went(IncrementDepth(b), d + 1, FALSE, n)
  <2>1. PICK c : c = [b EXCEPT !.depth = d + 1]
    OBVIOUS
  <2>2. /\ c \in Breakers /\ c.depth = d + 1 /\ c.spawns = d
        /\ c.tripped = FALSE /\ c.dispatched = n
    BY <1>4, <2>1
  <2>3. IncrementDepth(b) = [c EXCEPT !.spawns = d + 1]
    BY <1>4, <2>1 DEF IncrementDepth
  <2> QED
    BY <2>2, <2>3
<1>6. ASSUME NEW c, NEW e \in Nat, Went(c, e, FALSE, n)
      PROVE  Went(CheckCircuitBreaker(c), e, e >= MaxDepth, n)
  <2>1. CheckCircuitBreaker(c) = IF e >= MaxDepth THEN [c EXCEPT !.tripped = TRUE] ELSE c
    BY <1>2, <1>6 DEF CheckCircuitBreaker
  <2>2. CASE e >= MaxDepth
    BY <1>6, <2>1, <2>2
  <2>3. CASE ~(e >= MaxDepth)
    BY <1>6, <2>1, <2>3
  <2> QED
    BY <2>2, <2>3
<1>7. ASSUME NEW c, NEW e \in Nat, Went(c, e, FALSE, n)
      PROVE  Went(Dispatched(c), e, FALSE, n + 1)
  <2>1. Dispatched(c) = [c EXCEPT !.dispatched = n + 1]
    BY <1>7 DEF Dispatched
  <2> QED
    BY <1>7, <2>1
<1>8. ASSUME NEW c, NEW e \in Nat, Went(c, e, TRUE, n)
      PROVE  Dispatched(c) = c
  BY <1>8 DEF Dispatched
<1>12. d + 1 \in Nat /\ n + 1 \in Nat
  OBVIOUS
<1>9. ASSUME NEW e \in Nat, NEW t \in BOOLEAN, NEW m \in Nat,
             Went(breaker', e, t, m), m <= e, m <= MaxDepth, t => e >= MaxDepth
      PROVE  BreakerInv'
  BY <1>9 DEF BreakerInv, DelegationsBounded
<1>10. CASE DelegateCountedFirst
  <2>1. breaker' = Dispatched(CheckCircuitBreaker(IncrementDepth(b)))
    BY <1>3, <1>10 DEF DelegateCountedFirst
  <2> HIDE DEF Went
  <2>2. Went(CheckCircuitBreaker(IncrementDepth(b)), d + 1, d + 1 >= MaxDepth, n)
    BY <1>5, <1>6, <1>12
  <2>3. CASE d + 1 >= MaxDepth
    <3>1. Went(CheckCircuitBreaker(IncrementDepth(b)), d + 1, TRUE, n)
      BY <2>2, <2>3
    <3>2. Went(breaker', d + 1, TRUE, n)
      BY <1>8, <1>12, <2>1, <3>1
    <3>3. n <= d + 1 /\ n <= MaxDepth /\ (TRUE => d + 1 >= MaxDepth)
      BY <1>1, <1>2, <2>3
    <3> QED
      BY <1>9, <1>12, <3>2, <3>3
  <2>4. CASE ~(d + 1 >= MaxDepth)
    <3>1. Went(CheckCircuitBreaker(IncrementDepth(b)), d + 1, FALSE, n)
      BY <2>2, <2>4 DEF Went
    <3>2. Went(breaker', d + 1, FALSE, n + 1)
      BY <1>7, <1>12, <2>1, <3>1
    <3>3. n + 1 <= d + 1 /\ n + 1 <= MaxDepth
      BY <1>1, <1>2, <2>4
    <3> QED
      BY <1>9, <1>12, <3>2, <3>3
  <2> QED
    BY <2>3, <2>4
<1>11. CASE DelegateCheckedFirst
  <2>1. breaker' = IF CheckCircuitBreaker(b).tripped THEN CheckCircuitBreaker(b)
                   ELSE Dispatched(IncrementDepth(CheckCircuitBreaker(b)))
    BY <1>3, <1>11 DEF DelegateCheckedFirst
  <2>2. Went(CheckCircuitBreaker(b), d, d >= MaxDepth, n)
    BY <1>4, <1>6
  <2>3. CASE d >= MaxDepth
    <3>1. Went(breaker', d, TRUE, n)
      BY <2>1, <2>2, <2>3
    <3> HIDE DEF Went
    <3> QED
      BY <1>1, <1>9, <2>3, <3>1
  <2>4. CASE ~(d >= MaxDepth)
    <3>1. CheckCircuitBreaker(b) = b
      BY <1>2, <1>4, <2>4 DEF CheckCircuitBreaker
    <3>2. breaker' = Dispatched(IncrementDepth(b))
      BY <1>4, <2>1, <3>1
    <3> HIDE DEF Went
    <3>3. Went(breaker', d + 1, FALSE, n + 1)
      BY <1>5, <1>7, <1>12, <3>2
    <3>4. n + 1 <= d + 1 /\ n + 1 <= MaxDepth
      BY <1>1, <1>2, <2>4
    <3> QED
      BY <1>9, <1>12, <3>3, <3>4
  <2> QED
    BY <2>3, <2>4
<1> QED
  BY <1>10, <1>11

LEMMA RepairStep == RepairInv /\ [RepairNext]_repairVars => RepairInv'
<1> SUFFICES ASSUME RepairInv, [RepairNext]_repairVars PROVE RepairInv'
  OBVIOUS
<1>0. /\ UNCHANGED loop => LoopInv'
      /\ UNCHANGED <<task, second>> => TaskInv'
      /\ UNCHANGED breaker => BreakerInv'
  BY DEF RepairInv, LoopInv, LoopTyped, TaskInv, BudgetKept, BreakerInv, DelegationsBounded
<1>1. CASE UNCHANGED repairVars
  BY <1>0, <1>1 DEF repairVars, RepairInv
<1>2. CASE AgentClaimsAgain
  <2>1. UNCHANGED <<task, breaker, second>>
    BY <1>2 DEF AgentClaimsAgain, LoopOnly
  <2> QED
    BY <1>0, <1>2, <2>1, ClaimKeeps DEF RepairInv
<1>3. CASE AgentGivesNothing \/ GatePasses \/ GateRejects
  <2>1. UNCHANGED <<task, breaker, second>>
    BY <1>3 DEF AgentGivesNothing, GatePasses, GateRejects, LoopOnly
  <2> QED
    BY <1>0, <1>3, <2>1, GateKeeps DEF RepairInv
<1>4. CASE RetryTask
  <2>1. UNCHANGED <<loop, breaker>>
    BY <1>4 DEF RetryTask, TaskOnly
  <2> QED
    BY <1>0, <1>4, <2>1, RetryKeeps DEF RepairInv
<1>5. CASE DelegateCountedFirst \/ DelegateCheckedFirst
  <2>1. UNCHANGED <<loop, task, second>>
    BY <1>5 DEF DelegateCountedFirst, DelegateCheckedFirst, TaskOnly
  <2> QED
    BY <1>0, <1>5, <2>1, DelegateKeeps DEF RepairInv
<1> QED
  BY <1>1, <1>2, <1>3, <1>4, <1>5 DEF RepairNext

LEMMA RepairHolds == RepairInv => RepairsBounded
<1> SUFFICES ASSUME RepairInv PROVE RepairsBounded
  OBVIOUS
<1>1. RetryLimit \in Nat \ {0} /\ task.retries \in 0..RetryLimit /\ RepairLimits \subseteq Nat
  BY RepairBounds DEF RepairInv, TaskInv, Tasks
<1>2. LoopBounded
  <2>1. ASSUME loop.at = "no_progress" PROVE loop.attempt >= 3
    <3>1. PICK c \in Claims : loop.claimed[c] > 3 /\ loop.claimed[c] <= loop.attempt + 1
      BY <2>1 DEF RepairInv, LoopInv
    <3>2. loop.claimed[c] \in Nat /\ loop.attempt \in Nat
      BY DEF RepairInv, LoopInv, LoopTyped
    <3> QED
      BY <3>1, <3>2
  <2> QED
    BY <2>1 DEF RepairInv, LoopInv, LoopBounded
<1>3. second = {} \/ \E m \in Models \ {task.model} :
        task.tier = "A" /\ task.retries = RetryLimit
        /\ second = {[model |-> m, retry |-> RetryLimit]}
  BY <1>1 DEF RepairInv, TaskInv
<1>4. /\ Cardinality(second) <= 1 /\ second \subseteq [model : Models, retry : 1..RetryLimit]
      /\ \A s \in second : task.tier = "A" /\ s.model # task.model
                           /\ s.retry = task.retries /\ ~CanRetry(task)
  <2>1. CASE second = {}
    BY <2>1, FS_EmptySet
  <2>2. CASE second # {}
    <3>1. PICK m \in Models \ {task.model} :
            task.tier = "A" /\ task.retries = RetryLimit
            /\ second = {[model |-> m, retry |-> RetryLimit]}
      BY <1>3, <2>2
    <3>2. Cardinality(second) = 1
      BY <3>1, FS_Singleton
    <3> QED
      BY <1>1, <3>1, <3>2 DEF CanRetry
  <2> QED
    BY <2>1, <2>2
<1>5. SecondOpinionLast
  <2>1. task.tier = "A" /\ task.retries = RetryLimit => second # {}
    BY DEF RepairInv, TaskInv
  <2> QED
    BY <1>4, <2>1 DEF SecondOpinionLast
<1>6. RepairTypeOK
  BY <1>1, <1>4 DEF RepairInv, LoopInv, LoopTyped, TaskInv, Tasks, BreakerInv, RepairTypeOK
<1> QED
  BY <1>2, <1>5, <1>6, PromptIsOrdered DEF RepairInv, TaskInv, BreakerInv, RepairsBounded

-----------------------------------------------------------------------------
(* Hidden checks: what has been seen after the first n rates of a window.  *)
Sightings == [peak : Nat, declined : BOOLEAN]

LEMMA PeakType ==
  ASSUME NEW s \in Sightings, NEW rate \in Nat
  PROVE  /\ NextPeak(s, rate) \in Sightings
         /\ NextPeak(s, rate).peak = IF rate > s.peak THEN rate ELSE s.peak
         /\ NextPeak(s, rate).declined
              <=> s.declined \/ NextPeak(s, rate).peak - rate >= 15
<1>1. s.peak \in Nat /\ s.declined \in BOOLEAN
  BY DEF Sightings
<1> DEFINE peak == IF rate > s.peak THEN rate ELSE s.peak
<1>2. peak \in Nat
  BY <1>1
<1>3. (s.declined \/ peak - rate >= 15) \in BOOLEAN
  BY <1>1
<1>4. NextPeak(s, rate) = [peak |-> peak, declined |-> s.declined \/ peak - rate >= 15]
  BY DEF NextPeak
<1> HIDE DEF peak
<1>5. NextPeak(s, rate) \in Sightings
  BY <1>2, <1>3, <1>4 DEF Sightings
<1>6. NextPeak(s, rate).peak = peak
      /\ NextPeak(s, rate).declined = (s.declined \/ peak - rate >= 15)
  BY <1>4
<1> QED
  BY <1>5, <1>6 DEF peak

\* what the recursion has after each rate
Watches(f, rates, n) ==
  /\ f \in [0..n -> Sightings]
  /\ f[0].peak = 0 /\ f[0].declined = FALSE
  /\ \A i \in 1..n : f[i] = NextPeak(f[i - 1], rates[i])

LEMMA SeenSteps ==
  ASSUME NEW n \in Nat, NEW rates \in [1..n -> Nat]
  PROVE  \E f : Watches(f, rates, n) /\ SeenIn(rates, n) = f[n]
<1> DEFINE zero == [peak |-> 0, declined |-> FALSE]
           Defines(f) == f = [k \in 0..n |-> IF k = 0 THEN zero
                                             ELSE NextPeak(f[k - 1], rates[k])]
           step == [i \in 1..n |-> [s \in Sightings |-> NextPeak(s, rates[i])]]
<1>1. zero \in Sightings
  BY DEF Sightings
<1>2. \E f : Defines(f) /\ f \in [0..n -> Sightings]
  <2>1. step \in StepsOf(n, Sightings)
    BY PeakType DEF StepsOf
  <2>2. PICK f : Iterates(f, zero, step, n, Sightings)
    <3> HIDE DEF step, zero
    <3> QED
      BY <1>1, <2>1, Iteration
  <2>3. /\ f \in [0..n -> Sightings] /\ f[0] = zero
        /\ \A i \in 1..n : f[i] = step[i][f[i - 1]]
    <3> HIDE DEF step, zero
    <3> QED
      BY <2>2 DEF Iterates
  <2> HIDE DEF zero
  <2>4. ASSUME NEW i \in 1..n PROVE f[i] = NextPeak(f[i - 1], rates[i])
    <3>1. i - 1 \in 0..n /\ f[i - 1] \in Sightings
      BY <2>3
    <3> QED
      BY <2>3, <3>1
  <2>5. ASSUME NEW i \in 0..n
        PROVE  f[i] = IF i = 0 THEN zero ELSE NextPeak(f[i - 1], rates[i])
    <3>1. CASE i = 0
      BY <2>3, <3>1
    <3>2. CASE i \in 1..n
      BY <2>4, <3>2
    <3> QED
      BY <3>1, <3>2
  <2> QED
    BY <2>3, <2>5
<1> DEFINE g == CHOOSE h : Defines(h)
<1>3. Defines(g)
  BY <1>2
<1>4. SeenIn(rates, n) = g[n]
  BY DEF SeenIn
<1>5. \A i \in 0..n : g[i] = IF i = 0 THEN zero ELSE NextPeak(g[i - 1], rates[i])
  <2> HIDE DEF g, zero
  <2>1. g = [k \in 0..n |-> IF k = 0 THEN zero ELSE NextPeak(g[k - 1], rates[k])]
    BY <1>3
  <2> QED
    BY <2>1
<1>6. DOMAIN g = 0..n
  <2> HIDE DEF g, zero
  <2>1. g = [k \in 0..n |-> IF k = 0 THEN zero ELSE NextPeak(g[k - 1], rates[k])]
    BY <1>3
  <2> QED
    BY <2>1
<1>7. g = [k \in 0..n |-> g[k]]
  <2> HIDE DEF g, zero
  <2>1. g = [k \in 0..n |-> IF k = 0 THEN zero ELSE NextPeak(g[k - 1], rates[k])]
    BY <1>3
  <2> QED
    BY <2>1
<1> HIDE DEF g
<1>8. g[0] = zero /\ \A i \in 1..n : g[i] = NextPeak(g[i - 1], rates[i])
  <2>1. g[0] = zero
    BY <1>5
  <2>2. ASSUME NEW i \in 1..n PROVE g[i] = NextPeak(g[i - 1], rates[i])
    <3> HIDE DEF zero
    <3>1. i \in 0..n /\ i # 0
      OBVIOUS
    <3> QED
      BY <1>5, <3>1
  <2> QED
    BY <2>1, <2>2
<1> DEFINE Good == {m \in Nat : m <= n => g[m] \in Sightings}
<1>9. 0 \in Good
  BY <1>1, <1>8
<1>10. ASSUME NEW m \in Nat, m \in Good PROVE m + 1 \in Good
  <2>1. SUFFICES ASSUME m + 1 <= n PROVE g[m + 1] \in Sightings
    OBVIOUS
  <2>2. m + 1 \in 1..n /\ (m + 1) - 1 = m /\ g[m] \in Sightings
    BY <1>10, <2>1
  <2>3. g[m + 1] = NextPeak(g[m], rates[m + 1]) /\ rates[m + 1] \in Nat
    BY <1>8, <2>2
  <2> QED
    BY <2>2, <2>3, PeakType
<1>11. \A m \in Nat : m \in Good
  <2> HIDE DEF Good
  <2> QED
    BY <1>9, <1>10, Induction
<1>12. \A m \in 0..n : g[m] \in Sightings
  BY <1>11
<1>13. g \in [0..n -> Sightings]
  BY <1>7, <1>12
<1>14. g[0].peak = 0 /\ g[0].declined = FALSE
  BY <1>8
<1> QED
  BY <1>4, <1>8, <1>13, <1>14 DEF Watches

(* The peak is the highest of the rates, and a decline is a fall of 15     *)
(* points from any of them.                                                *)
LEMMA SeenMeans ==
  ASSUME NEW n \in Nat, NEW rates \in [1..n -> Nat]
  PROVE  SeenIn(rates, n).declined
           <=> \E b \in 1..n : \E a \in 1..(b - 1) : rates[a] - rates[b] >= 15
<1>1. PICK f : Watches(f, rates, n) /\ SeenIn(rates, n) = f[n]
  BY SeenSteps
<1> DEFINE Highest15(m) ==
             /\ \A a \in 1..m : rates[a] <= f[m].peak
             /\ f[m].peak = 0 \/ \E a \in 1..m : rates[a] = f[m].peak
             /\ f[m].declined
                  <=> \E b \in 1..m : \E a \in 1..(b - 1) : rates[a] - rates[b] >= 15
           Good == {m \in Nat : m <= n => Highest15(m)}
<1>2. 0 \in Good
  BY <1>1 DEF Watches
<1>3. ASSUME NEW m \in Nat, m \in Good PROVE m + 1 \in Good
  <2>1. SUFFICES ASSUME m + 1 <= n PROVE Highest15(m + 1)
    OBVIOUS
  <2>2. Highest15(m) /\ m + 1 \in 1..n /\ (m + 1) - 1 = m
    BY <1>3, <2>1
  <2> DEFINE rate == rates[m + 1] latest == f[m] next == f[m + 1]
  <2>3. rate \in Nat /\ latest \in Sightings /\ next = NextPeak(latest, rate)
        /\ \A a \in 1..(m + 1) : rates[a] \in Nat
    <3>1. rate \in Nat /\ \A a \in 1..(m + 1) : rates[a] \in Nat
      BY <2>2
    <3>2. m \in 0..n /\ f \in [0..n -> Sightings]
      BY <1>1, <2>2 DEF Watches
    <3>3. f[m + 1] = NextPeak(f[(m + 1) - 1], rates[m + 1])
      BY <1>1, <2>2 DEF Watches
    <3> QED
      BY <2>2, <3>1, <3>2, <3>3
  <2>4. /\ next.peak = IF rate > latest.peak THEN rate ELSE latest.peak
        /\ next.declined <=> latest.declined \/ next.peak - rate >= 15
        /\ latest.peak \in Nat /\ next.peak \in Nat
    <3> HIDE DEF rate, latest, next
    <3>1. next \in Sightings
      BY <2>3, PeakType
    <3>2. latest.peak \in Nat /\ next.peak \in Nat
      BY <2>3, <3>1 DEF Sightings
    <3> QED
      BY <2>3, <3>2, PeakType
  <2>5. \A a \in 1..(m + 1) : rates[a] <= next.peak
    BY <2>2, <2>3, <2>4
  <2>6. next.peak = 0 \/ \E a \in 1..(m + 1) : rates[a] = next.peak
    BY <2>2, <2>3, <2>4
  <2>7. next.peak - rate >= 15 <=> \E a \in 1..m : rates[a] - rate >= 15
    <3>1. ASSUME next.peak - rate >= 15 PROVE \E a \in 1..m : rates[a] - rate >= 15
      <4>1. next.peak # 0 /\ next.peak # rate
        BY <2>3, <2>4, <3>1
      <4>2. PICK a \in 1..(m + 1) : rates[a] = next.peak
        BY <2>6, <4>1
      <4>3. a \in 1..m
        BY <4>1, <4>2
      <4> QED
        BY <3>1, <4>2, <4>3
    <3>2. ASSUME NEW a \in 1..m, rates[a] - rate >= 15 PROVE next.peak - rate >= 15
      BY <2>3, <2>4, <2>5, <3>2
    <3> QED
      BY <3>1, <3>2
  <2>8. next.declined
          <=> \E b \in 1..(m + 1) : \E a \in 1..(b - 1) : rates[a] - rates[b] >= 15
    <3>1. ASSUME NEW b \in 1..(m + 1), NEW a \in 1..(b - 1), rates[a] - rates[b] >= 15
          PROVE  next.declined
      <4>1. CASE b = m + 1
        <5>1. a \in 1..m
          BY <4>1
        <5> QED
          BY <2>4, <2>7, <3>1, <4>1, <5>1
      <4>2. CASE b # m + 1
        <5>1. b \in 1..m
          BY <4>2
        <5> QED
          BY <2>2, <2>4, <3>1, <5>1
      <4> QED
        BY <4>1, <4>2
    <3>2. ASSUME next.declined
          PROVE  \E b \in 1..(m + 1) : \E a \in 1..(b - 1) : rates[a] - rates[b] >= 15
      <4>1. CASE latest.declined
        <5>1. PICK b \in 1..m : \E a \in 1..(b - 1) : rates[a] - rates[b] >= 15
          BY <2>2, <4>1
        <5> QED
          BY <5>1
      <4>2. CASE next.peak - rate >= 15
        <5>1. PICK a \in 1..m : rates[a] - rate >= 15
          BY <2>7, <4>2
        <5>2. m + 1 \in 1..(m + 1) /\ a \in 1..((m + 1) - 1)
          BY <2>2
        <5> QED
          BY <5>1, <5>2
      <4> QED
        BY <2>4, <3>2, <4>1, <4>2
    <3> QED
      BY <3>1, <3>2
  <2> QED
    BY <2>5, <2>6, <2>8
<1>4. \A m \in Nat : m \in Good
  <2> HIDE DEF Good
  <2> QED
    BY <1>2, <1>3, Induction
<1>5. Highest15(n)
  BY <1>4
<1> QED
  BY <1>1, <1>5

LEMMA CycleArithmetic ==
  ASSUME NEW len \in Nat
  PROVE  /\ len \div ChecksPerCycle \in Nat
         /\ ChecksPerCycle * (len \div ChecksPerCycle) <= len
         /\ ChecksPerCycle * (len \div ChecksPerCycle) \in Nat
         /\ (ChecksPerCycle * (len \div ChecksPerCycle)) \div ChecksPerCycle
              = len \div ChecksPerCycle
         /\ \A c \in 1..(len \div ChecksPerCycle) :
              /\ c * ChecksPerCycle \in Nat /\ (c - 1) * ChecksPerCycle \in Nat
              /\ c * ChecksPerCycle - ((c - 1) * ChecksPerCycle + 1) + 1 = ChecksPerCycle
              /\ c * ChecksPerCycle <= ChecksPerCycle * (len \div ChecksPerCycle)
<1>1. ChecksPerCycle \in {1, 2, 4, 5, 10, 20, 25, 50, 100}
  BY ScrutinyBounds
<1>2. CASE ChecksPerCycle = 1  BY <1>2
<1>3. CASE ChecksPerCycle = 2  BY <1>3
<1>4. CASE ChecksPerCycle = 4  BY <1>4
<1>5. CASE ChecksPerCycle = 5  BY <1>5
<1>6. CASE ChecksPerCycle = 10  BY <1>6
<1>7. CASE ChecksPerCycle = 20  BY <1>7
<1>8. CASE ChecksPerCycle = 25  BY <1>8
<1>9. CASE ChecksPerCycle = 50  BY <1>9
<1>10. CASE ChecksPerCycle = 100  BY <1>10
<1> QED
  BY <1>1, <1>2, <1>3, <1>4, <1>5, <1>6, <1>7, <1>8, <1>9, <1>10

LEMMA RateArithmetic ==
  ASSUME NEW m \in Nat, NEW n \in Nat
  PROVE  /\ (100 * n) \div ChecksPerCycle \in Nat
         /\ (100 * m) \div ChecksPerCycle - (100 * n) \div ChecksPerCycle >= 15
              <=> 100 * (m - n) >= 15 * ChecksPerCycle
<1>1. ChecksPerCycle \in {1, 2, 4, 5, 10, 20, 25, 50, 100}
  BY ScrutinyBounds
<1>2. CASE ChecksPerCycle = 1  BY <1>2
<1>3. CASE ChecksPerCycle = 2  BY <1>3
<1>4. CASE ChecksPerCycle = 4  BY <1>4
<1>5. CASE ChecksPerCycle = 5  BY <1>5
<1>6. CASE ChecksPerCycle = 10  BY <1>6
<1>7. CASE ChecksPerCycle = 20  BY <1>7
<1>8. CASE ChecksPerCycle = 25  BY <1>8
<1>9. CASE ChecksPerCycle = 50  BY <1>9
<1>10. CASE ChecksPerCycle = 100  BY <1>10
<1> QED
  BY <1>1, <1>2, <1>3, <1>4, <1>5, <1>6, <1>7, <1>8, <1>9, <1>10

(* The rate of a whole cycle counts what passed in it.                     *)
LEMMA RateOfCycle ==
  ASSUME outcomes \in Seq(BOOLEAN), NEW c \in 1..FullCycles
  PROVE  PassesIn(c) \in Nat /\ CycleRate(c) = (100 * PassesIn(c)) \div ChecksPerCycle
<1> DEFINE len == Len(outcomes) whole == ChecksPerCycle * (len \div ChecksPerCycle)
           first == (c - 1) * ChecksPerCycle + 1 latest == c * ChecksPerCycle
           passed == {i \in first..latest : outcomes[i]}
<1>1. len \in Nat /\ c \in 1..(len \div ChecksPerCycle)
  BY DEF FullCycles
<1>2. /\ whole \in Nat /\ whole <= len
      /\ latest \in Nat /\ first - 1 \in Nat /\ latest - first + 1 = ChecksPerCycle /\ latest <= whole
  <2>1. /\ whole \in Nat /\ whole <= len
        /\ c * ChecksPerCycle \in Nat /\ (c - 1) * ChecksPerCycle \in Nat
        /\ c * ChecksPerCycle - ((c - 1) * ChecksPerCycle + 1) + 1 = ChecksPerCycle
        /\ c * ChecksPerCycle <= whole
    BY <1>1, CycleArithmetic
  <2> DEFINE before == (c - 1) * ChecksPerCycle
  <2>2. before \in Nat /\ first = before + 1
    BY <2>1
  <2> HIDE DEF before
  <2>3. first - 1 \in Nat
    BY <2>2
  <2> QED
    BY <2>1, <2>3
<1>3. first \in Nat /\ ChecksPerCycle \in Nat
  <2>1. (c - 1) * ChecksPerCycle \in Nat
    BY <1>1, CycleArithmetic
  <2> QED
    BY <2>1, ScrutinyBounds
<1> HIDE DEF len, whole, first, latest
<1>4. WholeCycles = SubSeq(outcomes, 1, whole)
  BY DEF WholeCycles, whole, len
<1>5. \A i \in first..latest : WholeCycles[i] = outcomes[i]
  <2>1. \A i \in 1..whole : SubSeq(outcomes, 1, whole)[i] = outcomes[i]
    BY <1>1, <1>2 DEF len
  <2>2. \A i \in first..latest : i \in 1..whole
    BY <1>2, <1>3
  <2> QED
    BY <1>4, <2>1, <2>2
<1>6. PassesIn(c) = Cardinality(passed)
  <2>1. {i \in first..latest : WholeCycles[i]} = passed
    BY <1>5
  <2> QED
    BY <2>1 DEF PassesIn, first, latest
<1>7. Cardinality(passed) \in Nat
  <2>1. IsFiniteSet(first..latest)
    BY <1>2, <1>3, FS_Interval
  <2>2. IsFiniteSet(passed)
    BY <2>1, FS_Subset
  <2> QED
    BY <2>2, FS_CardinalityType
<1>8. Least(c * ChecksPerCycle, Len(outcomes)) = latest
  BY <1>1, <1>2 DEF Least, latest, len
<1> HIDE DEF passed
<1>9. CycleRate(c) = (100 * Cardinality(passed)) \div (latest - first + 1)
  BY <1>8 DEF CycleRate, passed, first
<1> QED
  BY <1>2, <1>6, <1>7, <1>9

LEMMA GamingMeans ==
  ASSUME outcomes \in Seq(BOOLEAN)
  PROVE  GamingByFullCycles
<1> DEFINE F == FullCycles lo == F - Window
<1>1. F \in Nat /\ Window \in Nat \ {0} /\ Len(WholeCycles) \div ChecksPerCycle = F
  <2> DEFINE whole == ChecksPerCycle * (Len(outcomes) \div ChecksPerCycle)
  <2>1. /\ F = Len(outcomes) \div ChecksPerCycle /\ F \in Nat
        /\ whole \in Nat /\ whole <= Len(outcomes) /\ whole \div ChecksPerCycle = F
    BY CycleArithmetic DEF FullCycles
  <2>2. WholeCycles = SubSeq(outcomes, 1, whole)
    BY DEF WholeCycles
  <2> HIDE DEF whole
  <2>3. Len(SubSeq(outcomes, 1, whole)) = whole
    BY <2>1
  <2> QED
    BY <2>1, <2>2, <2>3, ScrutinyBounds
<1> HIDE DEF F
<1>2. CASE F < Window
  BY <1>1, <1>2 DEF GamingByFullCycles, DetectAntiGaming, F
<1>3. CASE F >= Window
  <2>1. \A k \in 1..Window : lo + k \in 1..F /\ WindowRates[k] = CycleRate(lo + k)
    BY <1>1, <1>3 DEF WindowRates, F
  <2>2. \A c \in 1..F : PassesIn(c) \in Nat
                        /\ CycleRate(c) = (100 * PassesIn(c)) \div ChecksPerCycle
    BY RateOfCycle DEF F
  <2>3. WindowRates \in [1..Window -> Nat]
    <3>1. \A k \in 1..Window : WindowRates[k] \in Nat
      <4> TAKE k \in 1..Window
      <4>1. WindowRates[k] = (100 * PassesIn(lo + k)) \div ChecksPerCycle
            /\ PassesIn(lo + k) \in Nat
        BY <2>1, <2>2
      <4> QED
        BY <4>1, RateArithmetic
    <3> QED
      BY <3>1 DEF WindowRates
  <2>4. DetectAntiGaming
          <=> \E b \in 1..Window : \E a \in 1..(b - 1) : WindowRates[a] - WindowRates[b] >= 15
    BY <1>1, <1>3, <2>3, SeenMeans DEF DetectAntiGaming, F
  <2>5. \A a, b \in 1..Window : WindowRates[a] - WindowRates[b] >= 15
          <=> 100 * (PassesIn(lo + a) - PassesIn(lo + b)) >= 15 * ChecksPerCycle
    <3> TAKE a, b \in 1..Window
    <3>1. /\ PassesIn(lo + a) \in Nat /\ PassesIn(lo + b) \in Nat
          /\ WindowRates[a] = (100 * PassesIn(lo + a)) \div ChecksPerCycle
          /\ WindowRates[b] = (100 * PassesIn(lo + b)) \div ChecksPerCycle
      BY <2>1, <2>2
    <3> QED
      BY <3>1, RateArithmetic
  <2>6. ASSUME DetectAntiGaming
        PROVE  \E b \in lo + 1 .. F : \E a \in lo + 1 .. b - 1 :
                 100 * (PassesIn(a) - PassesIn(b)) >= 15 * ChecksPerCycle
    <3>1. PICK b \in 1..Window : \E a \in 1..(b - 1) : WindowRates[a] - WindowRates[b] >= 15
      BY <2>4, <2>6
    <3>2. PICK a \in 1..(b - 1) : WindowRates[a] - WindowRates[b] >= 15
      BY <3>1
    <3>3. /\ a \in 1..Window /\ lo + b \in lo + 1 .. F /\ lo + a \in lo + 1 .. (lo + b) - 1
      BY <1>1, <1>3
    <3> QED
      BY <2>5, <3>2, <3>3
  <2>7. ASSUME NEW b \in lo + 1 .. F, NEW a \in lo + 1 .. b - 1,
               100 * (PassesIn(a) - PassesIn(b)) >= 15 * ChecksPerCycle
        PROVE  DetectAntiGaming
    <3>1. /\ a - lo \in 1..Window /\ b - lo \in 1..Window /\ a - lo \in 1..((b - lo) - 1)
          /\ lo + (a - lo) = a /\ lo + (b - lo) = b
      BY <1>1, <1>3
    <3>2. WindowRates[a - lo] - WindowRates[b - lo] >= 15
      BY <2>5, <2>7, <3>1
    <3> QED
      BY <2>4, <3>1, <3>2
  <2> QED
    BY <1>1, <1>3, <2>6, <2>7 DEF GamingByFullCycles
<1> QED
  BY <1>1, <1>2, <1>3

-----------------------------------------------------------------------------
(* A test that passes at the end of a log.                                 *)
LEMMA TestedLogs == TestsSettleDoubts
<1> SUFFICES ASSUME NEW log \in Logs
             PROVE  LET tested == Append(log, Event("pytest", TRUE)) IN
                    /\ Lasting(log) \subseteq Lasting(tested)
                    /\ ~Doubts(tested, TRUE, TRUE)
                    /\ Succeeded(log, "compile") /\ ~Succeeded(log, "test")
                         => Doubts(log, TRUE, TRUE)
  BY DEF TestsSettleDoubts
<1> DEFINE e == Event("pytest", TRUE) tested == Append(log, e)
<1>1. PICK n \in 0..3 : log \in [1..n -> Events]
  BY DEF Logs
<1>2. e.ok = TRUE /\ "test" \in e.traits
  BY DEF Event, CommandTraits
<1> HIDE DEF e
<1>3. /\ DOMAIN log = 1..n /\ DOMAIN tested = 1..(n + 1)
      /\ \A i \in 1..n : tested[i] = log[i]
      /\ tested[n + 1] = e
  <2>1. log \in Seq(Events) /\ Len(log) = n
    BY <1>1
  <2> QED
    BY <1>1, <2>1
<1> HIDE DEF tested
<1>4. ~Doubts(tested, TRUE, TRUE)
  <2>1. Succeeded(tested, "test")
    BY <1>2, <1>3 DEF Succeeded
  <2> QED
    BY <2>1 DEF Doubts, CompileOnlyValidation, ShallowValidation
<1>5. Succeeded(log, "compile") /\ ~Succeeded(log, "test") => Doubts(log, TRUE, TRUE)
  BY DEF Doubts, CompileOnlyValidation
<1>6. RepeatedFailures(log) => RepeatedFailures(tested)
  <2> SUFFICES ASSUME RepeatedFailures(log) PROVE RepeatedFailures(tested)
    OBVIOUS
  <2> DEFINE In(l, c) == {i \in DOMAIN l : l[i].command = c /\ ~l[i].ok}
  <2>1. PICK c \in DOMAIN CommandTraits : Cardinality(In(log, c)) >= 3
    BY DEF RepeatedFailures
  <2>2. In(log, c) \subseteq In(tested, c) /\ In(tested, c) \subseteq 1..(n + 1)
    BY <1>3
  <2> HIDE DEF In
  <2>3. /\ Cardinality(In(log, c)) <= Cardinality(In(tested, c))
        /\ Cardinality(In(log, c)) \in Nat /\ Cardinality(In(tested, c)) \in Nat
    <3>1. IsFiniteSet(1..(n + 1))
      BY FS_Interval
    <3>2. IsFiniteSet(In(tested, c))
      BY <2>2, <3>1, FS_Subset
    <3> QED
      BY <2>2, <3>2, FS_Subset, FS_CardinalityType
  <2>4. Cardinality(In(tested, c)) >= 3
    BY <2>1, <2>3
  <2> QED
    BY <2>4 DEF RepeatedFailures, In
<1>7. TimeoutLoops(log) => TimeoutLoops(tested)
  <2> SUFFICES ASSUME TimeoutLoops(log) PROVE TimeoutLoops(tested)
    OBVIOUS
  <2> DEFINE In(l, c) == {i \in DOMAIN l : l[i].command = c /\ l[i].timedOut}
  <2>1. PICK c \in DOMAIN CommandTraits : Cardinality(In(log, c)) >= 2
    BY DEF TimeoutLoops
  <2>2. In(log, c) \subseteq In(tested, c) /\ In(tested, c) \subseteq 1..(n + 1)
    BY <1>3
  <2> HIDE DEF In
  <2>3. /\ Cardinality(In(log, c)) <= Cardinality(In(tested, c))
        /\ Cardinality(In(log, c)) \in Nat /\ Cardinality(In(tested, c)) \in Nat
    <3>1. IsFiniteSet(1..(n + 1))
      BY FS_Interval
    <3>2. IsFiniteSet(In(tested, c))
      BY <2>2, <3>1, FS_Subset
    <3> QED
      BY <2>2, <3>2, FS_Subset, FS_CardinalityType
  <2>4. Cardinality(In(tested, c)) >= 2
    BY <2>1, <2>3
  <2> QED
    BY <2>4 DEF TimeoutLoops, In
<1>8. /\ DestructiveAfterSuccess(log) => DestructiveAfterSuccess(tested)
      /\ ProxyValidation(log) => ProxyValidation(tested)
  BY <1>3 DEF DestructiveAfterSuccess, ProxyValidation
<1>9. Lasting(log) \subseteq Lasting(tested)
  BY <1>6, <1>7, <1>8 DEF Lasting
<1> QED
  BY <1>4, <1>5, <1>9 DEF tested, e

-----------------------------------------------------------------------------
(* What no check of the pool is newer than, and what a rotation replaces.  *)
ScrutinyInv ==
  ScrutinyTypeOK /\ PoolFresh /\ \A i \in Places : pool[i] <= generation

LEMMA ScrutinyBegins == ScrutinyInit => ScrutinyInv
<1> SUFFICES ASSUME ScrutinyInit PROVE ScrutinyInv
  OBVIOUS
<1>1. <<>> \in Seq(BOOLEAN) /\ Len(<<>>) = 0
  BY EmptySeq
<1>2. ScrutinyTypeOK
  BY <1>1, ScrutinyBounds DEF ScrutinyInit, ScrutinyTypeOK
<1> QED
  BY <1>2 DEF ScrutinyInit, ScrutinyInv, PoolFresh

LEMMA ScrutinyStep == ScrutinyInv /\ [ScrutinyNext]_scrutinyVars => ScrutinyInv'
<1> SUFFICES ASSUME ScrutinyInv, [ScrutinyNext]_scrutinyVars PROVE ScrutinyInv'
  OBVIOUS
<1>1. CASE UNCHANGED scrutinyVars
  BY <1>1 DEF scrutinyVars, ScrutinyInv, ScrutinyTypeOK, PoolFresh
<1>2. CASE RecordResult
  <2>1. PICK passed \in BOOLEAN : outcomes' = Append(outcomes, passed)
    BY <1>2 DEF RecordResult
  <2>2. outcomes' \in Seq(BOOLEAN) /\ Len(outcomes') = Len(outcomes) + 1
    BY <2>1, AppendProperties DEF ScrutinyInv, ScrutinyTypeOK
  <2>3. Len(outcomes) < MaxResults /\ UNCHANGED <<pool, generation>>
    BY <1>2 DEF RecordResult
  <2>4. ScrutinyTypeOK'
    BY <2>2, <2>3, ScrutinyBounds DEF ScrutinyInv, ScrutinyTypeOK
  <2> QED
    BY <2>3, <2>4 DEF ScrutinyInv, PoolFresh
<1>3. CASE RotatePool
  <2>1. PICK retired \in SUBSET Places :
          /\ Cardinality(retired) >= MinReplacements
          /\ pool' = [i \in Places |-> IF i \in retired THEN generation + 1 ELSE pool[i]]
    BY <1>3 DEF RotatePool
  <2>2. generation < MaxGenerations /\ generation' = generation + 1 /\ UNCHANGED outcomes
    BY <1>3 DEF RotatePool
  <2>3. generation \in Nat /\ \A i \in Places : pool[i] \in Nat /\ pool[i] <= generation
    BY ScrutinyBounds DEF ScrutinyInv, ScrutinyTypeOK
  <2>4. ScrutinyTypeOK'
    BY <2>1, <2>2, <2>3, ScrutinyBounds DEF ScrutinyInv, ScrutinyTypeOK
  <2>5. \A i \in Places : pool'[i] <= generation'
    BY <2>1, <2>2, <2>3
  <2>6. {i \in Places : pool'[i] = generation'} = retired
    BY <2>1, <2>2, <2>3
  <2>7. Cardinality(retired) \in Nat
    <3>1. IsFiniteSet(Places)
      BY ScrutinyBounds, FS_Interval DEF Places
    <3> QED
      BY <3>1, FS_Subset, FS_CardinalityType
  <2>8. Cardinality(retired) * 10 >= 3 * PoolSize
    BY <2>1, <2>7, ScrutinyBounds DEF MinReplacements
  <2>9. PoolFresh'
    BY <2>6, <2>8 DEF PoolFresh
  <2> QED
    BY <2>4, <2>5, <2>9 DEF ScrutinyInv
<1> QED
  BY <1>1, <1>2, <1>3 DEF ScrutinyNext

LEMMA ScrutinyHolds == ScrutinyInv => ScrutinySound
BY GamingMeans, TestedLogs DEF ScrutinyInv, ScrutinySound, ScrutinyTypeOK

-----------------------------------------------------------------------------
(* The notes of a prompt: the score and the place put them in one order.   *)
LEMMA ScoreFits ==
  ASSUME NEW note \in Listed
  PROVE  /\ Score(note) \in Int /\ note.overlap \in 0..2
         /\ note.level = "verified" =>
              2190 + 730 * note.overlap <= Score(note)
         /\ note.level = "inferred" =>
              Score(note) <= 1460 + 730 * note.overlap
<1>1. /\ note.level \in Levels /\ note.overlap \in 0..2 /\ note.age \in {0, 400}
  BY DEF Listed, Levels
<1>2. /\ TrustWeight["verified"] = 2190 /\ TrustWeight["inferred"] = 1095 /\ TrustWeight["stale"] = 0
  BY DEF TrustWeight
<1> DEFINE weight == TrustWeight[note.level]
           fresh == IF note.age < 365 THEN 365 - note.age ELSE 0
<1>3. weight \in Int /\ fresh \in 0..365
  BY <1>1, <1>2 DEF Levels
<1>4. note.level = "verified" => weight = 2190
  BY <1>2
<1>5. note.level = "inferred" => weight = 1095
  BY <1>2
<1>6. Score(note) = weight + 730 * note.overlap + fresh
  BY DEF Score
<1> HIDE DEF weight, fresh
<1> QED
  BY <1>1, <1>3, <1>4, <1>5, <1>6

LEMMA RankIsOrder ==
  ASSUME NEW list \in [1..4 -> Listed]
  PROVE  /\ \A i, j \in 1..4 : i # j => RankedBefore(list, i, j) \/ RankedBefore(list, j, i)
         /\ \A i, j, l \in 1..4 :
              RankedBefore(list, i, j) /\ RankedBefore(list, j, l) => RankedBefore(list, i, l)
<1>1. \A i \in 1..4 : Score(list[i]) \in Int
  BY ScoreFits
<1> QED
  BY <1>1 DEF RankedBefore

LEMMA LastOfFour ==
  ASSUME NEW list \in [1..4 -> Listed]
  PROVE  \E w \in 1..4 : \A j \in (1..4) \ {w} : RankedBefore(list, j, w)
<1>1. PICK a \in {1, 2} : \A j \in {1, 2} \ {a} : RankedBefore(list, j, a)
  BY RankIsOrder
<1>2. PICK b \in {3, 4} : \A j \in {3, 4} \ {b} : RankedBefore(list, j, b)
  BY RankIsOrder
<1>3. CASE RankedBefore(list, a, b)
  <2>1. \A j \in (1..4) \ {b} : RankedBefore(list, j, b)
    BY <1>1, <1>2, <1>3, RankIsOrder
  <2> QED
    BY <2>1
<1>4. CASE RankedBefore(list, b, a)
  <2>1. \A j \in (1..4) \ {a} : RankedBefore(list, j, a)
    BY <1>1, <1>2, <1>4, RankIsOrder
  <2> QED
    BY <2>1
<1> QED
  BY <1>3, <1>4, RankIsOrder

LEMMA PromptsAreSound == PromptsSound
<1> SUFFICES ASSUME NEW list \in [1..4 -> Listed]
             PROVE
    LET few == SelectForTier(list, "A") IN
    /\ few \subseteq SelectForTier(list, "B") /\ Cardinality(few) <= 3
    /\ \A i \in few : /\ list[i].level # "stale"
                      /\ \A j \in DOMAIN list \ few :
                           list[j].level = "verified" /\ list[i].level = "inferred" =>
                             list[j].overlap < list[i].overlap
  BY DEF PromptsSound
<1> DEFINE few == SelectForTier(list, "A")
           active == {i \in DOMAIN list : list[i].level # "stale"}
           before(i) == {j \in active : RankedBefore(list, j, i)}
<1>1. TierLimits["A"] = 3 /\ TierLimits["B"] = 5
  BY DEF TierLimits
<1>2. /\ few = {i \in active : Cardinality(before(i)) < 3}
      /\ SelectForTier(list, "B") = {i \in active : Cardinality(before(i)) < 5}
  BY <1>1 DEF SelectForTier
<1>3. IsFiniteSet(1..4) /\ Cardinality(1..4) = 4
  <2>1. 1 \in Int /\ 4 \in Int /\ 4 - 1 + 1 = 4 /\ ~(1 > 4)
    OBVIOUS
  <2>2. /\ IsFiniteSet(1..4)
        /\ Cardinality(1..4) = IF 1 > 4 THEN 0 ELSE 4 - 1 + 1
    BY <2>1, FS_Interval
  <2> QED
    BY <2>1, <2>2
<1>4. active \subseteq 1..4 /\ DOMAIN list = 1..4
  OBVIOUS
<1>5. \A i \in 1..4 : IsFiniteSet(before(i)) /\ Cardinality(before(i)) \in Nat
  BY <1>3, <1>4, FS_Subset, FS_CardinalityType
<1>9. \A w \in 1..4 : IsFiniteSet((1..4) \ {w}) /\ Cardinality((1..4) \ {w}) = 3
  <2> TAKE w \in 1..4
  <2>1. Cardinality((1..4) \ {w}) = Cardinality(1..4) - 1
    BY <1>3, FS_RemoveElement
  <2> QED
    BY <1>3, <2>1, FS_RemoveElement
<1>6. few \subseteq SelectForTier(list, "B")
  <2> HIDE DEF before, active
  <2>1. ASSUME NEW i \in active, Cardinality(before(i)) < 3 PROVE Cardinality(before(i)) < 5
    <3>1. Cardinality(before(i)) \in Nat
      BY <1>4, <1>5
    <3> QED
      BY <2>1, <3>1
  <2> QED
    BY <1>2, <2>1
<1>7. Cardinality(few) <= 3
  <2>1. PICK w \in 1..4 : \A j \in (1..4) \ {w} : RankedBefore(list, j, w)
    BY LastOfFour
  <2>2. IsFiniteSet((1..4) \ {w}) /\ Cardinality((1..4) \ {w}) = 3
    BY <1>9
  <2>3. w \notin few \/ ~((1..4) \ {w} \subseteq few)
    <3> SUFFICES ASSUME w \in few, (1..4) \ {w} \subseteq few PROVE FALSE
      OBVIOUS
    <3>1. (1..4) \ {w} \subseteq before(w)
      BY <1>2, <2>1
    <3>2. 3 <= Cardinality(before(w))
      BY <1>5, <2>2, <3>1, FS_Subset
    <3>3. Cardinality(before(w)) < 3 /\ Cardinality(before(w)) \in Nat
      BY <1>2, <1>5
    <3> HIDE DEF before
    <3> QED
      BY <3>2, <3>3
  <2>4. PICK out \in 1..4 : out \notin few
    BY <2>3
  <2>5. few \subseteq (1..4) \ {out}
    BY <1>2, <1>4, <2>4
  <2>6. IsFiniteSet((1..4) \ {out}) /\ Cardinality((1..4) \ {out}) = 3
    BY <1>9
  <2> QED
    BY <2>5, <2>6, FS_Subset
<1>8. ASSUME NEW i \in few, NEW j \in DOMAIN list \ few,
             list[j].level = "verified", list[i].level = "inferred"
      PROVE  list[j].overlap < list[i].overlap
  <2> SUFFICES ASSUME ~(list[j].overlap < list[i].overlap) PROVE FALSE
    OBVIOUS
  <2>1. i \in 1..4 /\ j \in 1..4 /\ j \in active
    BY <1>2, <1>4, <1>8
  <2>2. PICK oi \in Int, oj \in Int, si \in Int, sj \in Int :
          oi = list[i].overlap /\ oj = list[j].overlap /\ si = Score(list[i]) /\ sj = Score(list[j])
    BY <2>1, ScoreFits
  <2>3. si <= 1460 + 730 * oi /\ 2190 + 730 * oj <= sj /\ oi <= oj
    BY <1>8, <2>1, <2>2, ScoreFits
  <2>4. sj > si
    BY <2>2, <2>3
  <2>5. RankedBefore(list, j, i)
    BY <2>2, <2>4 DEF RankedBefore
  <2>6. before(j) \subseteq before(i)
    BY <1>4, <2>1, <2>5, RankIsOrder
  <2>7. Cardinality(before(j)) <= Cardinality(before(i))
    BY <1>5, <2>1, <2>6, FS_Subset
  <2>8. ~(Cardinality(before(j)) < 3) /\ Cardinality(before(i)) < 3
    BY <1>2, <1>8, <2>1
  <2>9. Cardinality(before(j)) \in Nat /\ Cardinality(before(i)) \in Nat
    BY <1>5, <2>1
  <2> HIDE DEF before
  <2> QED
    BY <2>7, <2>8, <2>9
<1> QED
  BY <1>2, <1>6, <1>7, <1>8

LEMMA AnswersAreSound == AnswersSound
<1> SUFFICES ASSUME NEW a \in Found, NEW b \in Found, NEW n \in FindVerifiedAnswer({a, b})
             PROVE
    /\ n.level = "verified"
    /\ n \notin FilterInformational({a, b}) => n.words >= (IF n.category = "decisions" THEN 1 ELSE 2)
  BY DEF AnswersSound
<1>1. n.level = "verified" /\ n \in {a, b}
  BY DEF FindVerifiedAnswer
<1>2. ASSUME n \notin FilterInformational({a, b})
      PROVE  n.words >= (IF n.category = "decisions" THEN 1 ELSE 2)
  BY <1>1, <1>2 DEF FilterInformational, IsPolicyAdjacent
<1> QED
  BY <1>1, <1>2

-----------------------------------------------------------------------------
(* What each caller of the vault has read, against what the notes are now. *)
Notes ==
  [category : NoteCategories, level : Levels, related : BOOLEAN, words : 0..1, dated : Dates]
Deeds ==
  [at : {"idle", "log", "second", "rows"}, deed : {"none", "write", "invalidate", "decay"},
   note : Int, rows : SUBSET (NoteIds \X Levels), left : SUBSET NoteCategories,
   touched : SUBSET NoteIds]

VaultTyped ==
  /\ notes \in [NoteIds -> Notes \cup {NoNote}]
  /\ vaultLog \subseteq NoteIds /\ lost \subseteq NoteIds /\ date \in Dates
  /\ keepers \in [Keepers -> Deeds]

OnRecord ==
  \A n \in NoteIds : Exists(n) =>
    n \in vaultLog \cup lost \/ \E k \in Keepers : Doing(k, "log") /\ keepers[k].note = n

(* A note that an invalidation may pass over was changed by another caller,*)
(* or is among the rows it still has, or in those it is about to read.     *)
KeeperFits(k) ==
  /\ Doing(k, "idle") => keepers[k] = NoDeed
  /\ Doing(k, "log") => keepers[k].note \in NoteIds
  /\ Doing(k, "second") => keepers[k].deed = "invalidate"
  /\ (Doing(k, "second") \/ Doing(k, "rows")) /\ keepers[k].deed = "invalidate" =>
       \A n \in NoteIds :
         Exists(n) /\ notes[n].related /\ notes[n].level # "stale" =>
           \/ n \in keepers[k].touched
           \/ \E pair \in keepers[k].rows : pair[1] = n
           \/ Doing(k, "second") /\ notes[n].level = "verified"
  /\ Doing(k, "rows") /\ keepers[k].deed = "decay" =>
       \A n \in NoteIds :
         <<n, "inferred">> \in keepers[k].rows /\ Exists(n) /\ notes[n].level = "verified" =>
           n \in keepers[k].touched

VaultInv == VaultTyped /\ OnRecord /\ \A k \in Keepers : KeeperFits(k)

LEMMA NotANote == NoNote \notin Notes /\ NoDeed \in Deeds
<1>1. "none" \notin NoteCategories
  BY VaultBounds DEF FadesAfter
<1>2. NoNote \notin Notes
  BY <1>1 DEF NoNote, Notes
<1>3. NoDeed \in Deeds
  BY DEF NoDeed, Deeds
<1> QED
  BY <1>2, <1>3

LEMMA VaultBegins == VaultInit => VaultInv
<1> SUFFICES ASSUME VaultInit PROVE VaultInv
  OBVIOUS
<1>1. VaultTyped
  BY NotANote, VaultBounds DEF VaultInit, VaultTyped
<1>2. OnRecord
  BY DEF VaultInit, OnRecord, Exists
<1>3. ASSUME NEW k \in Keepers PROVE KeeperFits(k)
  <2>1. keepers[k] = NoDeed
    BY DEF VaultInit
  <2> QED
    BY <2>1 DEF KeeperFits, Doing, NoDeed
<1> QED
  BY <1>1, <1>2, <1>3 DEF VaultInv

(* A caller that goes on alone, or that changes one note under the others. *)
LEMMA OthersRest ==
  ASSUME VaultInv, NEW k \in Keepers, NEW next \in Deeds, Proceeds(k, next), UNCHANGED notes
  PROVE  /\ keepers' \in [Keepers -> Deeds] /\ keepers'[k] = next
         /\ \A j \in Keepers \ {k} : keepers'[j] = keepers[j] /\ KeeperFits(j)'
<1>1. keepers' = [keepers EXCEPT ![k] = next] /\ keepers \in [Keepers -> Deeds]
  BY DEF Proceeds, VaultInv, VaultTyped
<1>2. \A j \in Keepers \ {k} : keepers'[j] = keepers[j]
  BY <1>1
<1>3. ASSUME NEW j \in Keepers \ {k} PROVE KeeperFits(j)'
  BY <1>2 DEF VaultInv, KeeperFits, Doing, Exists
<1> QED
  BY <1>1, <1>2, <1>3

LEMMA OthersTouched ==
  ASSUME VaultInv, NEW k \in Keepers, NEW n \in NoteIds, NEW next \in Deeds, Touch(k, n, next),
         \A m \in NoteIds \ {n} : notes'[m] = notes[m]
  PROVE  /\ keepers' \in [Keepers -> Deeds] /\ keepers'[k] = next
         /\ \A j \in Keepers \ {k} :
              /\ keepers'[j].at = keepers[j].at /\ keepers'[j].note = keepers[j].note
              /\ KeeperFits(j)'
<1>1. keepers \in [Keepers -> Deeds]
  BY DEF VaultInv, VaultTyped
<1>2. keepers' = [j \in Keepers |->
        IF j = k THEN next
        ELSE IF Doing(j, "idle") THEN keepers[j]
        ELSE [keepers[j] EXCEPT !.touched = keepers[j].touched \cup {n}]]
  BY DEF Touch
<1>3. ASSUME NEW j \in Keepers \ {k}
      PROVE  /\ keepers'[j] \in Deeds /\ keepers'[j].at = keepers[j].at
             /\ keepers'[j].deed = keepers[j].deed /\ keepers'[j].note = keepers[j].note
             /\ keepers'[j].rows = keepers[j].rows
             /\ keepers[j].at = "idle" => keepers'[j] = keepers[j]
             /\ keepers[j].at # "idle" => keepers'[j].touched = keepers[j].touched \cup {n}
  <2>1. PICK d \in Deeds : d = keepers[j]
    BY <1>1
  <2>2. CASE d.at = "idle"
    BY <1>2, <2>1, <2>2 DEF Doing
  <2>3. CASE d.at # "idle"
    <3>1. keepers'[j] = [d EXCEPT !.touched = d.touched \cup {n}]
      BY <1>2, <2>1, <2>3 DEF Doing
    <3>2. d.touched \cup {n} \in SUBSET NoteIds
      BY <2>1 DEF Deeds
    <3> QED
      BY <2>1, <2>3, <3>1, <3>2 DEF Deeds
  <2> QED
    BY <2>2, <2>3
<1>4. ASSUME NEW j \in Keepers \ {k} PROVE KeeperFits(j)'
  <2>1. KeeperFits(j)
    BY DEF VaultInv
  <2>2. \A m \in NoteIds : m \in keepers[j].touched \/ (m = n /\ keepers[j].at # "idle")
          => m \in keepers'[j].touched
    BY <1>3
  <2>3. \A m \in NoteIds : m # n => notes'[m] = notes[m]
    OBVIOUS
  <2>4. CASE keepers[j].at = "idle"
    BY <1>3, <2>1, <2>4 DEF KeeperFits, Doing, NoDeed
  <2>5. CASE keepers[j].at = "log"
    BY <1>3, <2>1, <2>5 DEF KeeperFits, Doing
  <2>6. CASE keepers[j].at = "second"
    BY <1>3, <2>1, <2>2, <2>3, <2>6 DEF KeeperFits, Doing, Exists
  <2>7. CASE keepers[j].at = "rows"
    BY <1>3, <2>1, <2>2, <2>3, <2>7 DEF KeeperFits, Doing, Exists
  <2>8. keepers[j].at \in {"idle", "log", "second", "rows"}
    BY <1>1 DEF Deeds
  <2> QED
    BY <2>4, <2>5, <2>6, <2>7, <2>8
<1> QED
  BY <1>2, <1>3, <1>4

(* A note of another level is the same note otherwise.                     *)
LEMMA ReleveledFits ==
  ASSUME VaultInv, NEW n \in NoteIds, NEW level \in Levels, Exists(n), Releveled(n, level)
  PROVE  /\ notes' \in [NoteIds -> Notes \cup {NoNote}]
         /\ notes'[n] \in Notes /\ notes'[n].level = level /\ notes'[n].related = notes[n].related
         /\ \A m \in NoteIds \ {n} : notes'[m] = notes[m]
         /\ \A m \in NoteIds : Exists(m)' <=> Exists(m)
<1>1. notes \in [NoteIds -> Notes \cup {NoNote}] /\ notes[n] \in Notes /\ date \in Dates
  BY DEF VaultInv, VaultTyped, Exists
<1>2. PICK day \in {notes[n].dated, date} :
        notes' = [notes EXCEPT ![n].level = level, ![n].dated = day]
  BY DEF Releveled
<1>3. day \in Dates
  BY <1>1, <1>2 DEF Notes
<1>4. PICK note : note = [notes[n] EXCEPT !.level = level]
  OBVIOUS
<1>5. note \in Notes /\ note.level = level /\ note.related = notes[n].related
  BY <1>1, <1>4 DEF Notes
<1>6. PICK anew : anew = [note EXCEPT !.dated = day]
  OBVIOUS
<1>7. anew \in Notes /\ anew.level = level /\ anew.related = notes[n].related
  BY <1>3, <1>5, <1>6 DEF Notes
<1>8. notes' = [notes EXCEPT ![n] = anew]
  BY <1>1, <1>2, <1>4, <1>6
<1>9. /\ notes' \in [NoteIds -> Notes \cup {NoNote}] /\ notes'[n] = anew
      /\ \A m \in NoteIds \ {n} : notes'[m] = notes[m]
  BY <1>1, <1>7, <1>8
<1>10. \A m \in NoteIds : Exists(m)' <=> Exists(m)
  BY <1>7, <1>9, NotANote DEF Exists
<1> QED
  BY <1>7, <1>9, <1>10

LEMMA RecordStays ==
  ASSUME VaultInv, \A n \in NoteIds : Exists(n)' => Exists(n),
         vaultLog \subseteq vaultLog', lost \subseteq lost', NEW k \in Keepers,
         \A j \in Keepers \ {k} : keepers'[j].at = keepers[j].at /\ keepers'[j].note = keepers[j].note,
         Doing(k, "log") => keepers[k].note \in vaultLog' \cup lost'
  PROVE  OnRecord'
BY DEF VaultInv, OnRecord, Doing

LEMMA RecordStill ==
  ASSUME VaultInv, UNCHANGED notes,
         vaultLog \subseteq vaultLog', lost \subseteq lost', NEW k \in Keepers,
         \A j \in Keepers \ {k} : keepers'[j] = keepers[j],
         Doing(k, "log") => keepers[k].note \in vaultLog' \cup lost'
  PROVE  OnRecord'
<1>1. \A n \in NoteIds : Exists(n)' => Exists(n)
  BY DEF Exists
<1>2. \A j \in Keepers \ {k} : keepers'[j].at = keepers[j].at /\ keepers'[j].note = keepers[j].note
  OBVIOUS
<1> QED
  BY <1>1, <1>2, RecordStays

-----------------------------------------------------------------------------
LEMMA WriteKeeps ==
  ASSUME VaultInv, NEW k \in Keepers, WriteNote(k)
  PROVE  VaultInv'
<1>1. PICK n \in NoteIds, category \in NoteCategories, level \in WrittenLevels,
           related \in BOOLEAN, words \in 0..1 :
        /\ Ready(k) /\ NextNote(n)
        /\ notes' = IF stocked
                    THEN [notes EXCEPT ![n] = [category |-> category, level |-> level,
                                               related |-> related, words |-> words, dated |-> date]]
                    ELSE notes
        /\ Touch(k, n, [NoDeed EXCEPT !.at = "log", !.deed = "write", !.note = n])
        /\ UNCHANGED <<vaultLog, lost, date, stocked>>
  BY DEF WriteNote
<1>2. /\ notes \in [NoteIds -> Notes \cup {NoNote}] /\ date \in Dates
      /\ vaultLog \subseteq NoteIds /\ lost \subseteq NoteIds
  BY DEF VaultInv, VaultTyped
<1>3. PICK next : next = [NoDeed EXCEPT !.at = "log", !.deed = "write", !.note = n]
  OBVIOUS
<1>4. next \in Deeds /\ next.at = "log" /\ next.note = n
  <2>1. next = [at |-> "log", deed |-> "write", note |-> n, rows |-> {}, left |-> {}, touched |-> {}]
    BY <1>3 DEF NoDeed
  <2>2. n \in Int
    BY VaultBounds DEF NoteIds
  <2> QED
    BY <2>1, <2>2 DEF Deeds
<1>5. \A m \in NoteIds \ {n} : notes'[m] = notes[m]
  BY <1>1, <1>2
<1>6. notes' \in [NoteIds -> Notes \cup {NoNote}]
  <2>1. PICK note : note = [category |-> category, level |-> level, related |-> related,
                            words |-> words, dated |-> date]
    OBVIOUS
  <2>2. note \in Notes
    BY <1>2, <2>1 DEF Notes, WrittenLevels, Levels
  <2>3. notes' = IF stocked THEN [notes EXCEPT ![n] = note] ELSE notes
    BY <1>1, <2>1
  <2> QED
    BY <1>2, <2>2, <2>3
<1>7. /\ keepers' \in [Keepers -> Deeds] /\ keepers'[k] = next
      /\ \A j \in Keepers \ {k} :
           /\ keepers'[j].at = keepers[j].at /\ keepers'[j].note = keepers[j].note
           /\ KeeperFits(j)'
  BY <1>1, <1>3, <1>4, <1>5, OthersTouched
<1>8. VaultTyped'
  BY <1>1, <1>2, <1>6, <1>7 DEF VaultTyped
<1>9. KeeperFits(k)'
  BY <1>4, <1>7 DEF KeeperFits, Doing
<1>10. OnRecord'
  <2> SUFFICES ASSUME NEW m \in NoteIds, Exists(m)'
               PROVE  m \in vaultLog' \cup lost'
                        \/ \E j \in Keepers : Doing(j, "log")' /\ keepers'[j].note = m
    BY DEF OnRecord
  <2>1. CASE m = n
    BY <1>4, <1>7, <2>1 DEF Doing
  <2>2. CASE m # n
    <3>1. Exists(m)
      BY <1>5, <2>2 DEF Exists
    <3>2. ~Doing(k, "log")
      BY <1>1 DEF Ready, Doing
    <3> QED
      BY <1>1, <1>7, <3>1, <3>2 DEF VaultInv, OnRecord, Doing
  <2> QED
    BY <2>1, <2>2
<1> QED
  BY <1>7, <1>8, <1>9, <1>10 DEF VaultInv

LEMMA AuditNoteKeeps ==
  ASSUME VaultInv, NEW k \in Keepers, AuditNote(k) \/ Returned(k) \/ KeeperDies(k)
  PROVE  VaultInv'
<1>1. Proceeds(k, NoDeed) /\ UNCHANGED <<notes, date>>
  BY DEF AuditNote, Returned, KeeperDies
<1>2. /\ keepers' \in [Keepers -> Deeds] /\ keepers'[k] = NoDeed
      /\ \A j \in Keepers \ {k} : keepers'[j] = keepers[j] /\ KeeperFits(j)'
  BY <1>1, NotANote, OthersRest
<1>3. /\ vaultLog \subseteq vaultLog' /\ lost \subseteq lost'
      /\ vaultLog' \subseteq NoteIds /\ lost' \subseteq NoteIds
  BY DEF AuditNote, Returned, KeeperDies, VaultInv, VaultTyped, KeeperFits
<1>4. Doing(k, "log") => keepers[k].note \in vaultLog' \cup lost'
  <2>1. Doing(k, "log") => keepers[k].note \in NoteIds
    BY DEF VaultInv, KeeperFits
  <2>2. CASE AuditNote(k)
    BY <2>2 DEF AuditNote
  <2>3. CASE Returned(k)
    BY <2>3 DEF Returned, DeedDone, Doing
  <2>4. CASE KeeperDies(k)
    <3> SUFFICES ASSUME Doing(k, "log") PROVE keepers[k].note \in vaultLog' \cup lost'
      OBVIOUS
    <3>1. lost' = lost \cup ({n \in NoteIds : Doing(k, "log") /\ n = keepers[k].note} \ vaultLog)
          /\ vaultLog' = vaultLog
      BY <2>4 DEF KeeperDies
    <3> QED
      BY <2>1, <3>1
  <2> QED
    BY <2>2, <2>3, <2>4
<1>5. VaultTyped'
  BY <1>1, <1>2, <1>3 DEF VaultInv, VaultTyped
<1>6. OnRecord'
  BY <1>1, <1>2, <1>3, <1>4, RecordStill
<1>7. KeeperFits(k)'
  BY <1>2 DEF KeeperFits, Doing, NoDeed
<1> QED
  BY <1>2, <1>5, <1>6, <1>7 DEF VaultInv

LEMMA RelevelKeeps ==
  ASSUME VaultInv, NEW k \in Keepers, UpdateTrustLevel(k)
  PROVE  VaultInv'
<1>1. PICK n \in NoteIds, level \in Levels :
        /\ Ready(k) /\ Exists(n) /\ Releveled(n, level) /\ Touch(k, n, NoDeed)
        /\ UNCHANGED <<vaultLog, lost, date, stocked>>
  BY DEF UpdateTrustLevel
<1>2. /\ notes' \in [NoteIds -> Notes \cup {NoNote}]
      /\ \A m \in NoteIds \ {n} : notes'[m] = notes[m]
      /\ \A m \in NoteIds : Exists(m)' <=> Exists(m)
  BY <1>1, ReleveledFits
<1>3. /\ keepers' \in [Keepers -> Deeds] /\ keepers'[k] = NoDeed
      /\ \A j \in Keepers \ {k} :
           /\ keepers'[j].at = keepers[j].at /\ keepers'[j].note = keepers[j].note
           /\ KeeperFits(j)'
  BY <1>1, <1>2, NotANote, OthersTouched
<1>4. VaultTyped'
  BY <1>1, <1>2, <1>3 DEF VaultInv, VaultTyped
<1>5. ~Doing(k, "log")
  BY <1>1 DEF Ready, Doing
<1>6. OnRecord'
  BY <1>1, <1>2, <1>3, <1>5, RecordStays
<1>7. KeeperFits(k)'
  BY <1>3 DEF KeeperFits, Doing, NoDeed
<1> QED
  BY <1>3, <1>4, <1>6, <1>7 DEF VaultInv

LEMMA DeleteKeeps ==
  ASSUME VaultInv, NEW k \in Keepers, DeleteNote(k)
  PROVE  VaultInv'
<1>1. PICK n \in NoteIds :
        /\ Ready(k) /\ Exists(n)
        /\ notes' = [notes EXCEPT ![n] = NoNote] /\ Touch(k, n, NoDeed)
        /\ lost' = lost \cup ({n} \ vaultLog)
        /\ UNCHANGED <<vaultLog, date, stocked>>
  BY DEF DeleteNote
<1>2. notes \in [NoteIds -> Notes \cup {NoNote}] /\ vaultLog \subseteq NoteIds /\ lost \subseteq NoteIds
  BY DEF VaultInv, VaultTyped
<1>3. /\ notes' \in [NoteIds -> Notes \cup {NoNote}] /\ notes'[n] = NoNote
      /\ \A m \in NoteIds \ {n} : notes'[m] = notes[m]
  BY <1>1, <1>2
<1>4. \A m \in NoteIds : Exists(m)' => Exists(m)
  BY <1>1, <1>3 DEF Exists
<1>5. /\ keepers' \in [Keepers -> Deeds] /\ keepers'[k] = NoDeed
      /\ \A j \in Keepers \ {k} :
           /\ keepers'[j].at = keepers[j].at /\ keepers'[j].note = keepers[j].note
           /\ KeeperFits(j)'
  BY <1>1, <1>3, NotANote, OthersTouched
<1>6. VaultTyped'
  BY <1>1, <1>2, <1>3, <1>5 DEF VaultInv, VaultTyped
<1>7. ~Doing(k, "log") /\ lost \subseteq lost' /\ vaultLog \subseteq vaultLog'
  BY <1>1 DEF Ready, Doing
<1>8. OnRecord'
  BY <1>4, <1>5, <1>7, RecordStays
<1>9. KeeperFits(k)'
  BY <1>5 DEF KeeperFits, Doing, NoDeed
<1> QED
  BY <1>5, <1>6, <1>8, <1>9 DEF VaultInv

(* A caller that only reads: what it has read is what there is.            *)
LEMMA ReadKeeps ==
  ASSUME VaultInv, NEW k \in Keepers, NEW next \in Deeds, Proceeds(k, next),
         UNCHANGED <<notes, vaultLog, lost, date>>, ~Doing(k, "log"), KeeperFits(k)'
  PROVE  VaultInv'
<1>1. /\ keepers' \in [Keepers -> Deeds] /\ keepers'[k] = next
      /\ \A j \in Keepers \ {k} : keepers'[j] = keepers[j] /\ KeeperFits(j)'
  BY OthersRest
<1>2. VaultTyped'
  BY <1>1 DEF VaultInv, VaultTyped
<1>3. OnRecord'
  BY <1>1, RecordStill
<1> QED
  BY <1>1, <1>2, <1>3 DEF VaultInv

LEMMA RowsRead ==
  ASSUME NEW level \in Levels
  PROVE  /\ RowsOf(level) \in SUBSET (NoteIds \X Levels)
         /\ \A n \in NoteIds : Exists(n) /\ notes[n].level = level =>
              \E pair \in RowsOf(level) : pair[1] = n
<1>1. RowsOf(level) \in SUBSET (NoteIds \X Levels)
  BY DEF RowsOf
<1>2. ASSUME NEW n \in NoteIds, Exists(n), notes[n].level = level
      PROVE  \E pair \in RowsOf(level) : pair[1] = n
  <2>1. <<n, level>> \in RowsOf(level)
    BY <1>2 DEF RowsOf
  <2>2. <<n, level>>[1] = n
    OBVIOUS
  <2> QED
    BY <2>1, <2>2
<1> QED
  BY <1>1, <1>2

LEMMA InferredKeeps ==
  ASSUME VaultInv, NEW k \in Keepers, ReadInferred(k)
  PROVE  VaultInv'
<1>1. PICK next : next = [NoDeed EXCEPT !.at = "second", !.deed = "invalidate", !.rows = RowsOf("inferred")]
  OBVIOUS
<1>2. next = [at |-> "second", deed |-> "invalidate", note |-> 0, rows |-> RowsOf("inferred"),
              left |-> {}, touched |-> {}]
  BY <1>1 DEF NoDeed
<1>3. "inferred" \in Levels
  BY DEF Levels
<1>4. RowsOf("inferred") \in SUBSET (NoteIds \X Levels)
  BY <1>3, RowsRead
<1>5. next \in Deeds
  BY <1>2, <1>4 DEF Deeds
<1>6. Proceeds(k, next) /\ UNCHANGED <<notes, vaultLog, lost, date>> /\ ~Doing(k, "log")
  BY <1>1 DEF ReadInferred, Ready, Doing
<1>7. keepers'[k] = next
  BY <1>5, <1>6, OthersRest
<1>8. KeeperFits(k)'
  <2>1. ASSUME NEW n \in NoteIds, Exists(n), notes[n].related, notes[n].level # "stale"
        PROVE  (\E pair \in RowsOf("inferred") : pair[1] = n) \/ notes[n].level = "verified"
    <3>1. notes[n].level \in Levels
      BY <2>1 DEF VaultInv, VaultTyped, Exists, Notes
    <3> QED
      BY <1>3, <2>1, <3>1, RowsRead DEF Levels
  <2>2. UNCHANGED notes
    BY <1>6
  <2> QED
    BY <1>2, <1>7, <2>1, <2>2 DEF KeeperFits, Doing, Exists
<1> QED
  BY <1>5, <1>6, <1>8, ReadKeeps

LEMMA VerifiedKeeps ==
  ASSUME VaultInv, NEW k \in Keepers, ReadVerified(k)
  PROVE  VaultInv'
<1>1. PICK deed \in Deeds : deed = keepers[k]
  BY DEF VaultInv, VaultTyped
<1>2. PICK next : next = [deed EXCEPT !.at = "rows", !.rows = deed.rows \cup RowsOf("verified")]
  OBVIOUS
<1>3. deed.at = "second" /\ deed.deed = "invalidate"
  BY <1>1 DEF ReadVerified, Doing, VaultInv, KeeperFits
<1>4. "verified" \in Levels
  BY DEF Levels
<1>5. deed.rows \cup RowsOf("verified") \in SUBSET (NoteIds \X Levels)
  BY <1>1, <1>4, RowsRead DEF Deeds
<1>6. /\ next \in Deeds /\ next.at = "rows" /\ next.deed = "invalidate"
      /\ next.rows = deed.rows \cup RowsOf("verified") /\ next.touched = deed.touched
  BY <1>2, <1>3, <1>5 DEF Deeds
<1>7. Proceeds(k, next) /\ UNCHANGED <<notes, vaultLog, lost, date>> /\ ~Doing(k, "log")
  BY <1>1, <1>2 DEF ReadVerified, Doing
<1>8. keepers'[k] = next
  BY <1>6, <1>7, OthersRest
<1>9. KeeperFits(k)'
  <2>1. ASSUME NEW n \in NoteIds, Exists(n), notes[n].related, notes[n].level # "stale"
        PROVE  n \in next.touched \/ \E pair \in next.rows : pair[1] = n
    <3>1. \/ n \in deed.touched
          \/ \E pair \in deed.rows : pair[1] = n
          \/ notes[n].level = "verified"
      BY <1>1, <1>3, <2>1 DEF VaultInv, KeeperFits, Doing
    <3> QED
      BY <1>4, <1>6, <2>1, <3>1, RowsRead
  <2>2. UNCHANGED notes
    BY <1>7
  <2> QED
    BY <1>6, <1>8, <2>1, <2>2 DEF KeeperFits, Doing, Exists
<1> QED
  BY <1>6, <1>7, <1>9, ReadKeeps

-----------------------------------------------------------------------------
(* A row that is dealt with is stale afterwards, or nothing to deal with.  *)
LEMMA RowKeeps ==
  ASSUME VaultInv, NEW k \in Keepers, NEW pair \in keepers[k].rows, Doing(k, "rows"),
         NEW rest, rest = [keepers[k] EXCEPT !.rows = @ \ {pair}],
         UNCHANGED <<vaultLog, lost, date>>,
         \/ Exists(pair[1]) /\ Releveled(pair[1], "stale") /\ Touch(k, pair[1], rest)
         \/ /\ UNCHANGED notes /\ Proceeds(k, rest)
            /\ keepers[k].deed = "invalidate" => ~(Exists(pair[1]) /\ notes[pair[1]].related)
  PROVE  VaultInv'
<1>1. PICK deed \in Deeds : deed = keepers[k]
  BY DEF VaultInv, VaultTyped
<1>2. /\ rest \in Deeds /\ rest.at = "rows" /\ rest.deed = deed.deed
      /\ rest.rows = deed.rows \ {pair} /\ rest.touched = deed.touched
  <2>1. rest = [deed EXCEPT !.rows = deed.rows \ {pair}]
    BY <1>1
  <2>2. deed.rows \ {pair} \in SUBSET (NoteIds \X Levels) /\ deed.at = "rows"
    BY <1>1 DEF Deeds, Doing
  <2> QED
    BY <2>1, <2>2 DEF Deeds
<1>3. PICK n \in NoteIds : n = pair[1]
  BY <1>1 DEF Deeds
<1>4. \A m \in NoteIds : m # n => \A r \in deed.rows : r[1] = m => r \in rest.rows
  BY <1>2, <1>3
<1>5. ~Doing(k, "log")
  BY DEF Doing
<1>6. CASE Exists(n) /\ Releveled(n, "stale") /\ Touch(k, n, rest)
  <2>1. "stale" \in Levels
    BY DEF Levels
  <2>2. /\ notes' \in [NoteIds -> Notes \cup {NoNote}] /\ notes'[n].level = "stale"
        /\ \A m \in NoteIds \ {n} : notes'[m] = notes[m]
        /\ \A m \in NoteIds : Exists(m)' <=> Exists(m)
    BY <1>6, <2>1, ReleveledFits
  <2>3. /\ keepers' \in [Keepers -> Deeds] /\ keepers'[k] = rest
        /\ \A j \in Keepers \ {k} :
             /\ keepers'[j].at = keepers[j].at /\ keepers'[j].note = keepers[j].note
             /\ KeeperFits(j)'
    BY <1>2, <1>6, <2>2, OthersTouched
  <2>4. VaultTyped'
    BY <2>2, <2>3 DEF VaultInv, VaultTyped
  <2>5. OnRecord'
    BY <1>5, <2>2, <2>3, RecordStays
  <2>6. ASSUME rest.deed = "invalidate", NEW m \in NoteIds, Exists(m)', notes'[m].related,
               notes'[m].level # "stale"
        PROVE  m \in rest.touched \/ \E r \in rest.rows : r[1] = m
    <3>1. m # n /\ notes'[m] = notes[m] /\ Exists(m)
      BY <2>2, <2>6
    <3>2. m \in deed.touched \/ \E r \in deed.rows : r[1] = m
      BY <1>1, <1>2, <2>6, <3>1 DEF VaultInv, KeeperFits, Doing
    <3> QED
      BY <1>2, <1>4, <3>1, <3>2
  <2>7. ASSUME rest.deed = "decay", NEW m \in NoteIds, <<m, "inferred">> \in rest.rows, Exists(m)',
               notes'[m].level = "verified"
        PROVE  m \in rest.touched
    <3>1. m # n /\ notes'[m] = notes[m] /\ Exists(m)
      BY <2>2, <2>7
    <3> QED
      BY <1>1, <1>2, <2>7, <3>1 DEF VaultInv, KeeperFits, Doing
  <2>8. KeeperFits(k)'
    BY <1>2, <2>3, <2>6, <2>7 DEF KeeperFits, Doing
  <2> QED
    BY <2>3, <2>4, <2>5, <2>8 DEF VaultInv
<1>7. CASE /\ UNCHANGED notes /\ Proceeds(k, rest)
           /\ keepers[k].deed = "invalidate" => ~(Exists(n) /\ notes[n].related)
  <2>1. keepers'[k] = rest
    BY <1>2, <1>7, OthersRest
  <2>2. ASSUME rest.deed = "invalidate", NEW m \in NoteIds, Exists(m), notes[m].related,
               notes[m].level # "stale"
        PROVE  m \in rest.touched \/ \E r \in rest.rows : r[1] = m
    <3>1. m # n
      BY <1>1, <1>2, <1>7, <2>2
    <3>2. m \in deed.touched \/ \E r \in deed.rows : r[1] = m
      BY <1>1, <1>2, <2>2 DEF VaultInv, KeeperFits, Doing
    <3> QED
      BY <1>2, <1>4, <3>1, <3>2
  <2>3. ASSUME rest.deed = "decay", NEW m \in NoteIds, <<m, "inferred">> \in rest.rows, Exists(m),
               notes[m].level = "verified"
        PROVE  m \in rest.touched
    BY <1>1, <1>2, <2>3 DEF VaultInv, KeeperFits, Doing
  <2>4. KeeperFits(k)'
    BY <1>2, <1>7, <2>1, <2>2, <2>3 DEF KeeperFits, Doing, Exists
  <2> QED
    BY <1>2, <1>5, <1>7, <2>4, ReadKeeps
<1> QED
  BY <1>3, <1>6, <1>7

LEMMA InvalidateRowKeeps ==
  ASSUME VaultInv, NEW k \in Keepers, InvalidateRow(k) \/ DecayRow(k)
  PROVE  VaultInv'
<1>1. CASE InvalidateRow(k)
  <2>1. PICK pair, rest :
          /\ pair \in keepers[k].rows
          /\ rest = [keepers[k] EXCEPT !.rows = @ \ {pair}]
          /\ Doing(k, "rows") /\ UNCHANGED <<vaultLog, lost, date>>
          /\ IF Exists(pair[1]) /\ notes[pair[1]].related
             THEN Releveled(pair[1], "stale") /\ Touch(k, pair[1], rest)
             ELSE UNCHANGED notes /\ Proceeds(k, rest)
    BY <1>1 DEF InvalidateRow
  <2>2. \/ Exists(pair[1]) /\ Releveled(pair[1], "stale") /\ Touch(k, pair[1], rest)
        \/ /\ UNCHANGED notes /\ Proceeds(k, rest)
           /\ keepers[k].deed = "invalidate" => ~(Exists(pair[1]) /\ notes[pair[1]].related)
    BY <2>1
  <2> QED
    BY <2>1, <2>2, RowKeeps
<1>2. CASE DecayRow(k)
  <2>1. PICK pair, rest :
          /\ pair \in keepers[k].rows
          /\ rest = [keepers[k] EXCEPT !.rows = @ \ {pair}]
          /\ Doing(k, "rows") /\ keepers[k].deed = "decay" /\ UNCHANGED <<vaultLog, lost, date>>
          /\ IF Exists(pair[1]) THEN Releveled(pair[1], "stale") /\ Touch(k, pair[1], rest)
             ELSE UNCHANGED notes /\ Proceeds(k, rest)
    BY <1>2 DEF DecayRow
  <2>2. \/ Exists(pair[1]) /\ Releveled(pair[1], "stale") /\ Touch(k, pair[1], rest)
        \/ /\ UNCHANGED notes /\ Proceeds(k, rest)
           /\ keepers[k].deed = "invalidate" => ~(Exists(pair[1]) /\ notes[pair[1]].related)
    BY <2>1
  <2> QED
    BY <2>1, <2>2, RowKeeps
<1> QED
  BY <1>1, <1>2

LEMMA DecayKeeps ==
  ASSUME VaultInv, NEW k \in Keepers, BeginDecay(k)
  PROVE  VaultInv'
<1>1. PICK next : next = [NoDeed EXCEPT !.at = "rows", !.deed = "decay", !.note = -date,
                                        !.left = NoteCategories]
  OBVIOUS
<1>2. next = [at |-> "rows", deed |-> "decay", note |-> -date, rows |-> {},
              left |-> NoteCategories, touched |-> {}]
  BY <1>1 DEF NoDeed
<1>3. -date \in Int
  <2>1. date \in Nat
    BY VaultBounds DEF VaultInv, VaultTyped
  <2> QED
    BY <2>1
<1>4. next \in Deeds
  BY <1>2, <1>3 DEF Deeds
<1>5. Proceeds(k, next) /\ UNCHANGED <<notes, vaultLog, lost, date>> /\ ~Doing(k, "log")
  BY <1>1 DEF BeginDecay, Ready, Doing
<1>6. keepers'[k] = next
  BY <1>4, <1>5, OthersRest
<1>7. KeeperFits(k)'
  BY <1>2, <1>6 DEF KeeperFits, Doing
<1> QED
  BY <1>4, <1>5, <1>7, ReadKeeps

LEMMA CategoryKeeps ==
  ASSUME VaultInv, NEW k \in Keepers, ReadCategory(k)
  PROVE  VaultInv'
<1>1. PICK category \in keepers[k].left :
        LET found == {n \in NoteIds : Exists(n) /\ notes[n].category = category} IN
        /\ Doing(k, "rows") /\ keepers[k].rows = {}
        /\ Proceeds(k, [keepers[k] EXCEPT !.left = @ \ {category}, !.rows =
             {<<n, "inferred">> : n \in {m \in found : notes[m].level = "inferred"
                                                       /\ IsOld(notes[m], -keepers[k].note)}}])
        /\ UNCHANGED <<notes, vaultLog, lost, date, deeds, stocked>>
  BY DEF ReadCategory
<1>2. PICK deed \in Deeds : deed = keepers[k] /\ deed.at = "rows" /\ category \in deed.left
  BY <1>1 DEF VaultInv, VaultTyped, Doing
<1>3. PICK old \in SUBSET NoteIds :
        /\ \A n \in old : notes[n].level = "inferred"
        /\ Proceeds(k, [deed EXCEPT !.left = deed.left \ {category}, !.rows = {<<n, "inferred">> : n \in old}])
  <2>1. PICK old : old = {m \in {n \in NoteIds : Exists(n) /\ notes[n].category = category} :
                            notes[m].level = "inferred" /\ IsOld(notes[m], -keepers[k].note)}
    OBVIOUS
  <2> QED
    BY <1>1, <1>2, <2>1
<1>4. PICK taken : taken = {<<n, "inferred">> : n \in old}
  OBVIOUS
<1>5. taken \in SUBSET (NoteIds \X Levels)
  BY <1>4 DEF Levels
<1>6. PICK half : half = [deed EXCEPT !.left = deed.left \ {category}]
  OBVIOUS
<1>7. half \in Deeds /\ half.at = "rows" /\ half.deed = deed.deed
  BY <1>2, <1>6 DEF Deeds
<1>8. PICK next : next = [half EXCEPT !.rows = taken]
  OBVIOUS
<1>9. next \in Deeds /\ next.at = "rows" /\ next.deed = deed.deed /\ next.rows = taken
      /\ next.touched = deed.touched
  BY <1>2, <1>5, <1>6, <1>7, <1>8 DEF Deeds
<1>10. Proceeds(k, next) /\ UNCHANGED <<notes, vaultLog, lost, date>> /\ ~Doing(k, "log")
  BY <1>1, <1>3, <1>4, <1>6, <1>8 DEF Doing
<1>11. keepers'[k] = next
  BY <1>9, <1>10, OthersRest
<1>12. KeeperFits(k)'
  <2>1. ASSUME deed.deed = "invalidate", NEW n \in NoteIds, Exists(n), notes[n].related,
               notes[n].level # "stale"
        PROVE  n \in deed.touched
    <3>1. keepers[k].rows = {}
      BY <1>1
    <3> QED
      BY <1>2, <2>1, <3>1 DEF VaultInv, KeeperFits, Doing
  <2>2. ASSUME NEW n \in NoteIds, <<n, "inferred">> \in taken
        PROVE  notes[n].level # "verified"
    BY <1>3, <1>4, <2>2
  <2>3. UNCHANGED notes
    BY <1>10
  <2> QED
    BY <1>9, <1>11, <2>1, <2>2, <2>3 DEF KeeperFits, Doing, Exists
<1> QED
  BY <1>9, <1>10, <1>12, ReadKeeps

LEMMA VaultStep == VaultInv /\ [VaultNext]_vaultVars => VaultInv'
<1> SUFFICES ASSUME VaultInv, [VaultNext]_vaultVars PROVE VaultInv'
  OBVIOUS
<1>1. CASE UNCHANGED <<notes, vaultLog, lost, keepers>> /\ date' \in Dates
  <2>1. VaultTyped'
    BY <1>1 DEF VaultInv, VaultTyped
  <2>2. OnRecord'
    BY <1>1 DEF VaultInv, OnRecord, Exists, Doing
  <2>3. ASSUME NEW k \in Keepers PROVE KeeperFits(k)'
    BY <1>1 DEF VaultInv, KeeperFits, Exists, Doing
  <2> QED
    BY <2>1, <2>2, <2>3 DEF VaultInv
<1>2. CASE UNCHANGED vaultVars \/ TimePasses
  BY <1>1, <1>2 DEF vaultVars, TimePasses, VaultInv, VaultTyped
<1>3. CASE \E k \in Keepers :
             \/ WriteNote(k) \/ AuditNote(k) \/ UpdateTrustLevel(k) \/ DeleteNote(k)
             \/ ReadInferred(k) \/ ReadVerified(k) \/ InvalidateRow(k)
             \/ BeginDecay(k) \/ ReadCategory(k) \/ DecayRow(k)
             \/ Returned(k) \/ KeeperDies(k)
  BY <1>3, WriteKeeps, AuditNoteKeeps, RelevelKeeps, DeleteKeeps, InferredKeeps, VerifiedKeeps,
     InvalidateRowKeeps, DecayKeeps, CategoryKeeps
<1> QED
  BY <1>2, <1>3 DEF VaultNext

LEMMA VaultHolds == VaultInv => VaultSound
<1> SUFFICES ASSUME VaultInv PROVE VaultSound
  OBVIOUS
<1>1. VaultTypeOK
  <2>1. \A n \in NoteIds : Exists(n) => notes[n] \in Notes
    BY DEF VaultInv, VaultTyped, Exists
  <2>2. \A k \in Keepers : keepers[k] \in Deeds
    BY DEF VaultInv, VaultTyped
  <2> QED
    BY <2>1, <2>2 DEF VaultInv, VaultTyped, VaultTypeOK, Notes, Deeds
<1>2. InvalidationWhole
  BY DEF VaultInv, KeeperFits, InvalidationWhole, DeedDone, Doing
<1>3. NotesOnRecord
  <2>1. ASSUME NEW note \in ShownOf("decisions") PROVE note.words = 0
    <3>1. stocked
      BY DEF ShownOf, QueryVault
    <3>2. PICK n \in NoteIds : /\ Exists(n) /\ notes[n].category = "decisions"
                               /\ note = notes[n] /\ ~IsPolicyAdjacent(note.category, note.words)
      BY <3>1 DEF ShownOf, QueryVault, FilterInformational
    <3>3. notes[n] \in Notes
      BY <3>2 DEF VaultInv, VaultTyped, Exists
    <3>4. note.words \in 0..1 /\ ~(note.words >= 1)
      BY <3>2, <3>3 DEF Notes, IsPolicyAdjacent
    <3> QED
      BY <3>4
  <2> QED
    BY <2>1 DEF VaultInv, OnRecord, NotesOnRecord
<1>4. VerifiedOutlives
  BY DEF VaultInv, KeeperFits, VerifiedOutlives
<1> QED
  BY <1>1, <1>2, <1>3, <1>4, PromptsAreSound, AnswersAreSound DEF VaultSound

-----------------------------------------------------------------------------
(* One of the parts is studied and the others rest, so that each keeps its *)
(* invariant; a repair loop that rests never ran.                          *)
RulesInv ==
  /\ GateInv /\ ScrutinyInv /\ VaultInv
  /\ studied = "repairs" => RepairInv

LEMMA RulesBegin == RecordsInit => RulesInv
<1> SUFFICES ASSUME RecordsInit PROVE RulesInv
  OBVIOUS
<1>1. GateInit /\ ScrutinyInit /\ VaultInit /\ (studied = "repairs" => RepairInit)
  BY DEF RecordsInit
<1> QED
  BY <1>1, GateBegins, ScrutinyBegins, VaultBegins, RepairBegins DEF RulesInv

LEMMA RulesStep == RulesInv /\ [RecordsNext]_RecordsVars => RulesInv'
<1> SUFFICES ASSUME RulesInv, [RecordsNext]_RecordsVars PROVE RulesInv'
  OBVIOUS
<1>1. /\ [GateNext]_gateVars /\ [ScrutinyNext]_scrutinyVars /\ [VaultNext]_vaultVars
      /\ UNCHANGED studied /\ (studied = "repairs" => [RepairNext]_repairVars)
  <2>1. CASE UNCHANGED RecordsVars
    BY <2>1 DEF RecordsVars
  <2>2. CASE Others("lifecycle") \/ Others("registry")
    BY <2>2 DEF Others
  <2>3. CASE Others("gates") /\ GateNext
    BY <2>3 DEF Others
  <2>4. CASE Others("repairs") /\ RepairNext
    BY <2>4 DEF Others
  <2>5. CASE Others("scrutiny") /\ ScrutinyNext
    BY <2>5 DEF Others
  <2>6. CASE Others("vault") /\ VaultNext
    BY <2>6 DEF Others
  <2>7. CASE Others("guidance") /\ GuidanceNext
    BY <2>7 DEF Others
  <2> QED
    BY <2>1, <2>2, <2>3, <2>4, <2>5, <2>6, <2>7 DEF RecordsNext
<1>2. GateInv' /\ ScrutinyInv' /\ VaultInv'
  BY <1>1, GateStep, ScrutinyStep, VaultStep DEF RulesInv
<1>3. studied' = "repairs" => RepairInv'
  BY <1>1, RepairStep DEF RulesInv
<1> QED
  BY <1>2, <1>3 DEF RulesInv

(* Who looks at a change, what stops an agent that tries again, what the   *)
(* hidden checks find and what is known from earlier changes follow their  *)
(* rules whatever the bounds.                                              *)
THEOREM RulesAreSound == RecordsSpec => []RulesSound
<1>1. RulesInv => RulesSound
  BY GateHolds, RepairHolds, ScrutinyHolds, VaultHolds DEF RulesInv, RulesSound
<1> QED
  BY <1>1, RulesBegin, RulesStep, PTL DEF RecordsSpec

(* Studying the parts one at a time loses nothing of any of them: what is  *)
(* seen of a part is a behaviour of that part, for which its theorems hold.*)
THEOREM PartsAreTheirOwn ==
  RecordsSpec => Spec /\ RegistrySpec /\ GateSpec /\ ScrutinySpec /\ VaultSpec
<1>1. RecordsInit => Init /\ RegistryInit /\ GateInit /\ ScrutinyInit /\ VaultInit
  BY DEF RecordsInit
<1>2. [RecordsNext]_RecordsVars =>
        /\ [Next]_vars /\ [RegistryNext]_registryVars /\ [GateNext]_gateVars
        /\ [ScrutinyNext]_scrutinyVars /\ [VaultNext]_vaultVars
  <2> SUFFICES ASSUME [RecordsNext]_RecordsVars
               PROVE  /\ [Next]_vars /\ [RegistryNext]_registryVars /\ [GateNext]_gateVars
                      /\ [ScrutinyNext]_scrutinyVars /\ [VaultNext]_vaultVars
    OBVIOUS
  <2>1. CASE UNCHANGED RecordsVars
    BY <2>1 DEF RecordsVars
  <2>2. CASE Others("lifecycle") /\ Next
    BY <2>2 DEF Others
  <2>3. CASE Others("registry") /\ RegistryNext
    BY <2>3 DEF Others
  <2>4. CASE Others("gates") /\ GateNext
    BY <2>4 DEF Others
  <2>5. CASE Others("repairs") /\ RepairNext
    BY <2>5 DEF Others
  <2>6. CASE Others("scrutiny") /\ ScrutinyNext
    BY <2>6 DEF Others
  <2>7. CASE Others("vault") /\ VaultNext
    BY <2>7 DEF Others
  <2>8. CASE Others("guidance") /\ GuidanceNext
    BY <2>8 DEF Others
  <2> QED
    BY <2>1, <2>2, <2>3, <2>4, <2>5, <2>6, <2>7, <2>8 DEF RecordsNext
<1> QED
  BY <1>1, <1>2, PTL DEF RecordsSpec, Spec, RegistrySpec, GateSpec, ScrutinySpec, VaultSpec
===============================================================================
