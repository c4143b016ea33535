------------------------ MODULE BuilderSession_proofs ------------------------
(***************************************************************************)
(* Builder sessions, manifests and approvals stay in step, for any number  *)
(* of sessions, runs and deaths, and for any number of processes as long   *)
(* as none of several recovers a session.                                  *)
(***************************************************************************)
EXTENDS BuilderSession, FiniteSetTheorems, TLAPS

\* no command runs beside another one
Alone == \A p, q \in Procs : p = q

\* the assumption of the theorems: a recovery has the project to itself
Orderly == "recover" \in Commands => Alone

-----------------------------------------------------------------------------
(* Sequences: one element replaced, one appended, every element changed.   *)

LEMMA SeqExcept ==
  ASSUME NEW S, NEW seq \in Seq(S), NEW i \in DOMAIN seq, NEW e \in S
  PROVE  /\ [seq EXCEPT ![i] = e] \in Seq(S)
         /\ Len([seq EXCEPT ![i] = e]) = Len(seq)
         /\ [seq EXCEPT ![i] = e][i] = e
         /\ \A j \in DOMAIN seq \ {i} : [seq EXCEPT ![i] = e][j] = seq[j]
OBVIOUS

LEMMA SeqAppend ==
  ASSUME NEW S, NEW seq \in Seq(S), NEW e \in S
  PROVE  /\ Append(seq, e) \in Seq(S)
         /\ Len(Append(seq, e)) = Len(seq) + 1
         /\ Append(seq, e)[Len(seq) + 1] = e
         /\ \A j \in DOMAIN seq : Append(seq, e)[j] = seq[j]
OBVIOUS

LEMMA SeqLen == ASSUME NEW S, NEW seq \in Seq(S)
                PROVE  /\ Len(seq) \in Nat /\ DOMAIN seq = 1..Len(seq)
                       /\ \A i \in DOMAIN seq : seq[i] \in S
OBVIOUS

-----------------------------------------------------------------------------
(* What actions do to the stores, field by field.                          *)

\* session s is written, all other ones stay as they are
Touched(s, stage, why, manifest, approved) ==
  /\ sessions' \in Seq(SessionRecords) /\ Len(sessions') = Len(sessions)
  /\ sessions'[s].stage = stage /\ sessions'[s].why = why
  /\ sessions'[s].manifest = manifest /\ sessions'[s].approved = approved
  /\ sessions'[s].old = FALSE
  /\ \A t \in DOMAIN sessions \ {s} : sessions'[t] = sessions[t]

\* manifest m is written, all other ones stay as they are
Changed(m, state, approval) ==
  /\ manifests' \in Seq(ManifestRecords) /\ Len(manifests') = Len(manifests)
  /\ manifests'[m].state = state /\ manifests'[m].approval = approval
  /\ \A n \in DOMAIN manifests \ {m} : manifests'[n] = manifests[n]

LEMMA SessionFields ==
  ASSUME NEW r \in SessionRecords
  PROVE  /\ r = [stage |-> r.stage, why |-> r.why, manifest |-> r.manifest,
                 approved |-> r.approved, interrupted |-> r.interrupted, old |-> r.old]
         /\ r.stage \in Stages /\ r.why \in Reasons
         /\ r.manifest \in 0..MaxRuns /\ r.approved \in 0..MaxRuns
         /\ r.interrupted \in BOOLEAN /\ r.old \in BOOLEAN
<1>1. r = [stage |-> r.stage, why |-> r.why, manifest |-> r.manifest,
           approved |-> r.approved, interrupted |-> r.interrupted, old |-> r.old]
  BY DEF SessionRecords
<1>2. /\ r.stage \in Stages /\ r.why \in Reasons
      /\ r.manifest \in 0..MaxRuns /\ r.approved \in 0..MaxRuns
      /\ r.interrupted \in BOOLEAN /\ r.old \in BOOLEAN
  BY Zenon DEF SessionRecords
<1> QED
  BY <1>1, <1>2

LEMMA Session ==
  ASSUME NEW stage \in Stages, NEW why \in Reasons, NEW manifest \in 0..MaxRuns,
         NEW approved \in 0..MaxRuns, NEW int \in BOOLEAN, NEW old \in BOOLEAN
  PROVE  [stage |-> stage, why |-> why, manifest |-> manifest, approved |-> approved,
          interrupted |-> int, old |-> old] \in SessionRecords
BY Zenon DEF SessionRecords

LEMMA NewSessionTyped == NewSession \in SessionRecords
<1>1. "ready_to_run" \in Stages /\ "brief_captured" \in Reasons /\ 0 \in 0..MaxRuns
  BY SessionConstants DEF Stages, Reasons
<1>2. FALSE \in BOOLEAN
  OBVIOUS
<1> QED
  BY <1>1, <1>2, Session, Zenon DEF NewSession

LEMMA ManifestFields ==
  ASSUME NEW r \in ManifestRecords
  PROVE  /\ r = [state |-> r.state, approval |-> r.approval]
         /\ r.state \in ManifestStates /\ r.approval \in {"none", "approve", "reject"}
<1>1. r = [state |-> r.state, approval |-> r.approval]
  BY DEF ManifestRecords
<1>2. r.state \in ManifestStates /\ r.approval \in {"none", "approve", "reject"}
  BY Zenon DEF ManifestRecords
<1> QED
  BY <1>1, <1>2

LEMMA TouchSession ==
  ASSUME sessions \in Seq(SessionRecords), NEW s \in DOMAIN sessions,
         NEW stage \in Stages, NEW why \in Reasons, NEW manifest \in 0..MaxRuns,
         NEW approved \in 0..MaxRuns, NEW int \in BOOLEAN,
         sessions' = [sessions EXCEPT ![s] = [stage |-> stage, why |-> why,
           manifest |-> manifest, approved |-> approved, interrupted |-> int, old |-> FALSE]]
  PROVE  Touched(s, stage, why, manifest, approved) /\ sessions'[s].interrupted = int
<1> DEFINE no == FALSE
           new == [stage |-> stage, why |-> why, manifest |-> manifest,
                   approved |-> approved, interrupted |-> int, old |-> no]
<1>1. no \in BOOLEAN
  OBVIOUS
<1>2. sessions' = [sessions EXCEPT ![s] = new]
  OBVIOUS
<1> HIDE DEF no
<1>3. new \in SessionRecords
  BY <1>1, Session
<1>4. /\ new.stage = stage /\ new.why = why /\ new.manifest = manifest
      /\ new.approved = approved /\ new.interrupted = int /\ new.old = no
  BY Zenon
<1> HIDE DEF new
<1>5. /\ sessions' \in Seq(SessionRecords) /\ Len(sessions') = Len(sessions)
      /\ sessions'[s] = new
      /\ \A t \in DOMAIN sessions \ {s} : sessions'[t] = sessions[t]
  <2>1. [sessions EXCEPT ![s] = new] \in Seq(SessionRecords)
    BY <1>3, SeqExcept
  <2>2. Len([sessions EXCEPT ![s] = new]) = Len(sessions)
    BY <1>3, SeqExcept
  <2>3. sessions'[s] = new
    BY <1>2, SeqLen
  <2>4. \A t \in DOMAIN sessions \ {s} : sessions'[t] = sessions[t]
    BY <1>2, SeqLen
  <2> QED
    BY <1>2, <2>1, <2>2, <2>3, <2>4
<1>6. sessions'[s].old = FALSE
  BY <1>4, <1>5 DEF no
<1>7. sessions'[s].interrupted = int
  BY <1>4, <1>5, Zenon
<1> QED
  BY <1>4, <1>5, <1>6, <1>7 DEF Touched

LEMMA UpdateTouches ==
  ASSUME sessions \in Seq(SessionRecords), NEW s \in DOMAIN sessions,
         NEW stage \in Stages, NEW why \in Reasons, UpdateSession(s, stage, why)
  PROVE  Touched(s, stage, why, sessions[s].manifest, sessions[s].approved)
<1> DEFINE r == sessions[s]
           no == FALSE
           int == (why = "runtime_interrupted")
           new == [r EXCEPT !.stage = stage, !.why = why, !.old = no, !.interrupted = int]
<1>1. r \in SessionRecords /\ int \in BOOLEAN
  <2>1. int \in BOOLEAN
    BY Zenon
  <2> QED
    BY <2>1, SeqLen
<1>2. sessions' = [sessions EXCEPT ![s] = new]
  BY Zenon DEF UpdateSession
<1> HIDE DEF no, r, int
<1>3. new = [stage |-> stage, why |-> why, manifest |-> r.manifest,
             approved |-> r.approved, interrupted |-> int, old |-> no]
  <2> DEFINE kst == r.stage kwh == r.why kma == r.manifest
             kap == r.approved kint == r.interrupted kol == r.old
             one == [r EXCEPT !.stage = stage]
             two == [one EXCEPT !.why = why]
             three == [two EXCEPT !.old = no]
  <2>1. r = [stage |-> kst, why |-> kwh, manifest |-> kma,
             approved |-> kap, interrupted |-> kint, old |-> kol]
    BY <1>1, SessionFields
  <2> HIDE DEF kst, kwh, kma, kap, kint, kol
  <2>2. one = [stage |-> stage, why |-> kwh, manifest |-> kma,
               approved |-> kap, interrupted |-> kint, old |-> kol]
    BY <2>1
  <2> HIDE DEF one
  <2>3. two = [stage |-> stage, why |-> why, manifest |-> kma,
               approved |-> kap, interrupted |-> kint, old |-> kol]
    BY <2>2
  <2> HIDE DEF two
  <2>4. three = [stage |-> stage, why |-> why, manifest |-> kma,
                 approved |-> kap, interrupted |-> kint, old |-> no]
    BY <2>3
  <2> HIDE DEF three
  <2>5. [three EXCEPT !.interrupted = int] =
         [stage |-> stage, why |-> why, manifest |-> kma,
          approved |-> kap, interrupted |-> int, old |-> no]
    BY <2>4
  <2> QED
    BY <2>5, Zenon DEF one, two, three, kma, kap
<1>4. r.manifest \in 0..MaxRuns /\ r.approved \in 0..MaxRuns
  BY <1>1, SessionFields
<1>5. sessions' = [sessions EXCEPT ![s] =
        [stage |-> stage, why |-> why, manifest |-> r.manifest,
         approved |-> r.approved, interrupted |-> int, old |-> no]]
  BY <1>2, <1>3, Zenon
<1> QED
  BY <1>1, <1>4, <1>5, TouchSession DEF no, r

LEMMA ChangeManifest ==
  ASSUME manifests \in Seq(ManifestRecords), NEW m \in DOMAIN manifests,
         NEW state \in ManifestStates, NEW approval \in {"none", "approve", "reject"},
         manifests' = [manifests EXCEPT ![m] = [state |-> state, approval |-> approval]]
  PROVE  Changed(m, state, approval)
<1> DEFINE new == [state |-> state, approval |-> approval]
<1>1. new \in ManifestRecords /\ new.state = state /\ new.approval = approval
  BY DEF ManifestRecords
<1>2. manifests' = [manifests EXCEPT ![m] = new]
  OBVIOUS
<1> HIDE DEF new
<1>3. /\ [manifests EXCEPT ![m] = new] \in Seq(ManifestRecords)
      /\ Len([manifests EXCEPT ![m] = new]) = Len(manifests)
  BY <1>1, SeqExcept
<1>4. /\ manifests'[m] = new
      /\ \A n \in DOMAIN manifests \ {m} : manifests'[n] = manifests[n]
  BY <1>2, SeqLen
<1> QED
  BY <1>1, <1>2, <1>3, <1>4 DEF Changed

LEMMA StateChanges ==
  ASSUME manifests \in Seq(ManifestRecords), NEW m \in DOMAIN manifests,
         NEW state \in ManifestStates, SetState(m, state)
  PROVE  Changed(m, state, manifests[m].approval)
<1> DEFINE r == manifests[m]
           new == [state |-> state, approval |-> r.approval]
<1>1. r \in ManifestRecords
  BY SeqLen
<1>2. manifests' = [manifests EXCEPT ![m] = [r EXCEPT !.state = state]]
  BY DEF SetState
<1>3. [r EXCEPT !.state = state] = new
  BY <1>1, ManifestFields
<1>4. manifests' = [manifests EXCEPT ![m] = new]
  BY <1>2, <1>3, Zenon
<1> QED
  BY <1>1, <1>4, ManifestFields, ChangeManifest

LEMMA ApprovalChanges ==
  ASSUME manifests \in Seq(ManifestRecords), NEW m \in DOMAIN manifests,
         NEW approval \in {"none", "approve", "reject"},
         manifests' = [manifests EXCEPT ![m].approval = approval]
  PROVE  Changed(m, manifests[m].state, approval)
<1> DEFINE r == manifests[m]
           new == [state |-> r.state, approval |-> approval]
<1>1. r \in ManifestRecords
  BY SeqLen
<1>2. manifests' = [manifests EXCEPT ![m] = [r EXCEPT !.approval = approval]]
  OBVIOUS
<1>3. [r EXCEPT !.approval = approval] = new
  BY <1>1, ManifestFields
<1>4. manifests' = [manifests EXCEPT ![m] = new]
  BY <1>2, <1>3, Zenon
<1> QED
  BY <1>1, <1>4, ManifestFields, ChangeManifest, ZenonT(40)

-----------------------------------------------------------------------------
(* The inductive invariant.                                                *)

Labels == {"idle"} \cup RunLabels \cup RecoverLabels

\* before the decision on a run; while a run has a manifest; while a recovery plans and acts
Undecided == {"supersede", "superseding", "resave", "contract", "mark", "launch", "scan",
              "write_lock", "runtime", "find_lock", "read_lock", "unlink", "verify",
              "submit", "decide"}
Owning == Undecided \cup {"merging", "rejecting", "close"}
Recovering == {"plan", "rerun", "attach", "approve", "complete"}

Memory(ls, lm) ==
  [session : 0..ls, manifest : 0..lm, read : SessionRecords,
   recover : {"no", "evidence", "complete"},
   outcome : {"none", "approval_recorded", "merge_blocked", "approval_rejected"}]

Typed ==
  /\ sessions \in Seq(SessionRecords) /\ Len(sessions) <= MaxSessions
  /\ manifests \in Seq(ManifestRecords)
  /\ lock \in Locks /\ contract \in BOOLEAN
  /\ runs \in 0..MaxRuns /\ deaths \in 0..MaxDeaths
  /\ pc \in [Procs -> Labels]
  /\ mem \in [Procs -> Memory(Len(sessions), Len(manifests))]

\* every manifest is that of a run, and a run that begins has none yet
Early == {"reload", "prepare"}
Preparing == {p \in Procs : pc[p] \in Early}
Counted ==
  IsFiniteSet(Preparing) /\ Len(manifests) + Cardinality(Preparing) <= runs

\* no session names a manifest that does not exist
Known(session) ==
  session.manifest <= Len(manifests) /\ session.approved <= Len(manifests)
AllKnown ==
  /\ \A s \in DOMAIN sessions : Known(sessions[s])
  /\ \A p \in Procs : Known(mem[p].read)

Approved(m) == m >= 1 /\ manifests[m].approval = "approve"

\* what a process knows where it is
Fits(p) ==
  /\ pc[p] \in RunLabels \cup RecoverLabels => mem[p].session >= 1
  /\ pc[p] \in Owning => mem[p].manifest >= 1
  /\ pc[p] \in Undecided => manifests[mem[p].manifest].approval = "none"
  /\ pc[p] \in {"superseding", "resave"} => mem[p].read.manifest >= 1
  /\ pc[p] = "merging" => Approved(mem[p].manifest)
  /\ pc[p] = "close" => mem[p].outcome # "none"
  /\ pc[p] = "close" /\ mem[p].outcome = "approval_recorded" => Approved(mem[p].manifest)
  /\ pc[p] \in Recovering \/ mem[p].recover # "no" => "recover" \in Commands
  /\ pc[p] = "approve" => Target(mem[p].read) >= 1
  /\ pc[p] = "complete" => Approved(Target(mem[p].read))

\* no two runs have one manifest
Distinct ==
  \A p, q \in Procs :
    pc[p] \in Owning /\ pc[q] \in Owning /\ mem[p].manifest = mem[q].manifest => p = q

SessionInv ==
  Typed /\ Counted /\ AllKnown /\ (\A p \in Procs : Fits(p)) /\ Distinct /\ CompletedIsApproved

LEMMA MemoryFields ==
  ASSUME NEW ls, NEW lm, NEW r \in Memory(ls, lm)
  PROVE  /\ r = [session |-> r.session, manifest |-> r.manifest, read |-> r.read,
                 recover |-> r.recover, outcome |-> r.outcome]
         /\ r.session \in 0..ls /\ r.manifest \in 0..lm /\ r.read \in SessionRecords
         /\ r.recover \in {"no", "evidence", "complete"}
         /\ r.outcome \in {"none", "approval_recorded", "merge_blocked", "approval_rejected"}
BY DEF Memory

LEMMA MemoryOf ==
  ASSUME NEW ls, NEW lm, NEW session \in 0..ls, NEW manifest \in 0..lm,
         NEW read \in SessionRecords, NEW recover \in {"no", "evidence", "complete"},
         NEW outcome \in {"none", "approval_recorded", "merge_blocked", "approval_rejected"}
  PROVE  [session |-> session, manifest |-> manifest, read |-> read, recover |-> recover,
          outcome |-> outcome] \in Memory(ls, lm)
BY DEF Memory

LEMMA MemoryGrows ==
  ASSUME NEW ls \in Nat, NEW lm \in Nat, NEW ls2 \in Nat, NEW lm2 \in Nat,
         ls <= ls2, lm <= lm2, NEW r \in Memory(ls, lm)
  PROVE  r \in Memory(ls2, lm2)
<1>1. r.session \in 0..ls2 /\ r.manifest \in 0..lm2
  BY MemoryFields
<1>2. r = [session |-> r.session, manifest |-> r.manifest, read |-> r.read,
           recover |-> r.recover, outcome |-> r.outcome]
  BY MemoryFields
<1>3. /\ r.read \in SessionRecords /\ r.recover \in {"no", "evidence", "complete"}
      /\ r.outcome \in {"none", "approval_recorded", "merge_blocked", "approval_rejected"}
  BY MemoryFields
<1>4. [session |-> r.session, manifest |-> r.manifest, read |-> r.read,
       recover |-> r.recover, outcome |-> r.outcome] \in Memory(ls2, lm2)
  BY <1>1, <1>3, MemoryOf
<1> QED
  BY <1>2, <1>4

-----------------------------------------------------------------------------
(* What a step of p may do to the stores.                                  *)

SessionsKept ==
  /\ sessions' \in Seq(SessionRecords)
  /\ Len(sessions) <= Len(sessions') /\ Len(sessions') <= MaxSessions
  /\ \A s \in DOMAIN sessions' :
       /\ sessions'[s].manifest <= Len(manifests') /\ sessions'[s].approved <= Len(manifests')
       /\ sessions'[s].stage = "completed" =>
            \/ /\ s \in DOMAIN sessions /\ sessions[s].stage = "completed"
               /\ sessions'[s].approved = sessions[s].approved
            \/ /\ sessions'[s].approved >= 1
               /\ manifests'[sessions'[s].approved].approval = "approve"

ManifestsKept(p) ==
  /\ manifests' \in Seq(ManifestRecords) /\ Len(manifests) <= Len(manifests')
  /\ \A m \in DOMAIN manifests :
       \/ manifests'[m].approval = manifests[m].approval
       \/ m = mem[p].manifest /\ pc[p] = "decide"
       \/ manifests'[m].approval = "approve" /\ pc[p] = "approve"

\* p goes to a label, and holds what it holds; nobody else moves
Went(p, label) ==
  /\ pc' \in [Procs -> Labels] /\ pc'[p] = label
  /\ \A q \in Procs \ {p} : pc'[q] = pc[q]

Holds(p) ==
  /\ mem' \in [Procs -> Memory(Len(sessions'), Len(manifests'))]
  /\ \A q \in Procs \ {p} : mem'[q] = mem[q]

\* a run keeps its manifest or gets one that did not exist
Owns(p) ==
  pc'[p] \in Owning =>
    \/ pc[p] \in Owning /\ mem'[p].manifest = mem[p].manifest
    \/ mem'[p].manifest > Len(manifests)

LEMMA Counts ==
  ASSUME Typed, Counted, NEW p \in Procs, NEW label, Went(p, label),
         \/ Len(manifests') = Len(manifests)
         \/ Len(manifests') = Len(manifests) + 1 /\ pc[p] \in Early /\ label \notin Early,
         \/ label \notin Early /\ runs' = runs
         \/ label \in Early /\ pc[p] \in Early /\ runs' = runs
         \/ label \in Early /\ runs' = runs + 1 /\ Len(manifests') = Len(manifests)
  PROVE  Counted'
<1>1. Len(manifests) \in Nat /\ runs \in Nat /\ Cardinality(Preparing) \in Nat
  BY SeqLen, FS_CardinalityType, SessionConstants DEF Typed, Counted
<1>2. pc[p] \in Early <=> p \in Preparing
  BY DEF Preparing
<1>3. CASE label \in Early
  <2>1. Preparing' = Preparing \cup {p}
    <3>1. \A q \in Procs : pc'[q] \in Early <=> pc[q] \in Early \/ q = p
      BY <1>3 DEF Went
    <3> QED
      BY <3>1 DEF Preparing
  <2>2. /\ IsFiniteSet(Preparing')
        /\ Cardinality(Preparing') = IF p \in Preparing THEN Cardinality(Preparing)
                                     ELSE Cardinality(Preparing) + 1
    BY <2>1, FS_AddElement DEF Counted
  <2> QED
    BY <1>1, <1>2, <1>3, <2>2 DEF Counted
<1>4. CASE label \notin Early
  <2>1. Preparing' = Preparing \ {p}
    <3>1. \A q \in Procs : pc'[q] \in Early <=> pc[q] \in Early /\ q # p
      BY <1>4 DEF Went
    <3> QED
      BY <3>1 DEF Preparing
  <2>2. /\ IsFiniteSet(Preparing')
        /\ Cardinality(Preparing') = IF p \in Preparing THEN Cardinality(Preparing) - 1
                                     ELSE Cardinality(Preparing)
    BY <2>1, FS_RemoveElement DEF Counted
  <2> QED
    BY <1>1, <1>2, <1>4, <2>2 DEF Counted
<1> QED
  BY <1>3, <1>4

\* the approval of another run's manifest, and of what was approved, stays
LEMMA ApprovalsStand ==
  ASSUME SessionInv, Orderly, NEW p \in Procs, ManifestsKept(p)
  PROVE  /\ \A m \in Nat : m <= Len(manifests) /\ Approved(m) =>
               m >= 1 /\ manifests'[m].approval = "approve"
         /\ \A q \in Procs \ {p} : pc[q] \in Owning =>
              manifests'[mem[q].manifest].approval = manifests[mem[q].manifest].approval
<1>1. /\ Len(manifests) \in Nat /\ DOMAIN manifests = 1..Len(manifests)
      /\ \A q \in Procs : mem[q] \in Memory(Len(sessions), Len(manifests))
  BY SeqLen DEF SessionInv, Typed
<1>2. \A q \in Procs : mem[q].manifest \in 0..Len(manifests)
  BY <1>1, MemoryFields
<1>3. pc[p] = "decide" => manifests[mem[p].manifest].approval = "none"
  BY DEF SessionInv, Fits, Undecided
<1>4. pc[p] = "approve" => Alone
  BY DEF SessionInv, Fits, Recovering, Orderly
<1>5. ASSUME NEW m \in Nat, m <= Len(manifests), Approved(m)
      PROVE  m >= 1 /\ manifests'[m].approval = "approve"
  BY <1>1, <1>3, <1>5 DEF Approved, ManifestsKept
<1>6. ASSUME NEW q \in Procs \ {p}, pc[q] \in Owning
      PROVE  manifests'[mem[q].manifest].approval = manifests[mem[q].manifest].approval
  <2>1. mem[q].manifest \in DOMAIN manifests
    BY <1>1, <1>2, <1>6 DEF SessionInv, Fits
  <2>2. pc[p] # "approve"
    BY <1>4, <1>6 DEF Alone
  <2>3. ~(mem[q].manifest = mem[p].manifest /\ pc[p] = "decide")
    BY <1>6 DEF SessionInv, Distinct, Owning, Undecided
  <2> QED
    BY <2>1, <2>2, <2>3 DEF ManifestsKept
<1> QED
  BY <1>5, <1>6

\* the others still fit where they are
LEMMA OthersFit ==
  ASSUME SessionInv, Orderly, NEW p \in Procs, ManifestsKept(p), Holds(p),
         NEW label, Went(p, label), NEW q \in Procs \ {p}
  PROVE  Fits(q)' /\ Known(mem[q].read)'
<1>1. mem'[q] = mem[q] /\ pc'[q] = pc[q]
  BY DEF Holds, Went
<1>2. /\ mem[q].session \in 0..Len(sessions) /\ mem[q].manifest \in 0..Len(manifests)
      /\ mem[q].read \in SessionRecords
  BY MemoryFields DEF SessionInv, Typed
<1>3. /\ mem[q].read.manifest <= Len(manifests) /\ mem[q].read.approved <= Len(manifests)
      /\ mem[q].read.manifest \in Nat /\ mem[q].read.approved \in Nat
  BY <1>2, SessionFields, SessionConstants DEF SessionInv, AllKnown, Known
<1>4. Target(mem[q].read) \in Nat /\ Target(mem[q].read) <= Len(manifests)
  BY <1>3 DEF Target
<1>5. Len(manifests) \in Nat /\ Len(manifests') \in Nat /\ Len(manifests) <= Len(manifests')
  BY SeqLen DEF SessionInv, Typed, ManifestsKept
<1>6. Known(mem[q].read)'
  BY <1>1, <1>3, <1>5 DEF Known
<1>7. Target(mem[q].read)' = Target(mem[q].read)
  BY <1>1 DEF Target
<1>8. Fits(q)
  BY DEF SessionInv
<1>9. pc[q] \in Owning => manifests'[mem[q].manifest].approval = manifests[mem[q].manifest].approval
  BY ApprovalsStand
<1>10. Approved(Target(mem[q].read)) => manifests'[Target(mem[q].read)].approval = "approve"
  BY <1>4, ApprovalsStand DEF Approved
<1> QED
  BY <1>1, <1>2, <1>6, <1>7, <1>8, <1>9, <1>10 DEF Fits, Approved, Owning, Undecided

LEMMA CoreStep ==
  ASSUME SessionInv, Orderly, NEW p \in Procs, NEW label, Went(p, label), Holds(p),
         SessionsKept, ManifestsKept(p), Owns(p), Counted', Fits(p)', Known(mem[p].read)',
         lock' \in Locks, contract' \in BOOLEAN, runs' \in 0..MaxRuns, deaths' \in 0..MaxDeaths
  PROVE  SessionInv'
<1>1. Typed'
  <2>1. contract' \in BOOLEAN
    OBVIOUS
  <2> QED
    BY <2>1 DEF Typed, Went, Holds, SessionsKept, ManifestsKept
<1>2. AllKnown' /\ \A q \in Procs : Fits(q)'
  <2>1. \A q \in Procs : Fits(q)' /\ Known(mem[q].read)'
    BY OthersFit
  <2>2. \A s \in DOMAIN sessions' : Known(sessions[s])'
    BY DEF SessionsKept, Known
  <2> QED
    BY <2>1, <2>2 DEF AllKnown
<1>3. Distinct'
  <2> SUFFICES ASSUME NEW q \in Procs, NEW r \in Procs, pc'[q] \in Owning, pc'[r] \in Owning,
                      mem'[q].manifest = mem'[r].manifest, q # r
               PROVE  FALSE
    BY DEF Distinct
  <2>1. \A x \in Procs \ {p} : /\ pc'[x] = pc[x] /\ mem'[x].manifest = mem[x].manifest
                               /\ mem[x].manifest <= Len(manifests)
    BY MemoryFields, SeqLen DEF Went, Holds, SessionInv, Typed
  <2>2. CASE q # p /\ r # p
    BY <2>1, <2>2 DEF SessionInv, Distinct
  <2>3. ASSUME NEW x \in Procs \ {p}, pc[x] \in Owning, mem[x].manifest = mem'[p].manifest,
               pc'[p] \in Owning
        PROVE  FALSE
    <3>1. CASE pc[p] \in Owning /\ mem'[p].manifest = mem[p].manifest
      BY <2>3, <3>1 DEF SessionInv, Distinct
    <3>2. CASE mem'[p].manifest > Len(manifests)
      <4>1. mem'[p].manifest \in Nat /\ Len(manifests) \in Nat /\ mem[x].manifest \in Nat
        <5>1. /\ mem'[p].manifest \in 0..Len(manifests')
              /\ mem[x].manifest \in 0..Len(manifests)
          BY MemoryFields DEF Holds, SessionInv, Typed
        <5> QED
          BY <5>1, SeqLen DEF SessionInv, Typed
      <4> QED
        BY <4>1, <2>1, <2>3, <3>2
    <3> QED
      BY <2>3, <3>1, <3>2 DEF Owns
  <2> QED
    BY <2>1, <2>2, <2>3
<1>4. CompletedIsApproved'
  <2> SUFFICES ASSUME NEW s \in DOMAIN sessions', sessions'[s].stage = "completed"
               PROVE  /\ sessions'[s].approved > 0
                      /\ manifests'[sessions'[s].approved].approval = "approve"
    BY DEF CompletedIsApproved
  <2>1. CASE /\ sessions'[s].approved >= 1
             /\ manifests'[sessions'[s].approved].approval = "approve"
    <3>1. sessions'[s] \in SessionRecords
      BY SeqLen DEF SessionsKept
    <3>2. sessions'[s].approved \in Nat
      BY <3>1, SessionFields, SessionConstants
    <3> QED
      BY <2>1, <3>2
  <2>2. CASE /\ s \in DOMAIN sessions /\ sessions[s].stage = "completed"
             /\ sessions'[s].approved = sessions[s].approved
    <3> DEFINE m == sessions[s].approved
    <3>1. sessions[s] \in SessionRecords
      BY <2>2, SeqLen DEF SessionInv, Typed
    <3>2. m \in Nat /\ m <= Len(manifests)
      BY <2>2, <3>1, SessionFields, SessionConstants DEF SessionInv, AllKnown, Known
    <3>3. Approved(m)
      BY <2>2, <3>2 DEF SessionInv, CompletedIsApproved, Approved
    <3>4. m >= 1 /\ manifests'[m].approval = "approve"
      BY <3>2, <3>3, ApprovalsStand DEF Approved
    <3> QED
      BY <2>2, <3>2, <3>4
  <2> QED
    BY <2>1, <2>2 DEF SessionsKept
<1> QED
  BY <1>1, <1>2, <1>3, <1>4 DEF SessionInv

-----------------------------------------------------------------------------
(* The pieces of a step.                                                   *)

\* the numbers a process works with name what exists
LEMMA Place ==
  ASSUME SessionInv, NEW p \in Procs
  PROVE  /\ sessions \in Seq(SessionRecords) /\ manifests \in Seq(ManifestRecords)
         /\ Len(sessions) \in Nat /\ DOMAIN sessions = 1..Len(sessions)
         /\ Len(sessions) <= MaxSessions
         /\ Len(manifests) \in Nat /\ DOMAIN manifests = 1..Len(manifests)
         /\ mem[p] \in Memory(Len(sessions), Len(manifests))
         /\ mem[p].session \in 0..Len(sessions) /\ mem[p].manifest \in 0..Len(manifests)
         /\ pc[p] \in RunLabels \cup RecoverLabels => mem[p].session \in DOMAIN sessions
         /\ pc[p] \in Owning => mem[p].manifest \in DOMAIN manifests
         /\ Fits(p)
<1>1. /\ sessions \in Seq(SessionRecords) /\ manifests \in Seq(ManifestRecords)
      /\ Len(sessions) <= MaxSessions
      /\ mem[p] \in Memory(Len(sessions), Len(manifests)) /\ Fits(p)
  BY DEF SessionInv, Typed
<1>2. mem[p].session \in 0..Len(sessions) /\ mem[p].manifest \in 0..Len(manifests)
  BY <1>1, MemoryFields
<1> QED
  BY <1>1, <1>2, SeqLen DEF Fits

\* there are no more manifests than the bound on runs, sessions name only those
LEMMA Numbers ==
  ASSUME SessionInv
  PROVE  /\ Len(manifests) <= runs /\ runs <= MaxRuns /\ runs \in Nat
         /\ Preparing # {} => Len(manifests) < runs
         /\ \A s \in DOMAIN sessions :
              /\ sessions[s] \in SessionRecords
              /\ sessions[s].manifest \in 0..Len(manifests)
              /\ sessions[s].approved \in 0..Len(manifests)
         /\ \A p \in Procs :
              /\ mem[p].read \in SessionRecords
              /\ mem[p].read.manifest \in 0..Len(manifests)
              /\ mem[p].read.approved \in 0..Len(manifests)
              /\ Target(mem[p].read) \in 0..Len(manifests)
<1>1. /\ sessions \in Seq(SessionRecords) /\ Len(manifests) \in Nat
      /\ Cardinality(Preparing) \in Nat /\ runs \in Nat /\ runs <= MaxRuns
      /\ \A p \in Procs : mem[p] \in Memory(Len(sessions), Len(manifests))
  BY SeqLen, FS_CardinalityType, SessionConstants DEF SessionInv, Typed, Counted
<1>2. Preparing # {} => Cardinality(Preparing) # 0
  BY FS_EmptySet DEF SessionInv, Counted
<1>3. \A s \in DOMAIN sessions : sessions[s] \in SessionRecords
  BY <1>1, SeqLen
<1>4. \A p \in Procs : mem[p].read \in SessionRecords
  BY <1>1, MemoryFields
<1>5. \A r \in SessionRecords : r.manifest \in Nat /\ r.approved \in Nat
  BY SessionFields, SessionConstants
<1>6. \A s \in DOMAIN sessions : /\ sessions[s].manifest \in 0..Len(manifests)
                                 /\ sessions[s].approved \in 0..Len(manifests)
  BY <1>1, <1>3, <1>5 DEF SessionInv, AllKnown, Known
<1>7. \A p \in Procs : /\ mem[p].read.manifest \in 0..Len(manifests)
                       /\ mem[p].read.approved \in 0..Len(manifests)
  BY <1>1, <1>4, <1>5 DEF SessionInv, AllKnown, Known
<1>8. \A p \in Procs : Target(mem[p].read) \in 0..Len(manifests)
  BY <1>7 DEF Target
<1> QED
  BY <1>1, <1>2, <1>3, <1>4, <1>6, <1>7, <1>8 DEF SessionInv, Counted

LEMMA SessionsSame ==
  ASSUME SessionInv, NEW p \in Procs, sessions' = sessions, ManifestsKept(p)
  PROVE  SessionsKept
<1>1. Len(manifests) \in Nat /\ Len(manifests') \in Nat /\ Len(manifests) <= Len(manifests')
  BY SeqLen DEF SessionInv, Typed, ManifestsKept
<1>2. /\ sessions \in Seq(SessionRecords) /\ Len(sessions) <= MaxSessions /\ Len(sessions) \in Nat
  BY SeqLen DEF SessionInv, Typed
<1>3. \A s \in DOMAIN sessions : /\ sessions[s].manifest <= Len(manifests')
                                 /\ sessions[s].approved <= Len(manifests')
  BY <1>1, Numbers
<1> QED
  BY <1>2, <1>3 DEF SessionsKept

LEMMA SessionsTouched ==
  ASSUME SessionInv, NEW p \in Procs, ManifestsKept(p), NEW s \in DOMAIN sessions,
         NEW stage, NEW why, NEW manifest \in 0..Len(manifests),
         NEW approved \in 0..Len(manifests), Touched(s, stage, why, manifest, approved),
         stage = "completed" => approved >= 1 /\ manifests'[approved].approval = "approve"
  PROVE  SessionsKept
<1>1. Len(manifests) \in Nat /\ Len(manifests') \in Nat /\ Len(manifests) <= Len(manifests')
  BY SeqLen DEF SessionInv, Typed, ManifestsKept
<1>2. /\ sessions \in Seq(SessionRecords) /\ Len(sessions) <= MaxSessions /\ Len(sessions) \in Nat
  BY SeqLen DEF SessionInv, Typed
<1>3. \A t \in DOMAIN sessions : /\ sessions[t].manifest <= Len(manifests')
                                 /\ sessions[t].approved <= Len(manifests')
  BY <1>1, Numbers
<1>4. DOMAIN sessions' = DOMAIN sessions
  BY <1>2, SeqLen DEF Touched
<1>5. manifest <= Len(manifests') /\ approved <= Len(manifests')
  BY <1>1
<1> QED
  BY <1>2, <1>3, <1>4, <1>5 DEF SessionsKept, Touched

LEMMA ManifestsSame ==
  ASSUME SessionInv, NEW p \in Procs, manifests' = manifests
  PROVE  ManifestsKept(p)
BY SeqLen DEF SessionInv, Typed, ManifestsKept

LEMMA ManifestsChanged ==
  ASSUME SessionInv, NEW p \in Procs, NEW m, NEW state, NEW approval,
         Changed(m, state, approval),
         \/ approval = manifests[m].approval
         \/ m = mem[p].manifest /\ pc[p] = "decide"
         \/ approval = "approve" /\ pc[p] = "approve"
  PROVE  ManifestsKept(p)
BY SeqLen DEF SessionInv, Typed, ManifestsKept, Changed

LEMMA HoldsSame ==
  ASSUME SessionInv, NEW p \in Procs, mem' = mem, SessionsKept, ManifestsKept(p)
  PROVE  Holds(p)
<1>1. /\ Len(sessions) \in Nat /\ Len(sessions') \in Nat
      /\ Len(manifests) \in Nat /\ Len(manifests') \in Nat
  BY SeqLen DEF SessionInv, Typed, SessionsKept, ManifestsKept
<1>2. Len(sessions) <= Len(sessions') /\ Len(manifests) <= Len(manifests')
  BY DEF SessionsKept, ManifestsKept
<1>3. \A q \in Procs : mem[q] \in Memory(Len(sessions'), Len(manifests'))
  BY <1>1, <1>2, MemoryGrows DEF SessionInv, Typed
<1> QED
  BY <1>3 DEF Holds, SessionInv, Typed

LEMMA HoldsNew ==
  ASSUME SessionInv, NEW p \in Procs, SessionsKept, ManifestsKept(p),
         NEW new \in Memory(Len(sessions'), Len(manifests')), mem' = [mem EXCEPT ![p] = new]
  PROVE  Holds(p) /\ mem'[p] = new
<1>1. /\ Len(sessions) \in Nat /\ Len(sessions') \in Nat
      /\ Len(manifests) \in Nat /\ Len(manifests') \in Nat
  BY SeqLen DEF SessionInv, Typed, SessionsKept, ManifestsKept
<1>2. Len(sessions) <= Len(sessions') /\ Len(manifests) <= Len(manifests')
  BY DEF SessionsKept, ManifestsKept
<1>3. \A q \in Procs : mem[q] \in Memory(Len(sessions'), Len(manifests'))
  BY <1>1, <1>2, MemoryGrows DEF SessionInv, Typed
<1> QED
  BY <1>3 DEF Holds, SessionInv, Typed

LEMMA Remembered ==
  ASSUME SessionInv, NEW p \in Procs, SessionsKept, ManifestsKept(p)
  PROVE  /\ mem[p] = [session |-> mem[p].session, manifest |-> mem[p].manifest,
                      read |-> mem[p].read, recover |-> mem[p].recover,
                      outcome |-> mem[p].outcome]
         /\ mem[p].session \in 0..Len(sessions') /\ mem[p].manifest \in 0..Len(manifests')
         /\ mem[p].read \in SessionRecords
         /\ mem[p].recover \in {"no", "evidence", "complete"}
         /\ mem[p].outcome \in {"none", "approval_recorded", "merge_blocked",
                                "approval_rejected"}
<1>1. /\ Len(sessions) \in Nat /\ Len(sessions') \in Nat
      /\ Len(manifests) \in Nat /\ Len(manifests') \in Nat
  BY SeqLen DEF SessionInv, Typed, SessionsKept, ManifestsKept
<1>2. Len(sessions) <= Len(sessions') /\ Len(manifests) <= Len(manifests')
  BY DEF SessionsKept, ManifestsKept
<1>3. mem[p] \in Memory(Len(sessions'), Len(manifests'))
  BY <1>1, <1>2, MemoryGrows DEF SessionInv, Typed
<1> QED
  BY <1>3, MemoryFields

LEMMA HoldsSession ==
  ASSUME SessionInv, NEW p \in Procs, SessionsKept, ManifestsKept(p),
         NEW session \in 0..Len(sessions'),
         mem' = [mem EXCEPT ![p].session = session]
  PROVE  /\ Holds(p)
         /\ mem'[p].session = session
         /\ mem'[p].manifest = mem[p].manifest
         /\ mem'[p].read = mem[p].read
         /\ mem'[p].recover = mem[p].recover
         /\ mem'[p].outcome = mem[p].outcome
<1> DEFINE se == mem[p].session ma == mem[p].manifest re == mem[p].read
           rc == mem[p].recover ou == mem[p].outcome
           new == [session |-> session, manifest |-> ma, read |-> re, recover |-> rc, outcome |-> ou]
<1>1. /\ se \in 0..Len(sessions') /\ ma \in 0..Len(manifests') /\ re \in SessionRecords
      /\ rc \in {"no", "evidence", "complete"}
      /\ ou \in {"none", "approval_recorded", "merge_blocked", "approval_rejected"}
  BY Remembered
<1>2. new \in Memory(Len(sessions'), Len(manifests'))
  BY <1>1, MemoryOf
<1>3. mem[p] = [session |-> se, manifest |-> ma, read |-> re, recover |-> rc, outcome |-> ou]
  BY Remembered
<1> HIDE DEF se, ma, re, rc, ou
<1> DEFINE one == [mem[p] EXCEPT !.session = session]
<1>4. one = [session |-> session, manifest |-> ma, read |-> re, recover |-> rc, outcome |-> ou]
  BY <1>3
<1> HIDE DEF one
<1>5. [mem[p] EXCEPT !.session = session] = new
  BY <1>4, Zenon DEF one
<1>6. mem' = [mem EXCEPT ![p] = new]
  BY <1>5, Zenon
<1>7. Holds(p) /\ mem'[p] = new
  BY <1>2, <1>6, HoldsNew
<1> QED
  BY <1>7 DEF se, ma, re, rc, ou

LEMMA HoldsManifest ==
  ASSUME SessionInv, NEW p \in Procs, SessionsKept, ManifestsKept(p),
         NEW manifest \in 0..Len(manifests'),
         mem' = [mem EXCEPT ![p].manifest = manifest]
  PROVE  /\ Holds(p)
         /\ mem'[p].session = mem[p].session
         /\ mem'[p].manifest = manifest
         /\ mem'[p].read = mem[p].read
         /\ mem'[p].recover = mem[p].recover
         /\ mem'[p].outcome = mem[p].outcome
<1> DEFINE se == mem[p].session ma == mem[p].manifest re == mem[p].read
           rc == mem[p].recover ou == mem[p].outcome
           new == [session |-> se, manifest |-> manifest, read |-> re, recover |-> rc, outcome |-> ou]
<1>1. /\ se \in 0..Len(sessions') /\ ma \in 0..Len(manifests') /\ re \in SessionRecords
      /\ rc \in {"no", "evidence", "complete"}
      /\ ou \in {"none", "approval_recorded", "merge_blocked", "approval_rejected"}
  BY Remembered
<1>2. new \in Memory(Len(sessions'), Len(manifests'))
  BY <1>1, MemoryOf
<1>3. mem[p] = [session |-> se, manifest |-> ma, read |-> re, recover |-> rc, outcome |-> ou]
  BY Remembered
<1> HIDE DEF se, ma, re, rc, ou
<1> DEFINE one == [mem[p] EXCEPT !.manifest = manifest]
<1>4. one = [session |-> se, manifest |-> manifest, read |-> re, recover |-> rc, outcome |-> ou]
  BY <1>3
<1> HIDE DEF one
<1>5. [mem[p] EXCEPT !.manifest = manifest] = new
  BY <1>4, Zenon DEF one
<1>6. mem' = [mem EXCEPT ![p] = new]
  BY <1>5, Zenon
<1>7. Holds(p) /\ mem'[p] = new
  BY <1>2, <1>6, HoldsNew
<1> QED
  BY <1>7 DEF se, ma, re, rc, ou

LEMMA HoldsOutcome ==
  ASSUME SessionInv, NEW p \in Procs, SessionsKept, ManifestsKept(p),
         NEW outcome \in {"none", "approval_recorded", "merge_blocked",
                        "approval_rejected"},
         mem' = [mem EXCEPT ![p].outcome = outcome]
  PROVE  /\ Holds(p)
         /\ mem'[p].session = mem[p].session
         /\ mem'[p].manifest = mem[p].manifest
         /\ mem'[p].read = mem[p].read
         /\ mem'[p].recover = mem[p].recover
         /\ mem'[p].outcome = outcome
<1> DEFINE se == mem[p].session ma == mem[p].manifest re == mem[p].read
           rc == mem[p].recover ou == mem[p].outcome
           new == [session |-> se, manifest |-> ma, read |-> re, recover |-> rc, outcome |-> outcome]
<1>1. /\ se \in 0..Len(sessions') /\ ma \in 0..Len(manifests') /\ re \in SessionRecords
      /\ rc \in {"no", "evidence", "complete"}
      /\ ou \in {"none", "approval_recorded", "merge_blocked", "approval_rejected"}
  BY Remembered
<1>2. new \in Memory(Len(sessions'), Len(manifests'))
  BY <1>1, MemoryOf
<1>3. mem[p] = [session |-> se, manifest |-> ma, read |-> re, recover |-> rc, outcome |-> ou]
  BY Remembered
<1> HIDE DEF se, ma, re, rc, ou
<1> DEFINE one == [mem[p] EXCEPT !.outcome = outcome]
<1>4. one = [session |-> se, manifest |-> ma, read |-> re, recover |-> rc, outcome |-> outcome]
  BY <1>3
<1> HIDE DEF one
<1>5. [mem[p] EXCEPT !.outcome = outcome] = new
  BY <1>4, Zenon DEF one
<1>6. mem' = [mem EXCEPT ![p] = new]
  BY <1>5, Zenon
<1>7. Holds(p) /\ mem'[p] = new
  BY <1>2, <1>6, HoldsNew
<1> QED
  BY <1>7 DEF se, ma, re, rc, ou

LEMMA HoldsReadOnly ==
  ASSUME SessionInv, NEW p \in Procs, SessionsKept, ManifestsKept(p),
         NEW read \in SessionRecords,
         mem' = [mem EXCEPT ![p].read = read]
  PROVE  /\ Holds(p)
         /\ mem'[p].session = mem[p].session
         /\ mem'[p].manifest = mem[p].manifest
         /\ mem'[p].read = read
         /\ mem'[p].recover = mem[p].recover
         /\ mem'[p].outcome = mem[p].outcome
<1> DEFINE se == mem[p].session ma == mem[p].manifest re == mem[p].read
           rc == mem[p].recover ou == mem[p].outcome
           new == [session |-> se, manifest |-> ma, read |-> read, recover |-> rc, outcome |-> ou]
<1>1. /\ se \in 0..Len(sessions') /\ ma \in 0..Len(manifests') /\ re \in SessionRecords
      /\ rc \in {"no", "evidence", "complete"}
      /\ ou \in {"none", "approval_recorded", "merge_blocked", "approval_rejected"}
  BY Remembered
<1>2. new \in Memory(Len(sessions'), Len(manifests'))
  BY <1>1, MemoryOf
<1>3. mem[p] = [session |-> se, manifest |-> ma, read |-> re, recover |-> rc, outcome |-> ou]
  BY Remembered
<1> HIDE DEF se, ma, re, rc, ou
<1> DEFINE one == [mem[p] EXCEPT !.read = read]
<1>4. one = [session |-> se, manifest |-> ma, read |-> read, recover |-> rc, outcome |-> ou]
  BY <1>3
<1> HIDE DEF one
<1>5. [mem[p] EXCEPT !.read = read] = new
  BY <1>4, Zenon DEF one
<1>6. mem' = [mem EXCEPT ![p] = new]
  BY <1>5, Zenon
<1>7. Holds(p) /\ mem'[p] = new
  BY <1>2, <1>6, HoldsNew
<1> QED
  BY <1>7 DEF se, ma, re, rc, ou

LEMMA HoldsRead ==
  ASSUME SessionInv, NEW p \in Procs, SessionsKept, ManifestsKept(p),
         NEW session \in 0..Len(sessions'),
         NEW read \in SessionRecords,
         mem' = [mem EXCEPT ![p] = [@ EXCEPT !.session = session, !.read = read]]
  PROVE  /\ Holds(p)
         /\ mem'[p].session = session
         /\ mem'[p].manifest = mem[p].manifest
         /\ mem'[p].read = read
         /\ mem'[p].recover = mem[p].recover
         /\ mem'[p].outcome = mem[p].outcome
<1> DEFINE se == mem[p].session ma == mem[p].manifest re == mem[p].read
           rc == mem[p].recover ou == mem[p].outcome
           new == [session |-> session, manifest |-> ma, read |-> read, recover |-> rc, outcome |-> ou]
<1>1. /\ se \in 0..Len(sessions') /\ ma \in 0..Len(manifests') /\ re \in SessionRecords
      /\ rc \in {"no", "evidence", "complete"}
      /\ ou \in {"none", "approval_recorded", "merge_blocked", "approval_rejected"}
  BY Remembered
<1>2. new \in Memory(Len(sessions'), Len(manifests'))
  BY <1>1, MemoryOf
<1>3. mem[p] = [session |-> se, manifest |-> ma, read |-> re, recover |-> rc, outcome |-> ou]
  BY Remembered
<1> HIDE DEF se, ma, re, rc, ou
<1> DEFINE one == [mem[p] EXCEPT !.session = session]
<1>4. one = [session |-> session, manifest |-> ma, read |-> re, recover |-> rc, outcome |-> ou]
  BY <1>3
<1> HIDE DEF one
<1> DEFINE two == [one EXCEPT !.read = read]
<1>5. two = [session |-> session, manifest |-> ma, read |-> read, recover |-> rc, outcome |-> ou]
  BY <1>4
<1> HIDE DEF two
<1>6. [mem[p] EXCEPT !.session = session, !.read = read] = new
  BY <1>5, Zenon DEF one, two
<1>7. mem' = [mem EXCEPT ![p] = new]
  BY <1>6, Zenon
<1>8. Holds(p) /\ mem'[p] = new
  BY <1>2, <1>7, HoldsNew
<1> QED
  BY <1>8 DEF se, ma, re, rc, ou

LEMMA WentTo ==
  ASSUME SessionInv, NEW p \in Procs, NEW label \in Labels, GoTo(p, label)
  PROVE  Went(p, label)
BY DEF GoTo, Went, SessionInv, Typed

\* a process that leaves has nothing left
LEMMA LeaveHolds ==
  ASSUME SessionInv, NEW p \in Procs, Leave(p), SessionsKept, ManifestsKept(p)
  PROVE  /\ Went(p, "idle") /\ Holds(p) /\ mem'[p] = NoMem
         /\ Fits(p)' /\ Known(mem[p].read)' /\ Owns(p)
<1>1. Went(p, "idle")
  BY WentTo DEF Leave, Labels
<1>2. Len(sessions') \in Nat /\ Len(manifests') \in Nat
  BY SeqLen DEF SessionsKept, ManifestsKept
<1>3. NewSession \in SessionRecords
  BY NewSessionTyped
<1>4. NoMem \in Memory(Len(sessions'), Len(manifests'))
  <2>1. 0 \in 0..Len(sessions') /\ 0 \in 0..Len(manifests')
    BY <1>2
  <2> QED
    BY <2>1, <1>3, MemoryOf, Zenon DEF NoMem
<1>5. Holds(p) /\ mem'[p] = NoMem
  BY <1>4, HoldsNew DEF Leave
<1>6. /\ NoMem.recover = "no" /\ NoMem.outcome = "none" /\ NoMem.read = NewSession
      /\ NewSession.manifest = 0 /\ NewSession.approved = 0
  BY DEF NoMem, NewSession
<1>7. Known(mem[p].read)'
  BY <1>2, <1>5, <1>6 DEF Known
<1> QED
  BY <1>1, <1>5, <1>6, <1>7
  DEF Went, Fits, Owns, Owning, Undecided, Recovering, RunLabels, RecoverLabels

-----------------------------------------------------------------------------
(* Every action keeps the invariant; what it does besides is stated with   *)
(* it, for the proofs that follow.                                         *)

\* what an action leaves alone of lock, contract and the counts
LEMMA Rest ==
  ASSUME SessionInv
  PROVE  /\ lock' = lock => lock' \in Locks
         /\ contract' = contract => contract' \in BOOLEAN
         /\ runs' = runs => runs' \in 0..MaxRuns
         /\ deaths' = deaths => deaths' \in 0..MaxDeaths
<1>1. contract' = contract => contract' \in BOOLEAN
  BY DEF SessionInv, Typed
<1> QED
  BY <1>1 DEF SessionInv, Typed

LEMMA LeaveKeeps ==
  ASSUME SessionInv, Orderly, NEW p \in Procs, Leave(p), SessionsKept, ManifestsKept(p),
         Len(manifests') = Len(manifests), runs' = runs, lock' \in Locks,
         contract' = contract, deaths' \in 0..MaxDeaths
  PROVE  SessionInv' /\ Went(p, "idle") /\ Holds(p) /\ mem'[p] = NoMem
<1>1. /\ Went(p, "idle") /\ Holds(p) /\ mem'[p] = NoMem
      /\ Fits(p)' /\ Known(mem[p].read)' /\ Owns(p)
  BY LeaveHolds
<1>2. Counted'
  BY <1>1, Counts DEF SessionInv, Early
<1>3. contract' \in BOOLEAN /\ runs' \in 0..MaxRuns
  BY Rest
<1>4. SessionInv'
  BY <1>1, <1>2, <1>3, CoreStep
<1> QED
  BY <1>1, <1>4

LEMMA QuitsKeeps ==
  ASSUME SessionInv, Orderly, NEW p \in Procs, Quits(p)
  PROVE  /\ SessionInv' /\ Went(p, "idle") /\ Holds(p) /\ mem'[p] = NoMem
         /\ sessions' = sessions /\ manifests' = manifests /\ lock' = lock
<1>1. /\ Leave(p) /\ sessions' = sessions /\ manifests' = manifests /\ lock' = lock
      /\ contract' = contract /\ runs' = runs /\ deaths' = deaths
  BY DEF Quits, stored, counts
<1>2. ManifestsKept(p)
  BY <1>1, ManifestsSame
<1>3. SessionsKept
  BY <1>1, <1>2, SessionsSame
<1>4. lock' \in Locks /\ deaths' \in 0..MaxDeaths
  BY <1>1, Rest
<1> QED
  BY <1>1, <1>2, <1>3, <1>4, LeaveKeeps

LEMMA EndsKeeps ==
  ASSUME SessionInv, Orderly, NEW p \in Procs, pc[p] \in RunLabels \cup RecoverLabels,
         NEW stage \in Stages \ {"completed"}, NEW why \in Reasons, Ends(p, stage, why)
  PROVE  /\ SessionInv' /\ Went(p, "idle") /\ Holds(p) /\ mem'[p] = NoMem
         /\ Touched(mem[p].session, stage, why, sessions[mem[p].session].manifest,
                    sessions[mem[p].session].approved)
         /\ manifests' = manifests /\ lock' = lock
<1> DEFINE s == mem[p].session
<1>1. /\ Leave(p) /\ manifests' = manifests /\ lock' = lock
      /\ contract' = contract /\ runs' = runs /\ deaths' = deaths
      /\ UpdateSession(s, stage, why)
  BY DEF Ends, counts
<1>2. s \in DOMAIN sessions /\ sessions \in Seq(SessionRecords)
  BY Place
<1>3. Touched(s, stage, why, sessions[s].manifest, sessions[s].approved)
  BY <1>1, <1>2, UpdateTouches
<1>4. ManifestsKept(p)
  BY <1>1, ManifestsSame
<1>5. sessions[s].manifest \in 0..Len(manifests) /\ sessions[s].approved \in 0..Len(manifests)
  BY <1>2, Numbers
<1>6. SessionsKept
  BY <1>2, <1>3, <1>4, <1>5, SessionsTouched
<1>7. lock' \in Locks /\ deaths' \in 0..MaxDeaths
  BY <1>1, Rest
<1> QED
  BY <1>1, <1>3, <1>4, <1>6, <1>7, LeaveKeeps

\* a step of p that changes neither its memory nor the number of runs
LEMMA StepKeeps ==
  ASSUME SessionInv, Orderly, NEW p \in Procs, NEW label \in Labels \ Early,
         GoTo(p, label), mem' = mem, SessionsKept, ManifestsKept(p),
         Len(manifests') = Len(manifests), runs' = runs, deaths' = deaths,
         lock' \in Locks, contract' \in BOOLEAN,
         Fits(p)', label \in Owning => pc[p] \in Owning
  PROVE  SessionInv' /\ Went(p, label)
<1>1. Went(p, label) /\ Holds(p)
  BY WentTo, HoldsSame
<1>2. Counted'
  BY <1>1, Counts DEF SessionInv, Early
<1>3. runs' \in 0..MaxRuns /\ deaths' \in 0..MaxDeaths
  BY Rest
<1>4. Owns(p)
  BY <1>1 DEF Owns, Went
<1>5. Known(mem[p].read)'
  BY Numbers DEF Known
<1>6. SessionInv'
  BY <1>1, <1>2, <1>3, <1>4, <1>5, CoreStep
<1> QED
  BY <1>1, <1>6

LEMMA BuildKeeps ==
  ASSUME SessionInv, Orderly, NEW p \in Procs, Build(p)
  PROVE  /\ SessionInv' /\ Went(p, "prepare") /\ Holds(p) /\ pc[p] = "idle"
         /\ mem'[p].session = Len(sessions) + 1 /\ mem'[p].manifest = mem[p].manifest
         /\ mem'[p].read = mem[p].read
         /\ sessions' = Append(sessions, NewSession) /\ NewSession \in SessionRecords
         /\ manifests' = manifests /\ lock' = lock
<1>1. /\ pc[p] = "idle" /\ runs < MaxRuns /\ runs' = runs + 1
      /\ Len(sessions) < MaxSessions /\ sessions' = Append(sessions, NewSession)
      /\ mem' = [mem EXCEPT ![p].session = Len(sessions) + 1]
      /\ GoTo(p, "prepare")
      /\ manifests' = manifests /\ lock' = lock /\ contract' = contract /\ deaths' = deaths
  BY DEF Build, At, Latest
<1>2. NewSession \in SessionRecords
  BY NewSessionTyped
<1>3. NewSession.stage = "ready_to_run" /\ NewSession.manifest = 0 /\ NewSession.approved = 0
  BY DEF NewSession
<1>4. /\ sessions' \in Seq(SessionRecords) /\ Len(sessions') = Len(sessions) + 1
      /\ sessions'[Len(sessions) + 1] = NewSession
      /\ \A s \in DOMAIN sessions : sessions'[s] = sessions[s]
  BY <1>1, <1>2, SeqAppend, Place
<1>5. ManifestsKept(p)
  BY <1>1, ManifestsSame
<1>6. SessionsKept
  <2>1. /\ Len(sessions) \in Nat /\ MaxSessions \in Nat /\ Len(manifests) \in Nat
        /\ DOMAIN sessions = 1..Len(sessions) /\ DOMAIN sessions' = 1..Len(sessions')
    BY <1>4, Place, SeqLen, SessionConstants
  <2>2. \A s \in DOMAIN sessions' : s \in DOMAIN sessions \/ s = Len(sessions) + 1
    BY <2>1, <1>4
  <2>3. Len(sessions') <= MaxSessions /\ Len(sessions) <= Len(sessions')
    BY <2>1, <1>1, <1>4
  <2> QED
    BY <2>1, <2>2, <2>3, <1>1, <1>3, <1>4, Numbers DEF SessionsKept
<1>7. Len(sessions) + 1 \in 0..Len(sessions')
  BY <1>4, Place
<1>9. Went(p, "prepare")
  BY <1>1, WentTo DEF Labels, RunLabels
<1>10. /\ Holds(p)
       /\ mem'[p].session = Len(sessions) + 1 /\ mem'[p].manifest = mem[p].manifest
       /\ mem'[p].read = mem[p].read /\ mem'[p].recover = mem[p].recover
  BY <1>1, <1>5, <1>6, <1>7, HoldsSession
<1>11. Fits(p)' /\ Known(mem[p].read)' /\ Owns(p)
  <2>1. Known(mem[p].read)'
    BY <1>1, <1>10, Numbers DEF Known
  <2>2. Len(sessions) + 1 >= 1
    BY Place
  <2>3. mem[p].recover # "no" => "recover" \in Commands
    BY DEF SessionInv, Fits
  <2> QED
    BY <2>1, <2>2, <2>3, <1>9, <1>10
    DEF Went, Fits, Owns, Owning, Undecided, Recovering, RunLabels, RecoverLabels
<1>12. Counted'
  BY <1>1, <1>9, Counts DEF SessionInv, Early
<1>13. /\ lock' \in Locks /\ contract' \in BOOLEAN /\ deaths' \in 0..MaxDeaths
       /\ runs' \in 0..MaxRuns
  BY <1>1, Rest, SessionConstants, Numbers
<1>14. SessionInv'
  BY <1>5, <1>6, <1>9, <1>10, <1>11, <1>12, <1>13, CoreStep
<1> QED
  BY <1>1, <1>2, <1>9, <1>10, <1>14

\* the run of p goes on before its decision, and keeps its manifest undecided
LEMMA RunKeeps ==
  ASSUME SessionInv, Orderly, NEW p \in Procs, pc[p] \in Undecided,
         NEW label \in Undecided, GoTo(p, label), mem' = mem,
         SessionsKept, ManifestsKept(p), Len(manifests') = Len(manifests),
         manifests'[mem[p].manifest].approval = manifests[mem[p].manifest].approval,
         label \in {"superseding", "resave"} => mem[p].read.manifest >= 1,
         runs' = runs, deaths' = deaths, lock' \in Locks, contract' \in BOOLEAN
  PROVE  SessionInv' /\ Went(p, label)
<1>1. label \in Labels \ Early
  BY DEF Labels, RunLabels, Undecided, Early
<1>2. Went(p, label)
  BY <1>1, WentTo
<1>3. Fits(p)'
  BY <1>2, Place DEF Went, Fits, Undecided, Owning, Recovering, RunLabels, RecoverLabels
<1>4. label \in Owning => pc[p] \in Owning
  BY DEF Owning
<1> QED
  BY <1>1, <1>3, <1>4, StepKeeps

LEMMA ContinueKeeps ==
  ASSUME SessionInv, Orderly, NEW p \in Procs, Continue(p)
  PROVE  /\ SessionInv' /\ Went(p, "reload") /\ Holds(p) /\ pc[p] = "idle"
         /\ mem'[p].session = Len(sessions) /\ mem'[p].read = mem[p].read
         /\ sessions' = sessions /\ manifests' = manifests /\ lock' = lock
<1>1. /\ pc[p] = "idle" /\ runs < MaxRuns /\ runs' = runs + 1 /\ Len(sessions) > 0
      /\ mem' = [mem EXCEPT ![p].session = Len(sessions)]
      /\ GoTo(p, "reload")
      /\ sessions' = sessions /\ manifests' = manifests
      /\ lock' = lock /\ contract' = contract /\ deaths' = deaths
  BY DEF Continue, At, Latest, stored
<1>2. Len(sessions) \in 0..Len(sessions')
  BY <1>1, Place
<1>3. ManifestsKept(p)
  BY <1>1, ManifestsSame
<1>4. SessionsKept
  BY <1>1, <1>3, SessionsSame
<1>5. /\ Holds(p)
      /\ mem'[p].session = Len(sessions) /\ mem'[p].manifest = mem[p].manifest
      /\ mem'[p].read = mem[p].read /\ mem'[p].recover = mem[p].recover
  BY <1>1, <1>2, <1>3, <1>4, HoldsSession
<1>6. Went(p, "reload")
  BY <1>1, WentTo DEF Labels, RunLabels
<1>7. Fits(p)' /\ Known(mem[p].read)' /\ Owns(p)
  <2>1. Known(mem[p].read)'
    BY <1>1, <1>5, Numbers DEF Known
  <2>2. Len(sessions) >= 1
    BY <1>1, Place
  <2>3. mem[p].recover # "no" => "recover" \in Commands
    BY DEF SessionInv, Fits
  <2> QED
    BY <2>1, <2>2, <2>3, <1>5, <1>6
    DEF Went, Fits, Owns, Owning, Undecided, Recovering, RunLabels, RecoverLabels
<1>8. Counted'
  BY <1>1, <1>6, Counts DEF SessionInv, Early
<1>9. /\ lock' \in Locks /\ contract' \in BOOLEAN /\ deaths' \in 0..MaxDeaths
      /\ runs' \in 0..MaxRuns
  BY <1>1, Rest, SessionConstants, Numbers
<1>10. SessionInv'
  BY <1>3, <1>4, <1>5, <1>6, <1>7, <1>8, <1>9, CoreStep
<1> QED
  BY <1>1, <1>5, <1>6, <1>10

LEMMA ReloadKeeps ==
  ASSUME SessionInv, Orderly, NEW p \in Procs, Reload(p)
  PROVE  /\ SessionInv' /\ Went(p, "prepare") /\ Holds(p) /\ pc[p] = "reload"
         /\ mem[p].session \in DOMAIN sessions
         /\ mem'[p].session = mem[p].session /\ mem'[p].read = sessions[mem[p].session]
         /\ sessions' = sessions /\ manifests' = manifests /\ lock' = lock
<1> DEFINE s == mem[p].session
<1>1. /\ pc[p] = "reload" /\ runs' = runs
      /\ mem' = [mem EXCEPT ![p].read = sessions[s]]
      /\ GoTo(p, "prepare")
      /\ sessions' = sessions /\ manifests' = manifests
      /\ lock' = lock /\ contract' = contract /\ deaths' = deaths
  BY DEF Reload, At, stored, counts
<1>2. s \in DOMAIN sessions /\ s \in 0..Len(sessions')
  BY <1>1, Place DEF RunLabels
<1>3. ManifestsKept(p)
  BY <1>1, ManifestsSame
<1>4. SessionsKept
  BY <1>1, <1>3, SessionsSame
<1>5. sessions[s] \in SessionRecords
  BY <1>2, Numbers
<1>6. /\ Holds(p)
      /\ mem'[p].session = s /\ mem'[p].manifest = mem[p].manifest
      /\ mem'[p].read = sessions[s] /\ mem'[p].recover = mem[p].recover
  BY <1>1, <1>3, <1>4, <1>5, HoldsReadOnly
<1>7. Went(p, "prepare")
  BY <1>1, WentTo DEF Labels, RunLabels
<1>8. Fits(p)' /\ Known(mem[p].read)' /\ Owns(p)
  <2>1. Known(mem[p].read)'
    BY <1>1, <1>2, <1>6, Numbers DEF Known
  <2>2. s >= 1
    BY <1>2, Place
  <2>3. mem[p].recover # "no" => "recover" \in Commands
    BY DEF SessionInv, Fits
  <2> QED
    BY <2>1, <2>2, <2>3, <1>6, <1>7
    DEF Went, Fits, Owns, Owning, Undecided, Recovering, RunLabels, RecoverLabels
<1>9. Counted'
  BY <1>1, <1>7, Counts DEF SessionInv, Early
<1>10. /\ lock' \in Locks /\ contract' \in BOOLEAN /\ deaths' \in 0..MaxDeaths
       /\ runs' \in 0..MaxRuns
  BY <1>1, Rest
<1>11. SessionInv'
  BY <1>3, <1>4, <1>6, <1>7, <1>8, <1>9, <1>10, CoreStep
<1> QED
  BY <1>1, <1>2, <1>6, <1>7, <1>11

LEMMA CreateManifestKeeps ==
  ASSUME SessionInv, Orderly, NEW p \in Procs, CreateManifest(p)
  PROVE  /\ SessionInv' /\ Went(p, "supersede") /\ Holds(p) /\ pc[p] = "prepare"
         /\ mem'[p].manifest = Len(manifests) + 1 /\ mem'[p].session = mem[p].session
         /\ mem'[p].read = mem[p].read
         /\ manifests' \in Seq(ManifestRecords) /\ Len(manifests') = Len(manifests) + 1
         /\ manifests'[Len(manifests) + 1].state = "queued"
         /\ \A m \in DOMAIN manifests : manifests'[m] = manifests[m]
         /\ sessions' = sessions /\ lock' = lock
<1> DEFINE new == [state |-> "queued", approval |-> "none"]
<1>1. /\ pc[p] = "prepare" /\ manifests' = Append(manifests, new)
      /\ mem' = [mem EXCEPT ![p].manifest = Len(manifests) + 1]
      /\ GoTo(p, "supersede")
      /\ sessions' = sessions /\ lock' = lock /\ contract' = contract
      /\ runs' = runs /\ deaths' = deaths
  BY DEF CreateManifest, At, counts
<1>3. new \in ManifestRecords
  BY DEF ManifestRecords, ManifestStates
<1>4. new.state = "queued" /\ new.approval = "none"
  OBVIOUS
<1> HIDE DEF new
<1>5. /\ manifests' \in Seq(ManifestRecords) /\ Len(manifests') = Len(manifests) + 1
      /\ manifests'[Len(manifests) + 1] = new
      /\ \A m \in DOMAIN manifests : manifests'[m] = manifests[m]
  BY <1>1, <1>3, SeqAppend, Place
<1>6. ManifestsKept(p)
  BY <1>5, Place DEF ManifestsKept
<1>7. SessionsKept
  BY <1>1, <1>6, SessionsSame
<1>8. Len(manifests) + 1 \in 0..Len(manifests') /\ Len(manifests) + 1 >= 1
  BY <1>5, Place
<1>9. /\ Holds(p)
      /\ mem'[p].manifest = Len(manifests) + 1 /\ mem'[p].session = mem[p].session
      /\ mem'[p].read = mem[p].read /\ mem'[p].recover = mem[p].recover
  BY <1>1, <1>6, <1>7, <1>8, HoldsManifest
<1>10. Went(p, "supersede")
  BY <1>1, WentTo DEF Labels, RunLabels
<1>11. Fits(p)' /\ Known(mem[p].read)' /\ Owns(p)
  <2>1. Known(mem[p].read)'
    <3>1. /\ mem[p].read.manifest \in 0..Len(manifests)
          /\ mem[p].read.approved \in 0..Len(manifests)
      BY Numbers
    <3> QED
      BY <3>1, <1>5, <1>9, Place DEF Known
  <2>2. mem[p].session >= 1 /\ (mem[p].recover # "no" => "recover" \in Commands)
    BY <1>1 DEF SessionInv, Fits, RunLabels
  <2>3. manifests'[mem'[p].manifest].approval = "none"
    BY <1>4, <1>5, <1>9
  <2>4. Owns(p)
    BY <1>9, Place DEF Owns
  <2> QED
    BY <2>1, <2>2, <2>3, <2>4, <1>8, <1>9, <1>10
    DEF Went, Fits, Owning, Undecided, Recovering, RunLabels, RecoverLabels
<1>12. Counted'
  BY <1>1, <1>5, <1>10, Counts DEF SessionInv, Early
<1>13. /\ lock' \in Locks /\ contract' \in BOOLEAN /\ deaths' \in 0..MaxDeaths
       /\ runs' \in 0..MaxRuns
  BY <1>1, Rest
<1>14. SessionInv'
  BY <1>6, <1>7, <1>9, <1>10, <1>11, <1>12, <1>13, CoreStep
<1> QED
  BY <1>1, <1>4, <1>5, <1>9, <1>10, <1>14

LEMMA SupersedeKeeps ==
  ASSUME SessionInv, Orderly, NEW p \in Procs, Supersede(p)
  PROVE  /\ SessionInv' /\ mem' = mem /\ pc[p] = "supersede"
         /\ \/ Went(p, "contract")
            \/ /\ Went(p, "superseding") /\ Interrupted(mem[p].read)
               /\ manifests[mem[p].read.manifest].state # "merged"
         /\ sessions' = sessions /\ manifests' = manifests /\ lock' = lock
<1>1. /\ pc[p] = "supersede" /\ sessions' = sessions /\ manifests' = manifests
      /\ lock' = lock /\ mem' = mem /\ contract' = contract
      /\ runs' = runs /\ deaths' = deaths
  BY DEF Supersede, At, stored, counts
<1>2. \/ GoTo(p, "contract")
      \/ /\ GoTo(p, "superseding") /\ Interrupted(mem[p].read)
         /\ manifests[mem[p].read.manifest].state # "merged"
  BY DEF Supersede
<1>3. ManifestsKept(p)
  BY <1>1, ManifestsSame
<1>4. SessionsKept
  BY <1>1, <1>3, SessionsSame
<1>5. lock' \in Locks /\ contract' \in BOOLEAN
  BY <1>1, Rest
<1>6. Interrupted(mem[p].read) => mem[p].read.manifest >= 1
  BY Numbers DEF Interrupted
<1>7. ASSUME NEW label \in {"contract", "superseding"}, GoTo(p, label),
             label = "superseding" => Interrupted(mem[p].read)
      PROVE  SessionInv' /\ Went(p, label)
  BY <1>1, <1>3, <1>4, <1>5, <1>6, <1>7, RunKeeps DEF Undecided
<1> QED
  BY <1>1, <1>2, <1>7

LEMMA SupersedeWritesKeeps ==
  ASSUME SessionInv, Orderly, NEW p \in Procs, SupersedeRow(p) \/ SupersedeManifest(p)
  PROVE  /\ SessionInv' /\ mem' = mem
         /\ \/ pc[p] = "superseding" /\ Went(p, "resave")
            \/ pc[p] = "resave" /\ Went(p, "contract")
         /\ mem[p].read.manifest \in DOMAIN manifests
         /\ Changed(mem[p].read.manifest, "rejected",
                    manifests[mem[p].read.manifest].approval)
         /\ sessions' = sessions /\ lock' = lock
<1> DEFINE m == mem[p].read.manifest
<1>1. /\ SetState(m, "rejected") /\ sessions' = sessions
      /\ lock' = lock /\ mem' = mem /\ contract' = contract
      /\ runs' = runs /\ deaths' = deaths
      /\ \/ pc[p] = "superseding" /\ GoTo(p, "resave")
         \/ pc[p] = "resave" /\ GoTo(p, "contract")
  BY DEF SupersedeRow, SupersedeManifest, Step, At, counts
<1>2. m \in DOMAIN manifests /\ m >= 1 /\ pc[p] \in Undecided /\ pc[p] \in Owning
  BY <1>1, Numbers, Place DEF Fits, Undecided, Owning
<1>3. Changed(m, "rejected", manifests[m].approval)
  BY <1>1, <1>2, StateChanges, Place DEF ManifestStates
<1>4. ManifestsKept(p)
  BY <1>3, ManifestsChanged
<1>5. /\ Len(manifests') = Len(manifests)
      /\ manifests'[mem[p].manifest].approval = manifests[mem[p].manifest].approval
  BY <1>2, <1>3, Place DEF Changed
<1>6. SessionsKept
  BY <1>1, <1>4, SessionsSame
<1>7. lock' \in Locks /\ contract' \in BOOLEAN
  BY <1>1, Rest
<1>8. ASSUME NEW label \in {"resave", "contract"}, GoTo(p, label)
      PROVE  SessionInv' /\ Went(p, label)
  BY <1>1, <1>2, <1>4, <1>5, <1>6, <1>7, <1>8, RunKeeps DEF Undecided
<1> QED
  BY <1>1, <1>2, <1>3, <1>8

\* a step of a run that leaves sessions and manifests alone
LEMMA FileStepKeeps ==
  ASSUME SessionInv, Orderly, NEW p \in Procs, pc[p] \in Undecided,
         NEW label \in Undecided \ {"superseding", "resave"}, GoTo(p, label),
         mem' = mem, sessions' = sessions, manifests' = manifests,
         runs' = runs, deaths' = deaths, lock' \in Locks, contract' \in BOOLEAN
  PROVE  SessionInv' /\ Went(p, label)
<1>1. ManifestsKept(p)
  BY ManifestsSame
<1>2. SessionsKept
  BY <1>1, SessionsSame
<1> QED
  BY <1>1, <1>2, RunKeeps

LEMMA WriteContractKeeps ==
  ASSUME SessionInv, Orderly, NEW p \in Procs, WriteContract(p)
  PROVE  /\ SessionInv' /\ Went(p, "mark") /\ mem' = mem /\ pc[p] = "contract"
         /\ sessions' = sessions /\ manifests' = manifests /\ lock' = lock
<1>1. /\ pc[p] = "contract" /\ contract' = TRUE /\ GoTo(p, "mark")
      /\ sessions' = sessions /\ manifests' = manifests /\ lock' = lock /\ mem' = mem
      /\ runs' = runs /\ deaths' = deaths
  BY DEF WriteContract, At, counts
<1>2. contract' \in BOOLEAN
  BY <1>1
<1>3. lock' \in Locks
  BY <1>1, Rest
<1>4. pc[p] \in Undecided /\ "mark" \in Undecided \ {"superseding", "resave"}
  BY <1>1 DEF Undecided
<1>5. SessionInv' /\ Went(p, "mark")
  BY <1>1, <1>2, <1>3, <1>4, FileStepKeeps
<1> QED
  BY <1>1, <1>5

LEMMA MarkRunningKeeps ==
  ASSUME SessionInv, Orderly, NEW p \in Procs, MarkRunning(p)
  PROVE  /\ SessionInv' /\ Went(p, "launch") /\ mem' = mem /\ pc[p] = "mark"
         /\ Touched(mem[p].session, "running", "execution_started", mem[p].manifest,
                    sessions[mem[p].session].approved)
         /\ ~sessions'[mem[p].session].interrupted
         /\ manifests' = manifests /\ lock' = lock
<1> DEFINE s == mem[p].session
           r == sessions[s]
           stage == "running"
           why == "execution_started"
           manifest == mem[p].manifest
           no == FALSE
           int == FALSE
<1>1. /\ pc[p] = "mark" /\ GoTo(p, "launch")
      /\ manifests' = manifests /\ lock' = lock /\ mem' = mem /\ contract' = contract
      /\ runs' = runs /\ deaths' = deaths
      /\ sessions' = [sessions EXCEPT ![s] =
           [r EXCEPT !.stage = stage, !.old = no, !.why = why, !.interrupted = int,
                     !.manifest = manifest]]
  BY DEF MarkRunning, Step, At, counts
<1>2. /\ s \in DOMAIN sessions /\ manifest \in DOMAIN manifests
      /\ sessions \in Seq(SessionRecords)
  BY <1>1, Place DEF RunLabels, Owning, Undecided
<1>3. /\ r \in SessionRecords /\ r.approved \in 0..Len(manifests)
      /\ manifest \in 0..Len(manifests) /\ manifest \in 0..MaxRuns /\ r.approved \in 0..MaxRuns
  BY <1>2, Numbers, Place, SessionConstants
<1>4. stage \in Stages /\ why \in Reasons /\ int \in BOOLEAN
  <2>1. int \in BOOLEAN
    BY Zenon
  <2> QED
    BY <2>1 DEF Stages, Reasons
<1> HIDE DEF r, stage, why, manifest, no, int
<1>5. [r EXCEPT !.stage = stage, !.old = no, !.why = why, !.interrupted = int, !.manifest = manifest] =
        [stage |-> stage, why |-> why, manifest |-> manifest,
         approved |-> r.approved, interrupted |-> int, old |-> no]
  <2> DEFINE kst == r.stage kwh == r.why kma == r.manifest
             kap == r.approved kint == r.interrupted kol == r.old
             one == [r EXCEPT !.stage = stage]
             two == [one EXCEPT !.old = no]
             three == [two EXCEPT !.why = why]
             four == [three EXCEPT !.interrupted = int]
  <2>1. r = [stage |-> kst, why |-> kwh, manifest |-> kma,
             approved |-> kap, interrupted |-> kint, old |-> kol]
    BY <1>3, SessionFields
  <2> HIDE DEF kst, kwh, kma, kap, kint, kol
  <2>2. one = [stage |-> stage, why |-> kwh, manifest |-> kma,
               approved |-> kap, interrupted |-> kint, old |-> kol]
    BY <2>1
  <2> HIDE DEF one
  <2>3. two = [stage |-> stage, why |-> kwh, manifest |-> kma,
               approved |-> kap, interrupted |-> kint, old |-> no]
    BY <2>2
  <2> HIDE DEF two
  <2>4. three = [stage |-> stage, why |-> why, manifest |-> kma,
                 approved |-> kap, interrupted |-> kint, old |-> no]
    BY <2>3
  <2> HIDE DEF three
  <2>5. four = [stage |-> stage, why |-> why, manifest |-> kma,
                approved |-> kap, interrupted |-> int, old |-> no]
    BY <2>4
  <2> HIDE DEF four
  <2>6. [four EXCEPT !.manifest = manifest] =
         [stage |-> stage, why |-> why, manifest |-> manifest,
          approved |-> kap, interrupted |-> int, old |-> no]
    BY <2>5
  <2> QED
    BY <2>6, Zenon DEF one, two, three, four, kap
<1>6. Touched(s, stage, why, manifest, r.approved) /\ sessions'[s].interrupted = int
  <2>1. sessions' = [sessions EXCEPT ![s] =
          [stage |-> stage, why |-> why, manifest |-> manifest,
           approved |-> r.approved, interrupted |-> int, old |-> no]]
    BY <1>1, <1>5, Zenon
  <2> QED
    BY <2>1, <1>2, <1>3, <1>4, TouchSession DEF no
<1>7. ManifestsKept(p)
  BY <1>1, ManifestsSame
<1>8. SessionsKept
  BY <1>2, <1>3, <1>6, <1>7, SessionsTouched DEF stage
<1>9. lock' \in Locks /\ contract' \in BOOLEAN
  BY <1>1, Rest
<1>10. SessionInv' /\ Went(p, "launch")
  BY <1>1, <1>7, <1>8, <1>9, RunKeeps DEF Undecided
<1> QED
  BY <1>1, <1>6, <1>10 DEF r, stage, why, manifest, int

LEMMA LaunchKeeps ==
  ASSUME SessionInv, Orderly, NEW p \in Procs, Launch(p)
  PROVE  /\ SessionInv' /\ Went(p, "scan") /\ mem' = mem /\ pc[p] = "launch"
         /\ Changed(mem[p].manifest, "in_flight", manifests[mem[p].manifest].approval)
         /\ sessions' = sessions /\ lock' = lock
<1>1. /\ pc[p] = "launch" /\ GoTo(p, "scan")
      /\ sessions' = sessions /\ lock' = lock /\ mem' = mem /\ contract' = contract
      /\ runs' = runs /\ deaths' = deaths /\ SetState(mem[p].manifest, "in_flight")
  BY DEF Launch, Step, At, counts
<1>2. mem[p].manifest \in DOMAIN manifests
  BY <1>1, Place DEF Owning, Undecided
<1>3. Changed(mem[p].manifest, "in_flight", manifests[mem[p].manifest].approval)
  BY <1>1, <1>2, StateChanges, Place DEF ManifestStates
<1>4. ManifestsKept(p)
  BY <1>3, ManifestsChanged
<1>5. SessionsKept
  BY <1>1, <1>4, SessionsSame
<1>6. lock' \in Locks /\ contract' \in BOOLEAN
  BY <1>1, Rest
<1>7. SessionInv' /\ Went(p, "scan")
  BY <1>1, <1>3, <1>4, <1>5, <1>6, RunKeeps DEF Undecided, Changed
<1> QED
  BY <1>1, <1>3, <1>7

LEMMA UnreadableTyped ==
  ASSUME NEW text \in {"absent", "empty", "broken", "whole"}, NEW writers \in SUBSET Procs
  PROVE  Unreadable(text, writers) \in Locks
<1>1. 0 \in 0..MaxSessions /\ 0 \in 0..MaxRuns
  BY SessionConstants
<1>2. FALSE \in BOOLEAN
  OBVIOUS
<1> QED
  BY <1>1, <1>2, Zenon DEF Unreadable, Locks

\* what the run does with the lock file
LockStep(p) ==
  \/ OpenLock(p) \/ WriteLock(p) \/ RuntimeEnds(p) \/ FindLock(p) \/ ReadLock(p) \/ Unlink(p)

LEMMA LockTyped == ASSUME SessionInv, NEW p \in Procs, LockStep(p) PROVE lock' \in Locks
<1>1. lock \in Locks /\ lock.writers \in SUBSET Procs
  BY Zenon DEF SessionInv, Typed, Locks
<1>2. CASE OpenLock(p)
  <2>1. lock' = Unreadable("empty", lock.writers \cup {p})
    BY <1>2 DEF OpenLock
  <2>2. lock.writers \cup {p} \in SUBSET Procs
    BY <1>1
  <2> QED
    BY <2>1, <2>2, UnreadableTyped
<1>3. CASE WriteLock(p)
  <2> DEFINE yes == TRUE
             others == lock.writers \ {p}
             own == [text |-> "whole", session |-> mem[p].session,
                     manifest |-> mem[p].manifest, alive |-> yes, writers |-> others]
  <2>1. lock' = lock \/ lock' = own \/ lock' = Unreadable("broken", others)
    BY <1>3 DEF WriteLock, Written
  <2>2. yes \in BOOLEAN
    OBVIOUS
  <2>3. others \in SUBSET Procs
    BY <1>1
  <2>4. mem[p].session \in 0..MaxSessions /\ mem[p].manifest \in 0..MaxRuns
    BY Place, Numbers, SessionConstants
  <2> HIDE DEF yes, others
  <2>5. own \in Locks
    BY <2>2, <2>3, <2>4, Zenon DEF Locks
  <2> QED
    BY <1>1, <2>1, <2>3, <2>5, UnreadableTyped
<1>4. CASE Unlink(p)
  BY <1>4, UnreadableTyped DEF Unlink, NoLock
<1>5. CASE RuntimeEnds(p) \/ FindLock(p) \/ ReadLock(p)
  BY <1>1, <1>5 DEF RuntimeEnds, FindLock, ReadLock, Step
<1> QED
  BY <1>2, <1>3, <1>4, <1>5 DEF LockStep

LEMMA LockStepKeeps ==
  ASSUME SessionInv, Orderly, NEW p \in Procs, LockStep(p)
  PROVE  /\ SessionInv' /\ mem' = mem
         /\ pc[p] \in {"scan", "write_lock", "runtime", "find_lock", "read_lock", "unlink"}
         /\ \E label \in {"write_lock", "runtime", "find_lock", "read_lock", "unlink",
                          "verify"} : Went(p, label)
         /\ sessions' = sessions /\ manifests' = manifests
<1>1. /\ sessions' = sessions /\ manifests' = manifests /\ mem' = mem
      /\ contract' = contract /\ runs' = runs /\ deaths' = deaths
      /\ pc[p] \in {"scan", "write_lock", "runtime", "find_lock", "read_lock", "unlink"}
      /\ \E label \in {"write_lock", "runtime", "find_lock", "read_lock", "unlink",
                       "verify"} : GoTo(p, label)
  BY DEF LockStep, OpenLock, WriteLock, RuntimeEnds, FindLock, ReadLock, Unlink, Step, At,
         counts
<1>2. PICK label \in {"write_lock", "runtime", "find_lock", "read_lock", "unlink",
                      "verify"} : GoTo(p, label)
  BY <1>1
<1>3. label \in Undecided \ {"superseding", "resave"} /\ pc[p] \in Undecided
  BY <1>1 DEF Undecided
<1>4. lock' \in Locks /\ contract' \in BOOLEAN
  BY <1>1, LockTyped, Rest
<1>5. SessionInv' /\ Went(p, label)
  BY <1>1, <1>2, <1>3, <1>4, FileStepKeeps
<1> QED
  BY <1>1, <1>5

LEMMA EvidenceReadyKeeps ==
  ASSUME SessionInv, Orderly, NEW p \in Procs, EvidenceReady(p)
  PROVE  /\ SessionInv' /\ Went(p, "submit") /\ mem' = mem /\ pc[p] = "verify"
         /\ Touched(mem[p].session, "awaiting_review", "evidence_ready",
                    sessions[mem[p].session].manifest, sessions[mem[p].session].approved)
         /\ manifests' = manifests /\ lock' = lock
<1> DEFINE s == mem[p].session
           r == sessions[s]
           stage == "awaiting_review"
           why == "evidence_ready"
           no == FALSE
<1>1. /\ pc[p] = "verify" /\ GoTo(p, "submit")
      /\ manifests' = manifests /\ lock' = lock /\ mem' = mem /\ contract' = contract
      /\ runs' = runs /\ deaths' = deaths
      /\ sessions' = [sessions EXCEPT ![s] =
           [r EXCEPT !.stage = stage, !.old = no, !.why = why]]
  BY DEF EvidenceReady, Step, At, counts
<1>2. s \in DOMAIN sessions /\ sessions \in Seq(SessionRecords)
  BY <1>1, Place DEF RunLabels
<1>3. /\ r \in SessionRecords /\ r.manifest \in 0..Len(manifests)
      /\ r.approved \in 0..Len(manifests)
  BY <1>2, Numbers
<1>4. stage \in Stages /\ why \in Reasons
  BY DEF Stages, Reasons
<1> HIDE DEF r, stage, why, no
<1>5. [r EXCEPT !.stage = stage, !.old = no, !.why = why] =
        [stage |-> stage, why |-> why, manifest |-> r.manifest,
         approved |-> r.approved, interrupted |-> r.interrupted, old |-> no]
  <2> DEFINE kst == r.stage kwh == r.why kma == r.manifest
             kap == r.approved kint == r.interrupted kol == r.old
             one == [r EXCEPT !.stage = stage]
             two == [one EXCEPT !.old = no]
  <2>1. r = [stage |-> kst, why |-> kwh, manifest |-> kma,
             approved |-> kap, interrupted |-> kint, old |-> kol]
    BY <1>3, SessionFields
  <2> HIDE DEF kst, kwh, kma, kap, kint, kol
  <2>2. one = [stage |-> stage, why |-> kwh, manifest |-> kma,
               approved |-> kap, interrupted |-> kint, old |-> kol]
    BY <2>1
  <2> HIDE DEF one
  <2>3. two = [stage |-> stage, why |-> kwh, manifest |-> kma,
               approved |-> kap, interrupted |-> kint, old |-> no]
    BY <2>2
  <2> HIDE DEF two
  <2>4. [two EXCEPT !.why = why] =
         [stage |-> stage, why |-> why, manifest |-> kma,
          approved |-> kap, interrupted |-> kint, old |-> no]
    BY <2>3
  <2> QED
    BY <2>4, Zenon DEF one, two, kma, kap, kint
<1>6. Touched(s, stage, why, r.manifest, r.approved)
  <2>1. sessions' = [sessions EXCEPT ![s] =
          [stage |-> stage, why |-> why, manifest |-> r.manifest,
           approved |-> r.approved, interrupted |-> r.interrupted, old |-> no]]
    BY <1>1, <1>5, Zenon
  <2>2. /\ r.manifest \in 0..MaxRuns /\ r.approved \in 0..MaxRuns
        /\ r.interrupted \in BOOLEAN
    BY <1>3, SessionFields
  <2> QED
    BY <2>1, <2>2, <1>2, <1>4, TouchSession DEF no
<1>7. ManifestsKept(p)
  BY <1>1, ManifestsSame
<1>8. SessionsKept
  BY <1>2, <1>3, <1>6, <1>7, SessionsTouched DEF stage
<1>9. lock' \in Locks /\ contract' \in BOOLEAN
  BY <1>1, Rest
<1>10. SessionInv' /\ Went(p, "submit")
  BY <1>1, <1>7, <1>8, <1>9, RunKeeps DEF Undecided
<1> QED
  BY <1>1, <1>6, <1>10 DEF r, stage, why

LEMMA SubmitKeeps ==
  ASSUME SessionInv, Orderly, NEW p \in Procs, Submit(p)
  PROVE  /\ SessionInv' /\ Went(p, "decide") /\ mem' = mem /\ pc[p] = "submit"
         /\ Changed(mem[p].manifest, "under_review", manifests[mem[p].manifest].approval)
         /\ sessions' = sessions /\ lock' = lock
<1>1. /\ pc[p] = "submit" /\ GoTo(p, "decide")
      /\ sessions' = sessions /\ lock' = lock /\ mem' = mem /\ contract' = contract
      /\ runs' = runs /\ deaths' = deaths /\ SetState(mem[p].manifest, "under_review")
  BY DEF Submit, Step, At, counts
<1>2. mem[p].manifest \in DOMAIN manifests
  BY <1>1, Place DEF Owning, Undecided
<1>3. Changed(mem[p].manifest, "under_review", manifests[mem[p].manifest].approval)
  BY <1>1, <1>2, StateChanges, Place DEF ManifestStates
<1>4. ManifestsKept(p)
  BY <1>3, ManifestsChanged
<1>5. SessionsKept
  BY <1>1, <1>4, SessionsSame
<1>6. lock' \in Locks /\ contract' \in BOOLEAN
  BY <1>1, Rest
<1>7. SessionInv' /\ Went(p, "decide")
  BY <1>1, <1>3, <1>4, <1>5, <1>6, RunKeeps DEF Undecided, Changed
<1> QED
  BY <1>1, <1>3, <1>7

LEMMA DecideKeeps ==
  ASSUME SessionInv, Orderly, NEW p \in Procs, NEW choice \in {"approve", "reject"},
         Decide(p, choice)
  PROVE  /\ SessionInv' /\ mem' = mem /\ pc[p] = "decide"
         /\ Went(p, IF choice = "approve" THEN "merging" ELSE "rejecting")
         /\ Changed(mem[p].manifest, manifests[mem[p].manifest].state, choice)
         /\ sessions' = sessions /\ lock' = lock
<1> DEFINE label == IF choice = "approve" THEN "merging" ELSE "rejecting"
<1>1. /\ pc[p] = "decide" /\ GoTo(p, label)
      /\ sessions' = sessions /\ lock' = lock /\ mem' = mem /\ contract' = contract
      /\ runs' = runs /\ deaths' = deaths
      /\ manifests' = [manifests EXCEPT ![mem[p].manifest].approval = choice]
  BY DEF Decide, Step, At, counts
<1>2. mem[p].manifest \in DOMAIN manifests
  BY <1>1, Place DEF Owning, Undecided
<1>3. Changed(mem[p].manifest, manifests[mem[p].manifest].state, choice)
  BY <1>1, <1>2, ApprovalChanges, Place
<1>4. ManifestsKept(p)
  BY <1>1, <1>3, ManifestsChanged
<1>5. SessionsKept
  BY <1>1, <1>4, SessionsSame
<1>6. lock' \in Locks /\ contract' \in BOOLEAN
  BY <1>1, Rest
<1>7. /\ label \in Labels \ Early /\ label \in {"merging", "rejecting"}
      /\ label = "merging" => choice = "approve"
  BY DEF Labels, RunLabels, Early
<1> HIDE DEF label
<1>8. Went(p, label)
  BY <1>1, <1>7, WentTo
<1>9. Fits(p)'
  <2>1. mem[p].session >= 1 /\ mem[p].manifest >= 1 /\ Fits(p)
    BY <1>1, <1>2, Place DEF RunLabels
  <2>2. manifests'[mem[p].manifest].approval = choice
    BY <1>3 DEF Changed
  <2> QED
    BY <2>1, <2>2, <1>1, <1>7, <1>8
    DEF Went, Fits, Approved, Undecided, Owning, Recovering, RunLabels, RecoverLabels
<1>10. SessionInv'
  BY <1>1, <1>3, <1>4, <1>5, <1>6, <1>7, <1>9, StepKeeps DEF Changed, Owning, Undecided
<1> QED
  BY <1>1, <1>3, <1>8, <1>10 DEF label

LEMMA ConcludesKeeps ==
  ASSUME SessionInv, Orderly, NEW p \in Procs, NEW from \in {"merging", "rejecting"},
         NEW state \in ManifestStates,
         NEW outcome \in {"approval_recorded", "merge_blocked", "approval_rejected"},
         outcome = "approval_recorded" => from = "merging",
         Concludes(p, from, state, outcome)
  PROVE  /\ SessionInv' /\ Went(p, "close") /\ Holds(p) /\ pc[p] = from
         /\ mem'[p].session = mem[p].session /\ mem'[p].manifest = mem[p].manifest
         /\ mem'[p].read = mem[p].read
         /\ Changed(mem[p].manifest, state, manifests[mem[p].manifest].approval)
         /\ sessions' = sessions /\ lock' = lock
<1>1. /\ pc[p] = from /\ SetState(mem[p].manifest, state)
      /\ mem' = [mem EXCEPT ![p].outcome = outcome] /\ GoTo(p, "close")
      /\ sessions' = sessions /\ lock' = lock /\ contract' = contract
      /\ runs' = runs /\ deaths' = deaths
  BY DEF Concludes, At, counts
<1>2. mem[p].manifest \in DOMAIN manifests /\ pc[p] \in Owning
  BY <1>1, Place DEF Owning
<1>3. Changed(mem[p].manifest, state, manifests[mem[p].manifest].approval)
  BY <1>1, <1>2, StateChanges, Place
<1>4. ManifestsKept(p)
  BY <1>3, ManifestsChanged
<1>5. SessionsKept
  BY <1>1, <1>4, SessionsSame
<1>6. /\ Holds(p) /\ mem'[p].session = mem[p].session
      /\ mem'[p].manifest = mem[p].manifest /\ mem'[p].read = mem[p].read
      /\ mem'[p].recover = mem[p].recover /\ mem'[p].outcome = outcome
  BY <1>1, <1>4, <1>5, HoldsOutcome
<1>7. Went(p, "close")
  BY <1>1, WentTo DEF Labels, RunLabels
<1>8. Fits(p)' /\ Known(mem[p].read)' /\ Owns(p)
  <2>1. Known(mem[p].read)'
    BY <1>3, <1>6, Numbers DEF Known, Changed
  <2>2. Owns(p)
    BY <1>2, <1>6 DEF Owns
  <2>3. mem[p].session >= 1 /\ mem[p].manifest >= 1 /\ Fits(p)
    BY <1>1, <1>2, Place DEF RunLabels
  <2>4. outcome = "approval_recorded" => manifests'[mem[p].manifest].approval = "approve"
    BY <2>3, <1>1, <1>3 DEF Fits, Approved, Changed
  <2> QED
    BY <2>1, <2>2, <2>3, <2>4, <1>6, <1>7
    DEF Went, Fits, Approved, Owning, Undecided, Recovering, RunLabels, RecoverLabels
<1>9. Counted'
  BY <1>1, <1>3, <1>7, Counts DEF SessionInv, Early, Changed
<1>10. /\ lock' \in Locks /\ contract' \in BOOLEAN /\ deaths' \in 0..MaxDeaths
       /\ runs' \in 0..MaxRuns
  BY <1>1, Rest
<1>11. SessionInv'
  BY <1>4, <1>5, <1>6, <1>7, <1>8, <1>9, <1>10, CoreStep
<1> QED
  BY <1>1, <1>3, <1>6, <1>7, <1>11

LEMMA CloseKeeps ==
  ASSUME SessionInv, Orderly, NEW p \in Procs, Close(p)
  PROVE  /\ SessionInv' /\ Went(p, "idle") /\ Holds(p) /\ mem'[p] = NoMem /\ pc[p] = "close"
         /\ \E stage \in {"completed", "blocked"} :
              Touched(mem[p].session, stage, mem[p].outcome,
                      sessions[mem[p].session].manifest, mem[p].manifest)
         /\ manifests' = manifests /\ lock' = lock
<1> DEFINE s == mem[p].session
           r == sessions[s]
           stage == IF mem[p].outcome = "approval_recorded" THEN "completed" ELSE "blocked"
           why == mem[p].outcome
           approved == mem[p].manifest
           no == FALSE
           int == FALSE
<1>1. /\ pc[p] = "close" /\ Leave(p)
      /\ manifests' = manifests /\ lock' = lock /\ contract' = contract
      /\ runs' = runs /\ deaths' = deaths
      /\ sessions' = [sessions EXCEPT ![s] =
           [r EXCEPT !.stage = stage, !.why = why, !.approved = approved, !.old = no,
                     !.interrupted = int]]
  BY DEF Close, At, counts
<1>2. /\ s \in DOMAIN sessions /\ approved \in DOMAIN manifests
      /\ sessions \in Seq(SessionRecords)
  BY <1>1, Place DEF RunLabels, Owning
<1>3. /\ r \in SessionRecords /\ r.manifest \in 0..Len(manifests)
      /\ approved \in 0..Len(manifests) /\ approved \in 0..MaxRuns /\ r.manifest \in 0..MaxRuns
  BY <1>2, Numbers, Place, SessionConstants
<1>4. /\ stage \in Stages /\ stage \in {"completed", "blocked"}
      /\ stage = "completed" => approved >= 1 /\ manifests'[approved].approval = "approve"
  BY <1>1, Place DEF Stages, Fits, Approved
<1>0. int \in BOOLEAN
  BY Zenon
<1> HIDE DEF r, stage, why, approved, no, int
<1>5. [r EXCEPT !.stage = stage, !.why = why, !.approved = approved, !.old = no, !.interrupted = int] =
        [stage |-> stage, why |-> why, manifest |-> r.manifest,
         approved |-> approved, interrupted |-> int, old |-> no]
  <2> DEFINE kst == r.stage kwh == r.why kma == r.manifest
             kap == r.approved kint == r.interrupted kol == r.old
             one == [r EXCEPT !.stage = stage]
             two == [one EXCEPT !.why = why]
             three == [two EXCEPT !.approved = approved]
             four == [three EXCEPT !.old = no]
  <2>1. r = [stage |-> kst, why |-> kwh, manifest |-> kma,
             approved |-> kap, interrupted |-> kint, old |-> kol]
    BY <1>3, SessionFields
  <2> HIDE DEF kst, kwh, kma, kap, kint, kol
  <2>2. one = [stage |-> stage, why |-> kwh, manifest |-> kma,
               approved |-> kap, interrupted |-> kint, old |-> kol]
    BY <2>1
  <2> HIDE DEF one
  <2>3. two = [stage |-> stage, why |-> why, manifest |-> kma,
               approved |-> kap, interrupted |-> kint, old |-> kol]
    BY <2>2
  <2> HIDE DEF two
  <2>4. three = [stage |-> stage, why |-> why, manifest |-> kma,
                 approved |-> approved, interrupted |-> kint, old |-> kol]
    BY <2>3
  <2> HIDE DEF three
  <2>5. four = [stage |-> stage, why |-> why, manifest |-> kma,
                approved |-> approved, interrupted |-> kint, old |-> no]
    BY <2>4
  <2> HIDE DEF four
  <2>6. [four EXCEPT !.interrupted = int] =
         [stage |-> stage, why |-> why, manifest |-> kma,
          approved |-> approved, interrupted |-> int, old |-> no]
    BY <2>5
  <2> QED
    BY <2>6, Zenon DEF one, two, three, four, kma
<1>6. Touched(s, stage, why, r.manifest, approved)
  <2>1. sessions' = [sessions EXCEPT ![s] =
          [stage |-> stage, why |-> why, manifest |-> r.manifest,
           approved |-> approved, interrupted |-> int, old |-> no]]
    BY <1>1, <1>5, Zenon
  <2>2. why \in Reasons
    <3>1. why \in {"approval_recorded", "merge_blocked", "approval_rejected"}
      BY <1>1, Place, MemoryFields DEF why, Fits
    <3> QED
      BY <3>1 DEF Reasons
  <2> QED
    BY <2>1, <2>2, <1>0, <1>2, <1>3, <1>4, TouchSession DEF no
<1>7. ManifestsKept(p)
  BY <1>1, ManifestsSame
<1>8. SessionsKept
  BY <1>2, <1>3, <1>4, <1>6, <1>7, SessionsTouched
<1>9. lock' \in Locks /\ deaths' \in 0..MaxDeaths
  BY <1>1, Rest
<1>10. /\ SessionInv' /\ Went(p, "idle") /\ Holds(p) /\ mem'[p] = NoMem
  BY <1>1, <1>7, <1>8, <1>9, LeaveKeeps
<1> QED
  BY <1>1, <1>4, <1>6, <1>10 DEF r, why, approved

LEMMA InspectKeeps ==
  ASSUME SessionInv, Orderly, NEW p \in Procs, NEW mode \in {"no", "evidence", "complete"},
         Inspect(p, mode), mode # "no" => "recover" \in Commands,
         mode = "no" => sessions[Len(sessions)].stage = "running"
  PROVE  /\ SessionInv' /\ Holds(p) /\ pc[p] = "idle"
         /\ Len(sessions) \in DOMAIN sessions
         /\ \/ Went(p, "check_lock") /\ sessions[Len(sessions)].stage = "running"
            \/ Went(p, "plan")
         /\ mem'[p].session = Len(sessions) /\ mem'[p].read = sessions[Len(sessions)]
         /\ mem'[p].manifest = 0
         /\ sessions' = sessions /\ manifests' = manifests /\ lock' = lock
<1> DEFINE running == sessions[Len(sessions)].stage = "running"
           label == IF running THEN "check_lock" ELSE "plan"
           new == [session |-> Len(sessions), manifest |-> 0, read |-> sessions[Len(sessions)],
                   recover |-> mode, outcome |-> "none"]
<1>1. /\ pc[p] = "idle" /\ Len(sessions) > 0
      /\ mem' = [mem EXCEPT ![p] = new]
      /\ GoTo(p, label)
      /\ sessions' = sessions /\ manifests' = manifests
      /\ lock' = lock /\ contract' = contract /\ runs' = runs /\ deaths' = deaths
  BY DEF Inspect, At, Latest, stored, counts
<1>2. Len(sessions) \in DOMAIN sessions /\ Len(sessions) \in 0..Len(sessions')
  BY <1>1, Place
<1>3. ManifestsKept(p)
  BY <1>1, ManifestsSame
<1>4. SessionsKept
  BY <1>1, <1>3, SessionsSame
<1>5. sessions[Len(sessions)] \in SessionRecords
  BY <1>2, Numbers
<1>6. /\ Holds(p)
      /\ mem'[p].session = Len(sessions) /\ mem'[p].read = sessions[Len(sessions)]
      /\ mem'[p].manifest = 0 /\ mem'[p].recover = mode
  <2>1. 0 \in 0..Len(manifests')
    BY <1>1, Place
  <2>2. new \in Memory(Len(sessions'), Len(manifests'))
    BY <2>1, <1>2, <1>5, MemoryOf
  <2>3. /\ new.session = Len(sessions) /\ new.manifest = 0
        /\ new.read = sessions[Len(sessions)] /\ new.recover = mode
    OBVIOUS
  <2> HIDE DEF new
  <2>4. Holds(p) /\ mem'[p] = new
    BY <2>2, <1>1, <1>3, <1>4, HoldsNew
  <2> QED
    BY <2>3, <2>4
<1>7. /\ label \in {"check_lock", "plan"}
      /\ label = "check_lock" => sessions[Len(sessions)].stage = "running"
      /\ label = "plan" => "recover" \in Commands
  OBVIOUS
<1> HIDE DEF label
<1>8. Went(p, label)
  BY <1>1, <1>7, WentTo DEF Labels, RecoverLabels
<1>9. Fits(p)' /\ Known(mem[p].read)' /\ Owns(p)
  <2>1. Known(mem[p].read)'
    BY <1>1, <1>2, <1>6, Numbers DEF Known
  <2>2. Len(sessions) >= 1
    BY <1>1, Place
  <2> QED
    BY <2>1, <2>2, <1>6, <1>7, <1>8
    DEF Went, Fits, Owns, Owning, Undecided, Recovering, RunLabels, RecoverLabels
<1>10. Counted'
  BY <1>1, <1>7, <1>8, Counts DEF SessionInv, Early
<1>11. /\ lock' \in Locks /\ contract' \in BOOLEAN /\ deaths' \in 0..MaxDeaths
       /\ runs' \in 0..MaxRuns
  BY <1>1, Rest
<1>12. SessionInv'
  BY <1>3, <1>4, <1>6, <1>8, <1>9, <1>10, <1>11, CoreStep
<1> QED
  BY <1>1, <1>2, <1>6, <1>7, <1>8, <1>12

LEMMA CheckLockKeeps ==
  ASSUME SessionInv, Orderly, NEW p \in Procs, CheckLock(p)
  PROVE  /\ SessionInv' /\ pc[p] = "check_lock"
         /\ \/ Went(p, "block") /\ Stale(mem[p].session, mem[p].read) /\ mem' = mem
            \/ Went(p, "plan") /\ mem' = mem
            \/ Went(p, "idle") /\ Holds(p) /\ mem'[p] = NoMem
         /\ sessions' = sessions /\ manifests' = manifests /\ lock' = lock
<1>1. /\ pc[p] = "check_lock"
      /\ sessions' = sessions /\ manifests' = manifests
      /\ lock' = lock /\ contract' = contract /\ runs' = runs /\ deaths' = deaths
  BY DEF CheckLock, At, stored, counts
<1>2. ManifestsKept(p)
  BY <1>1, ManifestsSame
<1>3. SessionsKept
  BY <1>1, <1>2, SessionsSame
<1>4. /\ lock' \in Locks /\ contract' \in BOOLEAN /\ deaths' \in 0..MaxDeaths
  BY <1>1, Rest
<1>5. CASE Leave(p)
  BY <1>1, <1>2, <1>3, <1>4, <1>5, LeaveKeeps
<1>6. ASSUME NEW label \in {"block", "plan"}, GoTo(p, label), mem' = mem,
             label = "plan" => mem[p].recover # "no"
      PROVE  SessionInv' /\ Went(p, label)
  <2>1. label \in Labels \ Early /\ label \notin Owning
    BY DEF Labels, RecoverLabels, Owning, Undecided, Early
  <2>2. Went(p, label)
    BY <2>1, <1>6, WentTo
  <2>3. mem[p].session >= 1 /\ (mem[p].recover # "no" => "recover" \in Commands)
    BY <1>1, Place DEF Fits, RecoverLabels
  <2>4. Fits(p)'
    BY <2>2, <2>3, <1>6
    DEF Went, Fits, Owning, Undecided, Recovering, RunLabels, RecoverLabels
  <2> QED
    BY <2>1, <2>2, <2>4, <1>1, <1>2, <1>3, <1>4, <1>6, StepKeeps
<1>7. \/ Leave(p)
      \/ GoTo(p, "block") /\ mem' = mem /\ Stale(mem[p].session, mem[p].read)
      \/ GoTo(p, "plan") /\ mem' = mem /\ mem[p].recover # "no"
  BY DEF CheckLock
<1> QED
  BY <1>1, <1>5, <1>6, <1>7, LeaveKeeps, <1>2, <1>3, <1>4

LEMMA BlockSessionKeeps ==
  ASSUME SessionInv, Orderly, NEW p \in Procs, BlockSession(p)
  PROVE  /\ SessionInv' /\ Went(p, "reject_row") /\ mem' = mem /\ pc[p] = "block"
         /\ Touched(mem[p].session, "blocked", "runtime_interrupted",
                    sessions[mem[p].session].manifest, sessions[mem[p].session].approved)
         /\ manifests' = manifests /\ lock' = lock
<1> DEFINE s == mem[p].session
<1>1. /\ pc[p] = "block" /\ GoTo(p, "reject_row")
      /\ manifests' = manifests /\ lock' = lock /\ mem' = mem /\ contract' = contract
      /\ runs' = runs /\ deaths' = deaths
      /\ UpdateSession(s, "blocked", "runtime_interrupted")
  BY DEF BlockSession, Step, At, counts
<1>2. s \in DOMAIN sessions /\ sessions \in Seq(SessionRecords)
  BY <1>1, Place DEF RecoverLabels
<1>3. Touched(s, "blocked", "runtime_interrupted", sessions[s].manifest, sessions[s].approved)
  BY <1>1, <1>2, UpdateTouches DEF Stages, Reasons
<1>4. ManifestsKept(p)
  BY <1>1, ManifestsSame
<1>5. sessions[s].manifest \in 0..Len(manifests) /\ sessions[s].approved \in 0..Len(manifests)
  BY <1>2, Numbers
<1>6. SessionsKept
  BY <1>2, <1>3, <1>4, <1>5, SessionsTouched
<1>7. lock' \in Locks /\ contract' \in BOOLEAN
  BY <1>1, Rest
<1>8. "reject_row" \in Labels \ Early /\ "reject_row" \notin Owning
  BY DEF Labels, RecoverLabels, Owning, Undecided, Early
<1>9. Went(p, "reject_row")
  BY <1>1, <1>8, WentTo
<1>10. Fits(p)'
  <2>1. mem[p].session >= 1 /\ (mem[p].recover # "no" => "recover" \in Commands)
    BY <1>1, Place DEF Fits, RecoverLabels
  <2> QED
    BY <2>1, <1>1, <1>9
    DEF Went, Fits, Owning, Undecided, Recovering, RunLabels, RecoverLabels
<1>11. SessionInv'
  BY <1>1, <1>4, <1>6, <1>7, <1>8, <1>10, StepKeeps
<1> QED
  BY <1>1, <1>3, <1>9, <1>11

LEMMA RejectRowKeeps ==
  ASSUME SessionInv, Orderly, NEW p \in Procs, RejectRow(p)
  PROVE  /\ SessionInv' /\ Went(p, "idle") /\ Holds(p) /\ mem'[p] = NoMem
         /\ pc[p] = "reject_row"
         /\ \/ manifests' = manifests
            \/ /\ mem[p].read.manifest \in DOMAIN manifests
               /\ Changed(mem[p].read.manifest, "rejected",
                          manifests[mem[p].read.manifest].approval)
         /\ sessions' = sessions /\ lock' = lock
<1> DEFINE m == mem[p].read.manifest
<1>1. /\ pc[p] = "reject_row" /\ Leave(p)
      /\ sessions' = sessions /\ lock' = lock /\ contract' = contract
      /\ runs' = runs /\ deaths' = deaths
  BY DEF RejectRow, At, counts
<1>2. \/ manifests' = manifests
      \/ m \in DOMAIN manifests /\ Changed(m, "rejected", manifests[m].approval)
  <2>1. IF m > 0 THEN SetState(m, "rejected") ELSE manifests' = manifests
    BY Zenon DEF RejectRow
  <2>2. m > 0 => m \in DOMAIN manifests
    BY Numbers, Place
  <2>3. CASE m > 0
    <3>1. SetState(m, "rejected")
      BY <2>1, <2>3, Zenon
    <3> QED
      BY <2>2, <2>3, <3>1, StateChanges, Place DEF ManifestStates
  <2> QED
    BY <2>1, <2>3, Zenon
<1>3. ManifestsKept(p)
  BY <1>2, ManifestsSame, ManifestsChanged
<1>4. Len(manifests') = Len(manifests)
  BY <1>2 DEF Changed
<1>5. SessionsKept
  BY <1>1, <1>3, SessionsSame
<1>6. lock' \in Locks /\ deaths' \in 0..MaxDeaths
  BY <1>1, Rest
<1> QED
  BY <1>1, <1>2, <1>3, <1>4, <1>5, <1>6, LeaveKeeps

LEMMA PlanKeeps ==
  ASSUME SessionInv, Orderly, NEW p \in Procs, Plan(p)
  PROVE  /\ SessionInv' /\ Holds(p) /\ pc[p] = "plan"
         /\ \/ Went(p, "idle") /\ mem'[p] = NoMem
            \/ /\ Went(p, "rerun") /\ Len(sessions) \in DOMAIN sessions
               /\ mem'[p].session = Len(sessions) /\ mem'[p].read = sessions[Len(sessions)]
               /\ mem'[p].manifest = mem[p].manifest
         /\ sessions' = sessions /\ manifests' = manifests /\ lock' = lock
<1>1. /\ pc[p] = "plan"
      /\ sessions' = sessions /\ manifests' = manifests
      /\ lock' = lock /\ contract' = contract /\ runs' = runs /\ deaths' = deaths
  BY DEF Plan, At, stored, counts
<1>2. ManifestsKept(p)
  BY <1>1, ManifestsSame
<1>3. SessionsKept
  BY <1>1, <1>2, SessionsSame
<1>4. /\ lock' \in Locks /\ contract' \in BOOLEAN /\ deaths' \in 0..MaxDeaths
      /\ runs' \in 0..MaxRuns
  BY <1>1, Rest
<1>5. CASE Leave(p)
  BY <1>1, <1>2, <1>3, <1>4, <1>5, LeaveKeeps
<1>6. CASE /\ mem' = [mem EXCEPT ![p] = [@ EXCEPT !.session = Len(sessions),
                                                !.read = sessions[Len(sessions)]]]
           /\ GoTo(p, "rerun")
  <2>1. mem[p].session >= 1 /\ mem[p].session \in 0..Len(sessions)
    BY <1>1, Place DEF RecoverLabels, Fits
  <2>2. Len(sessions) \in DOMAIN sessions /\ Len(sessions) \in 0..Len(sessions')
    BY <1>1, <2>1, Place
  <2>3. sessions[Len(sessions)] \in SessionRecords
    BY <2>2, Numbers
  <2>4. /\ Holds(p)
        /\ mem'[p].session = Len(sessions) /\ mem'[p].manifest = mem[p].manifest
        /\ mem'[p].read = sessions[Len(sessions)] /\ mem'[p].recover = mem[p].recover
    BY <1>1, <1>2, <1>3, <1>6, <2>2, <2>3, HoldsRead
  <2>5. Went(p, "rerun")
    BY <1>6, WentTo DEF Labels, RecoverLabels
  <2>6. Fits(p)' /\ Known(mem[p].read)' /\ Owns(p)
    <3>1. Known(mem[p].read)'
      BY <1>1, <2>2, <2>4, Numbers DEF Known
    <3>2. Len(sessions) >= 1 /\ "recover" \in Commands
      BY <1>1, <2>2, Place DEF Fits, Recovering
    <3> QED
      BY <3>1, <3>2, <2>4, <2>5
      DEF Went, Fits, Owns, Owning, Undecided, Recovering, RunLabels, RecoverLabels
  <2>7. Counted'
    BY <1>1, <2>5, Counts DEF SessionInv, Early
  <2>8. SessionInv'
    BY <1>2, <1>3, <1>4, <2>4, <2>5, <2>6, <2>7, CoreStep
  <2> QED
    BY <1>1, <2>2, <2>4, <2>5, <2>8
<1> QED
  BY <1>5, <1>6 DEF Plan, Latest

\* a recovery goes on with what it read
LEMMA RecoveryGoes ==
  ASSUME SessionInv, Orderly, NEW p \in Procs, pc[p] \in Recovering,
         NEW label \in {"attach", "approve", "complete"}, GoTo(p, label), mem' = mem,
         SessionsKept, ManifestsKept(p), Len(manifests') = Len(manifests),
         label = "approve" => Target(mem[p].read) >= 1,
         label = "complete" => /\ Target(mem[p].read) >= 1
                               /\ manifests'[Target(mem[p].read)].approval = "approve",
         runs' = runs, deaths' = deaths, lock' \in Locks, contract' \in BOOLEAN
  PROVE  SessionInv' /\ Went(p, label)
<1>1. label \in Labels \ Early /\ label \notin Owning
  BY DEF Labels, RecoverLabels, Owning, Undecided, Early
<1>2. Went(p, label)
  BY <1>1, WentTo
<1>3. mem[p].session >= 1 /\ "recover" \in Commands
  BY Place DEF Fits, RecoverLabels, Recovering
<1>4. Target(mem[p].read)' = Target(mem[p].read)
  BY DEF Target
<1>5. Fits(p)'
  BY <1>2, <1>3, <1>4
  DEF Went, Fits, Approved, Owning, Undecided, Recovering, RunLabels, RecoverLabels
<1> QED
  BY <1>1, <1>5, StepKeeps

LEMMA RerunPassesKeeps ==
  ASSUME SessionInv, Orderly, NEW p \in Procs, RerunPasses(p)
  PROVE  /\ SessionInv' /\ pc[p] = "rerun"
         /\ \/ Went(p, "idle") /\ Holds(p) /\ mem'[p] = NoMem
            \/ (Went(p, "approve") \/ Went(p, "attach")) /\ mem' = mem
         /\ sessions' = sessions /\ manifests' = manifests /\ lock' = lock
<1>1. /\ pc[p] = "rerun"
      /\ sessions' = sessions /\ manifests' = manifests
      /\ lock' = lock /\ contract' = contract /\ runs' = runs /\ deaths' = deaths
  BY DEF RerunPasses, At, stored, counts
<1>2. ManifestsKept(p)
  BY <1>1, ManifestsSame
<1>3. SessionsKept
  BY <1>1, <1>2, SessionsSame
<1>4. /\ lock' \in Locks /\ contract' \in BOOLEAN /\ deaths' \in 0..MaxDeaths
  BY <1>1, Rest
<1>5. CASE Leave(p)
  BY <1>1, <1>2, <1>3, <1>4, <1>5, LeaveKeeps
<1>6. Target(mem[p].read) # 0 => Target(mem[p].read) >= 1
  BY Numbers
<1>7. ASSUME NEW label \in {"approve", "attach"}, GoTo(p, label), mem' = mem,
             Target(mem[p].read) # 0
      PROVE  SessionInv' /\ Went(p, label)
  BY <1>1, <1>2, <1>3, <1>4, <1>6, <1>7, RecoveryGoes DEF Recovering
<1>8. \/ Leave(p)
      \/ GoTo(p, "approve") /\ mem' = mem /\ Target(mem[p].read) # 0
      \/ GoTo(p, "attach") /\ mem' = mem /\ Target(mem[p].read) # 0
  BY DEF RerunPasses
<1> QED
  BY <1>1, <1>5, <1>7, <1>8, LeaveKeeps, <1>2, <1>3, <1>4

LEMMA AutoApproveKeeps ==
  ASSUME SessionInv, Orderly, NEW p \in Procs, AutoApprove(p)
  PROVE  /\ SessionInv' /\ Went(p, "complete") /\ mem' = mem /\ pc[p] = "approve"
         /\ Target(mem[p].read) \in DOMAIN manifests
         /\ Changed(Target(mem[p].read), manifests[Target(mem[p].read)].state, "approve")
         /\ sessions' = sessions /\ lock' = lock
<1> DEFINE m == Target(mem[p].read)
<1>1. /\ pc[p] = "approve" /\ GoTo(p, "complete")
      /\ sessions' = sessions /\ lock' = lock /\ mem' = mem /\ contract' = contract
      /\ runs' = runs /\ deaths' = deaths
      /\ manifests' = [manifests EXCEPT ![m].approval = "approve"]
  BY DEF AutoApprove, Step, At, counts
<1>2. m \in DOMAIN manifests /\ m >= 1
  BY <1>1, Place, Numbers DEF Fits
<1>3. Changed(m, manifests[m].state, "approve")
  BY <1>1, <1>2, ApprovalChanges, Place
<1>4. ManifestsKept(p)
  BY <1>1, <1>3, ManifestsChanged
<1>5. SessionsKept
  BY <1>1, <1>4, SessionsSame
<1>6. lock' \in Locks /\ contract' \in BOOLEAN
  BY <1>1, Rest
<1>7. SessionInv' /\ Went(p, "complete")
  BY <1>1, <1>2, <1>3, <1>4, <1>5, <1>6, RecoveryGoes DEF Changed, Recovering
<1> QED
  BY <1>1, <1>2, <1>3, <1>7

LEMMA AutoCompleteKeeps ==
  ASSUME SessionInv, Orderly, NEW p \in Procs, AutoComplete(p)
  PROVE  /\ SessionInv' /\ Went(p, "idle") /\ Holds(p) /\ mem'[p] = NoMem
         /\ pc[p] = "complete"
         /\ Touched(mem[p].session, "completed", "self_recovery_completed",
                    sessions[mem[p].session].manifest, Target(mem[p].read))
         /\ manifests' = manifests /\ lock' = lock
<1> DEFINE s == mem[p].session
           r == sessions[s]
           stage == "completed"
           why == "self_recovery_completed"
           approved == Target(mem[p].read)
           no == FALSE
           int == FALSE
<1>1. /\ pc[p] = "complete" /\ Leave(p)
      /\ manifests' = manifests /\ lock' = lock /\ contract' = contract
      /\ runs' = runs /\ deaths' = deaths
      /\ sessions' = [sessions EXCEPT ![s] =
           [r EXCEPT !.stage = stage, !.old = no, !.why = why, !.interrupted = int,
                     !.approved = approved]]
  BY DEF AutoComplete, At, counts
<1>2. /\ s \in DOMAIN sessions /\ sessions \in Seq(SessionRecords)
      /\ approved \in 0..Len(manifests)
      /\ approved >= 1 /\ manifests'[approved].approval = "approve"
  BY <1>1, Place, Numbers DEF RecoverLabels, Fits, Approved
<1>3. /\ r \in SessionRecords /\ r.manifest \in 0..Len(manifests)
      /\ approved \in 0..MaxRuns /\ r.manifest \in 0..MaxRuns
  BY <1>2, Numbers, Place, SessionConstants
<1>4. stage \in Stages /\ why \in Reasons
  BY DEF Stages, Reasons
<1>0. int \in BOOLEAN
  BY Zenon
<1> HIDE DEF r, stage, why, approved, no, int
<1>5. [r EXCEPT !.stage = stage, !.old = no, !.why = why, !.interrupted = int, !.approved = approved] =
        [stage |-> stage, why |-> why, manifest |-> r.manifest,
         approved |-> approved, interrupted |-> int, old |-> no]
  <2> DEFINE kst == r.stage kwh == r.why kma == r.manifest
             kap == r.approved kint == r.interrupted kol == r.old
             one == [r EXCEPT !.stage = stage]
             two == [one EXCEPT !.old = no]
             three == [two EXCEPT !.why = why]
             four == [three EXCEPT !.interrupted = int]
  <2>1. r = [stage |-> kst, why |-> kwh, manifest |-> kma,
             approved |-> kap, interrupted |-> kint, old |-> kol]
    BY <1>3, SessionFields
  <2> HIDE DEF kst, kwh, kma, kap, kint, kol
  <2>2. one = [stage |-> stage, why |-> kwh, manifest |-> kma,
               approved |-> kap, interrupted |-> kint, old |-> kol]
    BY <2>1
  <2> HIDE DEF one
  <2>3. two = [stage |-> stage, why |-> kwh, manifest |-> kma,
               approved |-> kap, interrupted |-> kint, old |-> no]
    BY <2>2
  <2> HIDE DEF two
  <2>4. three = [stage |-> stage, why |-> why, manifest |-> kma,
                 approved |-> kap, interrupted |-> kint, old |-> no]
    BY <2>3
  <2> HIDE DEF three
  <2>5. four = [stage |-> stage, why |-> why, manifest |-> kma,
                approved |-> kap, interrupted |-> int, old |-> no]
    BY <2>4
  <2> HIDE DEF four
  <2>6. [four EXCEPT !.approved = approved] =
         [stage |-> stage, why |-> why, manifest |-> kma,
          approved |-> approved, interrupted |-> int, old |-> no]
    BY <2>5
  <2> QED
    BY <2>6, Zenon DEF one, two, three, four, kma
<1>6. Touched(s, stage, why, r.manifest, approved)
  <2>1. sessions' = [sessions EXCEPT ![s] =
          [stage |-> stage, why |-> why, manifest |-> r.manifest,
           approved |-> approved, interrupted |-> int, old |-> no]]
    BY <1>1, <1>5, Zenon
  <2> QED
    BY <2>1, <1>0, <1>2, <1>3, <1>4, TouchSession DEF no
<1>7. ManifestsKept(p)
  BY <1>1, ManifestsSame
<1>8. SessionsKept
  BY <1>2, <1>3, <1>6, <1>7, SessionsTouched
<1>9. lock' \in Locks /\ deaths' \in 0..MaxDeaths
  BY <1>1, Rest
<1>10. /\ SessionInv' /\ Went(p, "idle") /\ Holds(p) /\ mem'[p] = NoMem
  BY <1>1, <1>7, <1>8, <1>9, LeaveKeeps
<1> QED
  BY <1>1, <1>6, <1>10 DEF r, stage, why, approved

LEMMA DieKeeps ==
  ASSUME SessionInv, Orderly, NEW p \in Procs, Die(p)
  PROVE  /\ SessionInv' /\ Went(p, "idle") /\ Holds(p) /\ mem'[p] = NoMem
         /\ sessions' = sessions /\ manifests' = manifests
<1> DEFINE left == lock.writers \ {p}
           lives == lock.alive /\ ~OwnLock(p)
           one == [lock EXCEPT !.writers = left]
           after == [one EXCEPT !.alive = lives]
<1>1. /\ Leave(p) /\ deaths < MaxDeaths /\ deaths' = deaths + 1 /\ runs' = runs
      /\ sessions' = sessions /\ manifests' = manifests /\ contract' = contract
      /\ lock' = [lock EXCEPT !.writers = left, !.alive = lives]
  BY DEF Die
<1>2. lock \in Locks /\ lives \in BOOLEAN
  <2>1. lives \in BOOLEAN
    BY Zenon
  <2> QED
    BY <2>1 DEF SessionInv, Typed
<1> HIDE DEF lives
<1>3. left \in SUBSET Procs
  BY <1>2, Zenon DEF Locks
<1> HIDE DEF left
<1>4. one \in Locks
  BY <1>2, <1>3 DEF Locks
<1> HIDE DEF one
<1>5. after \in Locks
  BY <1>2, <1>4 DEF Locks
<1>6. lock' = after
  BY <1>1, Zenon DEF one
<1> HIDE DEF after
<1>7. lock' \in Locks /\ deaths' \in 0..MaxDeaths
  BY <1>1, <1>5, <1>6, SessionConstants DEF SessionInv, Typed
<1>8. ManifestsKept(p)
  BY <1>1, ManifestsSame
<1>9. SessionsKept
  BY <1>1, <1>8, SessionsSame
<1> QED
  BY <1>1, <1>7, <1>8, <1>9, LeaveKeeps

\* only the age of one session changes
LEMMA GetsOldKeeps ==
  ASSUME SessionInv, GetsOld
  PROVE  /\ SessionInv'
         /\ \E s \in DOMAIN sessions :
              /\ \A p \in Procs : WorksOn(p, s) =>
                   pc[p] \in {"verify", "submit", "decide", "merging", "rejecting", "close"}
              /\ sessions'[s].stage = sessions[s].stage /\ sessions'[s].why = sessions[s].why
              /\ sessions'[s].manifest = sessions[s].manifest
              /\ sessions'[s].approved = sessions[s].approved
              /\ sessions'[s].interrupted = sessions[s].interrupted
              /\ \A t \in DOMAIN sessions \ {s} : sessions'[t] = sessions[t]
         /\ sessions' \in Seq(SessionRecords) /\ Len(sessions') = Len(sessions)
         /\ manifests' = manifests /\ lock' = lock /\ pc' = pc /\ mem' = mem
<1>1. PICK s \in DOMAIN sessions :
        /\ \A p \in Procs : WorksOn(p, s) =>
             pc[p] \in {"verify", "submit", "decide", "merging", "rejecting", "close"}
        /\ sessions' = [sessions EXCEPT ![s].old = TRUE]
        /\ manifests' = manifests /\ lock' = lock /\ contract' = contract
        /\ runs' = runs /\ deaths' = deaths /\ pc' = pc /\ mem' = mem
  BY DEF GetsOld, counts
<1> DEFINE r == sessions[s]
           yes == TRUE
           st == r.stage
           wh == r.why
           ma == r.manifest
           ap == r.approved
           int == r.interrupted
           new == [stage |-> st, why |-> wh, manifest |-> ma, approved |-> ap,
                   interrupted |-> int, old |-> yes]
<1>2. sessions \in Seq(SessionRecords) /\ r \in SessionRecords
  BY SeqLen DEF SessionInv, Typed
<1>3. sessions' = [sessions EXCEPT ![s] = [r EXCEPT !.old = yes]]
  BY <1>1, Zenon
<1>4. /\ r = [stage |-> st, why |-> wh, manifest |-> ma, approved |-> ap,
              interrupted |-> int, old |-> r.old]
      /\ st \in Stages /\ wh \in Reasons /\ ma \in 0..MaxRuns /\ ap \in 0..MaxRuns
      /\ int \in BOOLEAN
  BY <1>2, SessionFields
<1>5. yes \in BOOLEAN
  OBVIOUS
<1> HIDE DEF yes
<1>6. new \in SessionRecords
  BY <1>4, <1>5, Session
<1>7. [r EXCEPT !.old = yes] = new
  <2> HIDE DEF st, wh, ma, ap, int
  <2> QED
    BY <1>4
<1>8. sessions' = [sessions EXCEPT ![s] = new]
  BY <1>3, <1>7, Zenon
<1>9. new.stage = st /\ new.why = wh /\ new.manifest = ma /\ new.approved = ap
      /\ new.interrupted = int
  BY Zenon
<1> HIDE DEF new
<1>10. /\ [sessions EXCEPT ![s] = new] \in Seq(SessionRecords)
       /\ Len([sessions EXCEPT ![s] = new]) = Len(sessions)
  BY <1>2, <1>6, SeqExcept
<1>11. sessions'[s] = new /\ \A t \in DOMAIN sessions \ {s} : sessions'[t] = sessions[t]
  BY <1>2, <1>8, SeqLen
<1>12. /\ sessions' \in Seq(SessionRecords) /\ Len(sessions') = Len(sessions)
       /\ DOMAIN sessions' = DOMAIN sessions
  BY <1>2, <1>8, <1>10, SeqLen
<1>13. /\ sessions'[s].stage = sessions[s].stage /\ sessions'[s].why = sessions[s].why
       /\ sessions'[s].manifest = sessions[s].manifest
       /\ sessions'[s].approved = sessions[s].approved
  BY <1>9, <1>11
<1> HIDE DEF r, st, wh, ma, ap, int
<1>14. \A t \in DOMAIN sessions :
         /\ sessions'[t].stage = sessions[t].stage
         /\ sessions'[t].manifest = sessions[t].manifest
         /\ sessions'[t].approved = sessions[t].approved
  BY <1>11, <1>13
<1>15. Typed'
  BY <1>1, <1>12 DEF SessionInv, Typed
<1>16. Counted' /\ Distinct'
  BY <1>1 DEF SessionInv, Counted, Preparing, Distinct
<1>17. AllKnown'
  BY <1>1, <1>12, <1>14 DEF SessionInv, AllKnown, Known
<1>18. \A p \in Procs : Fits(p)'
  BY <1>1 DEF SessionInv, Fits, Approved, Target
<1>19. CompletedIsApproved'
  BY <1>1, <1>12, <1>14 DEF SessionInv, CompletedIsApproved
<1> QED
  BY <1>1, <1>11, <1>12, <1>13, <1>15, <1>16, <1>17, <1>18, <1>19 DEF SessionInv

-----------------------------------------------------------------------------
(* The invariant holds.                                                    *)

LEMMA SessionInit == ASSUME Init PROVE SessionInv
<1>1. /\ sessions = <<>> /\ manifests = <<>> /\ lock = NoLock /\ contract = FALSE
      /\ runs = 0 /\ deaths = 0 /\ pc = [p \in Procs |-> "idle"]
      /\ mem = [p \in Procs |-> NoMem]
  BY DEF Init
<1>2. /\ Len(sessions) = 0 /\ Len(manifests) = 0 /\ DOMAIN sessions = {}
      /\ sessions \in Seq(SessionRecords) /\ manifests \in Seq(ManifestRecords)
  BY <1>1
<1>3. NewSession \in SessionRecords
  BY NewSessionTyped
<1>4. NoMem \in Memory(0, 0)
  <2>1. 0 \in 0..0
    OBVIOUS
  <2> QED
    BY <2>1, <1>3, MemoryOf, Zenon DEF NoMem
<1>5. NoLock \in Locks
  BY UnreadableTyped DEF NoLock
<1>6. Typed
  <2>1. contract \in BOOLEAN
    BY <1>1, Zenon
  <2>2. pc \in [Procs -> Labels]
    BY <1>1 DEF Labels
  <2>3. mem \in [Procs -> Memory(Len(sessions), Len(manifests))]
    BY <1>1, <1>2, <1>4
  <2>4. lock \in Locks
    BY <1>1, <1>5, Zenon
  <2>5. runs \in 0..MaxRuns /\ deaths \in 0..MaxDeaths /\ Len(sessions) <= MaxSessions
    BY <1>1, <1>2, SessionConstants
  <2> QED
    BY <1>2, <2>1, <2>2, <2>3, <2>4, <2>5 DEF Typed
<1>7. Counted
  <2>1. Preparing = {}
    BY <1>1 DEF Preparing, Early
  <2> QED
    BY <1>1, <1>2, <2>1, FS_EmptySet DEF Counted
<1>8. \A p \in Procs : /\ pc[p] = "idle" /\ mem[p].recover = "no"
                       /\ mem[p].read.manifest = 0 /\ mem[p].read.approved = 0
  BY <1>1 DEF NoMem, NewSession
<1>9. AllKnown
  BY <1>2, <1>8 DEF AllKnown, Known
<1>10. (\A p \in Procs : Fits(p)) /\ Distinct
  BY <1>8 DEF Fits, Distinct, Owning, Undecided, Recovering, RunLabels, RecoverLabels
<1>11. CompletedIsApproved
  BY <1>2 DEF CompletedIsApproved
<1> QED
  BY <1>6, <1>7, <1>9, <1>10, <1>11 DEF SessionInv

LEMMA SessionNext ==
  ASSUME SessionInv, Orderly, Next
  PROVE  SessionInv'
<1>1. CASE GetsOld
  BY <1>1, GetsOldKeeps
<1>2. ASSUME NEW p \in Procs, Build(p) \/ Continue(p) \/ Status(p) \/ Recover(p)
      PROVE  SessionInv'
  <2>1. CASE Build(p) \/ Continue(p)
    BY <2>1, BuildKeeps, ContinueKeeps
  <2>2. CASE Status(p)
    BY <2>2, InspectKeeps DEF Status, Latest
  <2>3. CASE Recover(p)
    BY <2>3, InspectKeeps DEF Recover
  <2> QED
    BY <1>2, <2>1, <2>2, <2>3
<1>3. ASSUME NEW p \in Procs, RunStep(p)
      PROVE  SessionInv'
  <2>1. CASE RuntimeMissing(p) \/ ScanStops(p) \/ RuntimeFailed(p)
    <3>1. /\ "blocked" \in Stages \ {"completed"}
          /\ {"runtime_missing", "runtime_failed"} \subseteq Reasons
          /\ {"prepare", "scan", "submit"} \subseteq RunLabels
      BY DEF Stages, Reasons, RunLabels
    <3> QED
      BY <2>1, <3>1, EndsKeeps DEF RuntimeMissing, ScanStops, RuntimeFailed, At
  <2>2. CASE Reload(p) \/ CreateManifest(p) \/ MarkRunning(p) \/ Launch(p)
    BY <2>2, ReloadKeeps, CreateManifestKeeps, MarkRunningKeeps, LaunchKeeps
  <2>7. CASE \/ Supersede(p) \/ SupersedeRow(p) \/ SupersedeManifest(p)
             \/ WriteContract(p)
    BY <2>7, SupersedeKeeps, SupersedeWritesKeeps, WriteContractKeeps
  <2>3. CASE LockStep(p)
    BY <2>3, LockStepKeeps
  <2>4. CASE EvidenceReady(p) \/ Submit(p) \/ Close(p)
    BY <2>4, EvidenceReadyKeeps, SubmitKeeps, CloseKeeps
  <2>5. CASE RunRaises(p)
    BY <2>5, QuitsKeeps DEF RunRaises
  <2>6. CASE Merge(p) \/ MergeBlocked(p) \/ Reject(p)
    <3>1. {"merged", "approved", "rejected"} \subseteq ManifestStates
      BY DEF ManifestStates
    <3> QED
      BY <2>6, <3>1, ConcludesKeeps DEF Merge, MergeBlocked, Reject
  <2> QED
    BY <1>3, <2>1, <2>2, <2>3, <2>4, <2>5, <2>6, <2>7 DEF RunStep, LockStep
<1>4. ASSUME NEW p \in Procs, UserDecides(p)
      PROVE  SessionInv'
  BY <1>4, DecideKeeps, QuitsKeeps DEF UserDecides, Abort
<1>5. ASSUME NEW p \in Procs, RecoverStep(p)
      PROVE  SessionInv'
  <2>1. CASE RerunFails(p) \/ Attach(p)
    <3>1. /\ {"blocked", "awaiting_review"} \subseteq Stages \ {"completed"}
          /\ {"recovery_verification_failed", "self_recovery_evidence_ready"} \subseteq Reasons
          /\ {"rerun", "attach"} \subseteq RecoverLabels
      BY DEF Stages, Reasons, RecoverLabels
    <3> QED
      BY <2>1, <3>1, EndsKeeps DEF RerunFails, Attach, At
  <2>2. CASE CheckLock(p) \/ BlockSession(p) \/ RejectRow(p) \/ Plan(p)
    BY <2>2, CheckLockKeeps, BlockSessionKeeps, RejectRowKeeps, PlanKeeps
  <2>3. CASE RerunPasses(p) \/ AutoApprove(p) \/ AutoComplete(p)
    BY <2>3, RerunPassesKeeps, AutoApproveKeeps, AutoCompleteKeeps
  <2> QED
    BY <1>5, <2>1, <2>2, <2>3 DEF RecoverStep
<1>6. ASSUME NEW p \in Procs, Die(p)
      PROVE  SessionInv'
  BY <1>6, DieKeeps
<1> QED
  BY <1>1, <1>2, <1>3, <1>4, <1>5, <1>6 DEF Next

LEMMA SessionStutters ==
  ASSUME SessionInv, UNCHANGED vars
  PROVE  SessionInv'
<1>1. /\ sessions' = sessions /\ manifests' = manifests /\ lock' = lock /\ contract' = contract
      /\ runs' = runs /\ deaths' = deaths /\ pc' = pc /\ mem' = mem
  BY DEF vars, stored, counts
<1>2. Typed'
  BY <1>1, Zenon DEF SessionInv, Typed
<1>3. Counted' /\ AllKnown' /\ Distinct' /\ CompletedIsApproved'
  BY <1>1 DEF SessionInv, Counted, Preparing, AllKnown, Known, Distinct, CompletedIsApproved
<1>4. \A p \in Procs : Fits(p)'
  BY <1>1 DEF SessionInv, Fits, Approved, Target
<1> QED
  BY <1>2, <1>3, <1>4 DEF SessionInv

LEMMA SessionGives == ASSUME SessionInv PROVE SessionSound
<1>1. Len(manifests) <= runs
  BY Numbers
<1>2. contract \in BOOLEAN
  BY DEF SessionInv, Typed
<1>3. TypeOK
  BY <1>1, <1>2 DEF SessionInv, Typed, TypeOK, Labels, Memory
<1> QED
  BY <1>3 DEF SessionInv, SessionSound

LEMMA SessionHolds == ASSUME Orderly PROVE Spec => []SessionInv
<1>1. SessionInv /\ [Next]_vars => SessionInv'
  BY SessionNext, SessionStutters
<1> QED
  BY <1>1, SessionInit, PTL DEF Spec

(* A completed session was approved, whichever command completed it and    *)
(* wherever commands died, if a recovery has the project to itself: run    *)
(* and recovery share the session without a lock, and a recovery beside a  *)
(* run may complete it just before the user rejects the work.              *)
THEOREM SessionIsSound ==
  ASSUME Orderly
  PROVE  Spec => []SessionSound
<1>1. SessionInv => SessionSound
  BY SessionGives
<1> QED
  BY <1>1, SessionHolds, PTL

-----------------------------------------------------------------------------
(* Merges, when no command runs beside another one.                        *)

\* the manifest of a run is named by no session but its own, once it is marked
Unmarked == {"supersede", "superseding", "resave", "contract", "mark"}
Locking == {"scan", "write_lock", "runtime", "find_lock", "read_lock", "unlink"}

Owned(p) ==
  /\ \A s \in DOMAIN sessions : sessions[s].manifest = mem[p].manifest =>
       s = mem[p].session /\ pc[p] \notin Unmarked
  /\ pc[p] \in Unmarked \cup {"launch"} => manifests[mem[p].manifest].state = "queued"
  /\ pc[p] \in Locking \cup {"verify", "submit"} =>
       manifests[mem[p].manifest].state = "in_flight"
  /\ pc[p] \in {"decide", "merging", "rejecting"} =>
       manifests[mem[p].manifest].state = "under_review"
  /\ pc[p] \in {"submit", "decide", "merging", "rejecting", "close"} =>
       sessions[mem[p].session].stage # "running"

\* what a command read of its session is what the session says
Current(p) ==
  /\ pc[p] \in {"idle", "reload"} => mem[p].read.manifest = 0
  /\ pc[p] \in {"prepare", "supersede", "superseding", "resave"}
       /\ mem[p].read.manifest # 0 =>
       /\ mem[p].read.manifest = sessions[mem[p].session].manifest
       /\ mem[p].read.interrupted = sessions[mem[p].session].interrupted
  /\ pc[p] \in {"superseding", "resave"} =>
       Interrupted(mem[p].read) /\ manifests[mem[p].read.manifest].state # "merged"
  /\ pc[p] \in {"check_lock", "block", "reject_row"} =>
       mem[p].read.manifest = sessions[mem[p].session].manifest
  /\ pc[p] \in {"check_lock", "block"} => sessions[mem[p].session].stage = "running"
  /\ pc[p] = "reject_row" =>
       /\ sessions[mem[p].session].stage # "running"
       /\ mem[p].read.manifest # 0 => manifests[mem[p].read.manifest].state # "merged"

\* a running session has a run that is not decided, and shares it with no other session
Running ==
  /\ \A s \in DOMAIN sessions : sessions[s].stage = "running" =>
       /\ ~sessions[s].interrupted /\ sessions[s].manifest >= 1
       /\ manifests[sessions[s].manifest].state \in {"queued", "in_flight"}
  /\ \A s, t \in DOMAIN sessions :
       sessions[s].manifest = sessions[t].manifest /\ sessions[s].manifest # 0 => s = t

MergeInv ==
  Running /\ (\A p \in Procs : Current(p)) /\ (\A p \in Procs : pc[p] \in Owning => Owned(p))

LEMMA RunningKept ==
  ASSUME Running, DOMAIN sessions' = DOMAIN sessions,
         \A s \in DOMAIN sessions :
           /\ sessions'[s].manifest = sessions[s].manifest
           /\ sessions'[s].stage = "running" =>
                /\ sessions[s].stage = "running"
                /\ sessions'[s].interrupted = sessions[s].interrupted
                /\ manifests'[sessions[s].manifest].state \in {"queued", "in_flight"}
  PROVE  Running'
BY DEF Running

LEMMA RunningSame ==
  ASSUME Running, sessions' = sessions, manifests' = manifests
  PROVE  Running'
BY DEF Running

\* a session that stops running
LEMMA RunningTouched ==
  ASSUME SessionInv, Running, NEW s \in DOMAIN sessions, NEW stage, stage # "running",
         NEW why, NEW approved, Touched(s, stage, why, sessions[s].manifest, approved),
         \A m \in DOMAIN manifests : manifests'[m].state = manifests[m].state
  PROVE  Running'
<1>1. DOMAIN sessions' = DOMAIN sessions
  BY SeqLen DEF SessionInv, Typed, Touched
<1>2. \A t \in DOMAIN sessions : sessions[t].stage = "running" =>
        sessions[t].manifest \in DOMAIN manifests
  BY Numbers, SeqLen DEF Running, SessionInv, Typed
<1> QED
  BY <1>1, <1>2, RunningKept DEF Touched, Running

\* a manifest that no running session names, or one that goes on
LEMMA RunningChanged ==
  ASSUME SessionInv, Running, sessions' = sessions, NEW m, NEW state, NEW approval,
         Changed(m, state, approval),
         \/ state \in {"queued", "in_flight"}
         \/ state = manifests[m].state
         \/ \A s \in DOMAIN sessions : sessions[s].stage = "running" => sessions[s].manifest # m
  PROVE  Running'
<1>1. \A t \in DOMAIN sessions : sessions[t].stage = "running" =>
        sessions[t].manifest \in DOMAIN manifests
  BY Numbers, SeqLen DEF Running, SessionInv, Typed
<1>2. ASSUME NEW t \in DOMAIN sessions, sessions[t].stage = "running"
      PROVE  manifests'[sessions[t].manifest].state \in {"queued", "in_flight"}
  <2>1. manifests[sessions[t].manifest].state \in {"queued", "in_flight"}
    BY <1>2 DEF Running
  <2> QED
    BY <1>1, <1>2, <2>1 DEF Changed
<1> QED
  BY <1>2, RunningKept

LEMMA MergeLeaves ==
  ASSUME Alone, NEW p \in Procs, Went(p, "idle"), mem'[p] = NoMem, Running'
  PROVE  MergeInv'
<1>1. pc'[p] = "idle" /\ mem'[p].read.manifest = 0
  BY DEF Went, NoMem, NewSession
<1>2. Current(p)' /\ pc'[p] \notin Owning
  BY <1>1 DEF Current, Owning, Undecided
<1> QED
  BY <1>2 DEF MergeInv, Alone

\* labels at which a process claims nothing
LEMMA MergeGoes ==
  ASSUME Alone, NEW p \in Procs, NEW label, Went(p, label), label \in Recovering, Running'
  PROVE  MergeInv'
<1>1. pc'[p] = label
  BY DEF Went
<1>2. Current(p)' /\ pc'[p] \notin Owning
  BY <1>1 DEF Current, Owning, Undecided, Recovering
<1> QED
  BY <1>2 DEF MergeInv, Alone

LEMMA MergeOwner ==
  ASSUME Alone, NEW p \in Procs, NEW label, Went(p, label), 
         label \in Owning \ {"supersede", "superseding", "resave"},
         Owned(p)', Running'
  PROVE  MergeInv'
<1>1. pc'[p] = label
  BY DEF Went
<1>2. Current(p)'
  BY <1>1 DEF Current, Owning, Undecided
<1> QED
  BY <1>2 DEF MergeInv, Alone

\* where a run is, as far as merges are concerned
LEMMA RunPlace ==
  ASSUME SessionInv, MergeInv, NEW p \in Procs, pc[p] \in Owning
  PROVE  /\ Owned(p) /\ Current(p) /\ Running
         /\ mem[p].manifest \in DOMAIN manifests /\ mem[p].manifest # 0
         /\ mem[p].session \in DOMAIN sessions
         /\ pc[p] \in {"submit", "decide", "merging", "rejecting", "close"} =>
              \A s \in DOMAIN sessions :
                sessions[s].stage = "running" => sessions[s].manifest # mem[p].manifest
<1>1. mem[p].manifest \in DOMAIN manifests /\ mem[p].manifest # 0
  BY Place DEF Fits
<1>2. pc[p] \in RunLabels
  BY DEF Owning, Undecided, RunLabels
<1>3. mem[p].session \in DOMAIN sessions
  BY <1>2, Place
<1> QED
  BY <1>1, <1>3 DEF MergeInv, Owned

LEMMA MergeCommand ==
  ASSUME SessionInv, MergeInv, Orderly, Alone, NEW p \in Procs, Build(p) \/ Continue(p)
  PROVE  MergeInv'
<1>1. CASE Build(p)
  <2>1. /\ Went(p, "prepare") /\ pc[p] = "idle" /\ mem'[p].read = mem[p].read
        /\ sessions' = Append(sessions, NewSession) /\ NewSession \in SessionRecords
        /\ manifests' = manifests
    BY <1>1, BuildKeeps
  <2>2. /\ sessions \in Seq(SessionRecords) /\ DOMAIN sessions = 1..Len(sessions)
        /\ Len(sessions) \in Nat
    BY Place
  <2>3. /\ sessions' \in Seq(SessionRecords) /\ Len(sessions') = Len(sessions) + 1
        /\ sessions'[Len(sessions) + 1] = NewSession
        /\ \A s \in DOMAIN sessions : sessions'[s] = sessions[s]
    BY <2>1, <2>2, SeqAppend
  <2>4. DOMAIN sessions' = 1..(Len(sessions) + 1)
    BY <2>3, SeqLen
  <2>5. \A s \in DOMAIN sessions' :
          \/ s \in DOMAIN sessions /\ sessions'[s] = sessions[s]
          \/ s = Len(sessions) + 1 /\ sessions'[s].stage # "running" /\ sessions'[s].manifest = 0
    BY <2>2, <2>3, <2>4 DEF NewSession
  <2>6. Running'
    BY <2>1, <2>5 DEF MergeInv, Running
  <2>7. pc'[p] = "prepare" /\ mem'[p].read.manifest = 0
    BY <2>1 DEF Went, MergeInv, Current
  <2>8. Current(p)' /\ pc'[p] \notin Owning
    BY <2>7 DEF Current, Owning, Undecided
  <2> QED
    BY <2>6, <2>8 DEF MergeInv, Alone
<1>2. CASE Continue(p)
  <2>1. /\ Went(p, "reload") /\ pc[p] = "idle" /\ mem'[p].read = mem[p].read
        /\ sessions' = sessions /\ manifests' = manifests
    BY <1>2, ContinueKeeps
  <2>2. pc'[p] = "reload" /\ mem'[p].read.manifest = 0
    BY <2>1 DEF Went, MergeInv, Current
  <2>3. Current(p)' /\ pc'[p] \notin Owning
    BY <2>2 DEF Current, Owning, Undecided
  <2>4. Running'
    BY <2>1, RunningSame DEF MergeInv
  <2> QED
    BY <2>3, <2>4 DEF MergeInv, Alone
<1> QED
  BY <1>1, <1>2

LEMMA MergeEarly ==
  ASSUME SessionInv, MergeInv, Orderly, Alone, NEW p \in Procs,
         \/ Reload(p) \/ CreateManifest(p) \/ Supersede(p)
         \/ SupersedeRow(p) \/ SupersedeManifest(p)
         \/ WriteContract(p) \/ MarkRunning(p) \/ Launch(p)
  PROVE  MergeInv'
<1>1. CASE CreateManifest(p)
  <2> DEFINE m == Len(manifests) + 1
  <2>1. /\ Went(p, "supersede") /\ pc[p] = "prepare"
        /\ mem'[p].manifest = m /\ mem'[p].session = mem[p].session
        /\ mem'[p].read = mem[p].read
        /\ manifests'[m].state = "queued"
        /\ \A n \in DOMAIN manifests : manifests'[n] = manifests[n]
        /\ sessions' = sessions
    BY <1>1, CreateManifestKeeps
  <2>2. pc'[p] = "supersede"
    BY <2>1 DEF Went
  <2>3. \A s \in DOMAIN sessions : sessions[s].manifest # m
    <3>1. Len(manifests) \in Nat
      BY Place
    <3> QED
      BY <3>1, Numbers
  <2>4. \A s \in DOMAIN sessions : sessions[s].stage = "running" =>
          sessions[s].manifest \in DOMAIN manifests
    BY Numbers, SeqLen DEF MergeInv, Running, SessionInv, Typed
  <2>5. Running'
    BY <2>1, <2>4 DEF MergeInv, Running
  <2>6. Current(p)'
    BY <2>1, <2>2 DEF MergeInv, Current
  <2> HIDE DEF m
  <2>7. Owned(p)'
    BY <2>1, <2>2, <2>3 DEF Owned, Unmarked, Locking
  <2> QED
    BY <2>5, <2>6, <2>7 DEF MergeInv, Alone
<1>2. CASE Supersede(p)
  <2>1. /\ mem' = mem /\ pc[p] = "supersede"
        /\ \/ Went(p, "contract")
           \/ /\ Went(p, "superseding") /\ Interrupted(mem[p].read)
              /\ manifests[mem[p].read.manifest].state # "merged"
        /\ sessions' = sessions /\ manifests' = manifests
    BY <1>2, SupersedeKeeps
  <2>2. Running' /\ pc[p] \in Owning
    BY <2>1, RunningSame DEF MergeInv, Owning, Undecided
  <2>3. Owned(p)'
    BY <2>1, <2>2, RunPlace DEF Owned, Unmarked, Locking, Went
  <2>4. Current(p)'
    BY <2>1, <2>2, RunPlace DEF Current, Went, Interrupted
  <2> QED
    BY <2>2, <2>3, <2>4 DEF MergeInv, Alone
<1>5. CASE SupersedeRow(p) \/ SupersedeManifest(p)
  <2> DEFINE m == mem[p].read.manifest
             own == mem[p].session
  <2>1. /\ mem' = mem
        /\ \/ pc[p] = "superseding" /\ Went(p, "resave")
           \/ pc[p] = "resave" /\ Went(p, "contract")
        /\ m \in DOMAIN manifests /\ Changed(m, "rejected", manifests[m].approval)
        /\ sessions' = sessions
    BY <1>5, SupersedeWritesKeeps
  <2>2. pc[p] \in Owning /\ pc[p] \in Unmarked /\ pc'[p] \in {"resave", "contract"}
    BY <2>1 DEF Went, Owning, Undecided, Unmarked
  <2>3. /\ own \in DOMAIN sessions /\ m # 0 /\ Interrupted(mem[p].read)
        /\ m = sessions[own].manifest /\ sessions[own].interrupted
    BY <2>1, <2>2, RunPlace, Place DEF Current, Interrupted
  <2>4. \A s \in DOMAIN sessions : sessions[s].stage = "running" => sessions[s].manifest # m
    BY <2>3 DEF MergeInv, Running
  <2>5. Running'
    BY <2>1, <2>4, RunningChanged DEF MergeInv
  <2>6. mem[p].manifest # m /\ mem[p].manifest \in DOMAIN manifests
    BY <2>2, <2>3, RunPlace DEF Owned
  <2>7. manifests'[mem[p].manifest].state = manifests[mem[p].manifest].state
    BY <2>1, <2>6 DEF Changed
  <2>8. Owned(p)'
    BY <2>1, <2>2, <2>7, RunPlace DEF Owned, Unmarked, Locking
  <2>9. Current(p)'
    <3>1. manifests'[m].state # "merged"
      BY <2>1 DEF Changed
    <3> QED
      BY <2>1, <2>2, <2>3, <3>1, RunPlace DEF Current, Interrupted
  <2> QED
    BY <2>5, <2>8, <2>9 DEF MergeInv, Alone
<1>6. CASE WriteContract(p)
  <2>1. /\ Went(p, "mark") /\ mem' = mem /\ pc[p] = "contract"
        /\ sessions' = sessions /\ manifests' = manifests
    BY <1>6, WriteContractKeeps
  <2>2. Running' /\ pc[p] \in Owning /\ pc'[p] = "mark"
    BY <2>1, RunningSame DEF MergeInv, Owning, Undecided, Went
  <2>3. Owned(p)'
    BY <2>1, <2>2, RunPlace DEF Owned, Unmarked, Locking
  <2> QED
    BY <2>1, <2>2, <2>3, MergeOwner DEF Owning, Undecided
<1>7. CASE Reload(p)
  <2>1. /\ Went(p, "prepare") /\ mem'[p].session = mem[p].session
        /\ mem'[p].read = sessions[mem[p].session]
        /\ sessions' = sessions /\ manifests' = manifests
    BY <1>7, ReloadKeeps
  <2>2. pc'[p] = "prepare"
    BY <2>1 DEF Went
  <2>3. Current(p)' /\ pc'[p] \notin Owning
    BY <2>1, <2>2 DEF Current, Owning, Undecided
  <2>4. Running'
    BY <2>1, RunningSame DEF MergeInv
  <2> QED
    BY <2>3, <2>4 DEF MergeInv, Alone
<1>3. CASE MarkRunning(p)
  <2> DEFINE own == mem[p].session
             m == mem[p].manifest
  <2>1. /\ Went(p, "launch") /\ mem' = mem /\ pc[p] = "mark"
        /\ Touched(own, "running", "execution_started", m, sessions[own].approved)
        /\ ~sessions'[own].interrupted
        /\ manifests' = manifests
    BY <1>3, MarkRunningKeeps
  <2>2. pc'[p] = "launch" /\ pc[p] \in Owning
    BY <2>1 DEF Went, Owning, Undecided
  <2>3. /\ own \in DOMAIN sessions /\ m \in DOMAIN manifests /\ m # 0
        /\ manifests[m].state = "queued"
        /\ \A s \in DOMAIN sessions : sessions[s].manifest # m
    BY <2>1, <2>2, RunPlace DEF Owned, Unmarked
  <2>4. DOMAIN sessions' = DOMAIN sessions
    BY <2>1, SeqLen DEF SessionInv, Typed, Touched
  <2>5. /\ sessions'[own].stage = "running" /\ ~sessions'[own].interrupted
        /\ sessions'[own].manifest = m
        /\ \A s \in DOMAIN sessions \ {own} : sessions'[s] = sessions[s]
    BY <2>1 DEF Touched
  <2>6. m >= 1
    BY <2>3, Place
  <2> HIDE DEF own, m
  <2>7. Running'
    BY <2>1, <2>3, <2>4, <2>5, <2>6 DEF MergeInv, Running
  <2>8. Owned(p)'
    BY <2>1, <2>2, <2>3, <2>4, <2>5 DEF Owned, Unmarked, Locking, own, m
  <2> QED
    BY <2>1, <2>7, <2>8, MergeOwner DEF Owning, Undecided
<1>4. CASE Launch(p)
  <2>1. /\ Went(p, "scan") /\ mem' = mem /\ pc[p] = "launch"
        /\ Changed(mem[p].manifest, "in_flight", manifests[mem[p].manifest].approval)
        /\ sessions' = sessions
    BY <1>4, LaunchKeeps
  <2>2. pc'[p] = "scan" /\ pc[p] \in Owning
    BY <2>1 DEF Went, Owning, Undecided
  <2>3. Running'
    BY <2>1, RunningChanged DEF MergeInv
  <2>4. manifests'[mem[p].manifest].state = "in_flight"
    BY <2>1 DEF Changed
  <2>5. Owned(p)'
    BY <2>1, <2>2, <2>4, RunPlace DEF Owned, Unmarked, Locking
  <2> QED
    BY <2>1, <2>3, <2>5, MergeOwner DEF Owning, Undecided
<1> QED
  BY <1>1, <1>2, <1>3, <1>4, <1>5, <1>6, <1>7

LEMMA MergeMiddle ==
  ASSUME SessionInv, MergeInv, Orderly, Alone, NEW p \in Procs,
         \/ RuntimeMissing(p) \/ ScanStops(p) \/ RuntimeFailed(p) \/ LockStep(p)
         \/ EvidenceReady(p) \/ RunRaises(p)
  PROVE  MergeInv'
<1>1. CASE RuntimeMissing(p) \/ ScanStops(p) \/ RuntimeFailed(p)
  <2>1. \E why :
          why \in Reasons /\ pc[p] \in {"prepare", "scan", "submit"} /\ Ends(p, "blocked", why)
    <3>1. {"runtime_missing", "runtime_failed"} \subseteq Reasons
      BY DEF Reasons
    <3> QED
      BY <1>1, <3>1 DEF RuntimeMissing, ScanStops, RuntimeFailed, At
  <2>2. PICK why :
          why \in Reasons /\ pc[p] \in {"prepare", "scan", "submit"} /\ Ends(p, "blocked", why)
    BY <2>1
  <2>3. pc[p] \in RunLabels \cup RecoverLabels /\ "blocked" \in Stages \ {"completed"}
    BY <2>2 DEF RunLabels, Stages
  <2>4. /\ Went(p, "idle") /\ mem'[p] = NoMem
        /\ Touched(mem[p].session, "blocked", why, sessions[mem[p].session].manifest,
                    sessions[mem[p].session].approved)
        /\ manifests' = manifests
    BY <2>2, <2>3, EndsKeeps
  <2>5. mem[p].session \in DOMAIN sessions
    BY <2>3, Place
  <2>6. Running'
    BY <2>4, <2>5, RunningTouched DEF MergeInv
  <2> QED
    BY <2>4, <2>6, MergeLeaves
<1>2. CASE LockStep(p)
  <2>1. /\ mem' = mem /\ pc[p] \in Locking
        /\ \E label \in {"write_lock", "runtime", "find_lock", "read_lock", "unlink",
                         "verify"} : Went(p, label)
        /\ sessions' = sessions /\ manifests' = manifests
    BY <1>2, LockStepKeeps DEF Locking
  <2>2. PICK label \in {"write_lock", "runtime", "find_lock", "read_lock", "unlink",
                        "verify"} : Went(p, label)
    BY <2>1
  <2>3. /\ pc'[p] = label /\ pc[p] \in Owning
        /\ label \in Owning \ {"supersede", "superseding", "resave"}
    BY <2>1, <2>2 DEF Went, Owning, Undecided, Locking
  <2>4. Running'
    BY <2>1, RunningSame DEF MergeInv
  <2>5. Owned(p)'
    BY <2>1, <2>2, <2>3, RunPlace DEF Owned, Unmarked, Locking
  <2> QED
    BY <2>2, <2>3, <2>4, <2>5, MergeOwner
<1>4. CASE RunRaises(p)
  <2>1. Quits(p)
    BY <1>4 DEF RunRaises
  <2> QED
    BY <2>1, QuitsKeeps, RunningSame, MergeLeaves DEF MergeInv
<1>5. CASE EvidenceReady(p)
  <2> DEFINE own == mem[p].session
  <2>1. /\ Went(p, "submit") /\ mem' = mem /\ pc[p] = "verify"
        /\ Touched(own, "awaiting_review", "evidence_ready", sessions[own].manifest,
                   sessions[own].approved)
        /\ manifests' = manifests
    BY <1>5, EvidenceReadyKeeps
  <2>2. pc'[p] = "submit" /\ pc[p] \in Owning
    BY <2>1 DEF Went, Owning, Undecided
  <2>3. own \in DOMAIN sessions /\ Owned(p)
    BY <2>2, RunPlace
  <2>4. Running'
    BY <2>1, <2>3, RunningTouched DEF MergeInv
  <2>5. DOMAIN sessions' = DOMAIN sessions
    BY <2>1, SeqLen DEF SessionInv, Typed, Touched
  <2>6. Owned(p)'
    BY <2>1, <2>2, <2>3, <2>5 DEF Owned, Unmarked, Locking, Touched
  <2> QED
    BY <2>1, <2>4, <2>6, MergeOwner DEF Owning, Undecided
<1> QED
  BY <1>1, <1>2, <1>4, <1>5

LEMMA MergeLate ==
  ASSUME SessionInv, MergeInv, Orderly, Alone, NEW p \in Procs,
         \/ Submit(p) \/ Merge(p) \/ MergeBlocked(p) \/ Reject(p) \/ Close(p)
         \/ UserDecides(p)
  PROVE  MergeInv'
<1>1. CASE Submit(p)
  <2>1. /\ Went(p, "decide") /\ mem' = mem /\ pc[p] = "submit"
        /\ Changed(mem[p].manifest, "under_review", manifests[mem[p].manifest].approval)
        /\ sessions' = sessions
    BY <1>1, SubmitKeeps
  <2>2. pc'[p] = "decide" /\ pc[p] \in Owning
    BY <2>1 DEF Went, Owning, Undecided
  <2>3. Running'
    BY <2>1, <2>2, RunPlace, RunningChanged
  <2>4. manifests'[mem[p].manifest].state = "under_review"
    BY <2>1 DEF Changed
  <2>5. Owned(p)'
    BY <2>1, <2>2, <2>4, RunPlace DEF Owned, Unmarked, Locking
  <2> QED
    BY <2>1, <2>3, <2>5, MergeOwner DEF Owning, Undecided
<1>2. CASE Merge(p) \/ MergeBlocked(p) \/ Reject(p)
  <2>1. {"merged", "approved", "rejected"} \subseteq ManifestStates
    BY DEF ManifestStates
  <2>2. /\ Went(p, "close") /\ pc[p] \in {"merging", "rejecting"}
        /\ mem'[p].session = mem[p].session /\ mem'[p].manifest = mem[p].manifest
        /\ \E state : Changed(mem[p].manifest, state, manifests[mem[p].manifest].approval)
        /\ sessions' = sessions
    BY <1>2, <2>1, ConcludesKeeps DEF Merge, MergeBlocked, Reject
  <2>3. pc'[p] = "close" /\ pc[p] \in Owning
    BY <2>2 DEF Went, Owning, Undecided
  <2>4. Running'
    BY <2>2, <2>3, RunPlace, RunningChanged
  <2>5. Owned(p)'
    BY <2>2, <2>3, RunPlace DEF Owned, Unmarked, Locking
  <2> QED
    BY <2>2, <2>4, <2>5, MergeOwner DEF Owning, Undecided
<1>3. CASE Close(p)
  <2> DEFINE own == mem[p].session
  <2>1. /\ Went(p, "idle") /\ mem'[p] = NoMem /\ pc[p] = "close"
        /\ \E stage \in {"completed", "blocked"} :
             Touched(own, stage, mem[p].outcome, sessions[own].manifest, mem[p].manifest)
        /\ manifests' = manifests
    BY <1>3, CloseKeeps
  <2>2. own \in DOMAIN sessions
    BY <2>1, Place DEF RunLabels
  <2>3. Running'
    BY <2>1, <2>2, RunningTouched DEF MergeInv
  <2> QED
    BY <2>1, <2>3, MergeLeaves
<1>4. CASE Abort(p)
  <2>1. Quits(p)
    BY <1>4 DEF Abort
  <2> QED
    BY <2>1, QuitsKeeps, RunningSame, MergeLeaves DEF MergeInv
<1>5. CASE \E choice \in {"approve", "reject"} : Decide(p, choice)
  <2>1. PICK choice \in {"approve", "reject"} : Decide(p, choice)
    BY <1>5
  <2> DEFINE to == IF choice = "approve" THEN "merging" ELSE "rejecting"
  <2>2. /\ mem' = mem /\ pc[p] = "decide" /\ Went(p, to)
        /\ Changed(mem[p].manifest, manifests[mem[p].manifest].state, choice)
        /\ sessions' = sessions
    BY <2>1, DecideKeeps
  <2>3. to \in {"merging", "rejecting"}
    OBVIOUS
  <2> HIDE DEF to
  <2>4. pc'[p] = to /\ pc[p] \in Owning
    BY <2>2 DEF Went, Owning, Undecided
  <2>5. Running'
    BY <2>2, RunningChanged DEF MergeInv
  <2>6. manifests'[mem[p].manifest].state = manifests[mem[p].manifest].state
    BY <2>2 DEF Changed
  <2>7. Owned(p)'
    BY <2>2, <2>3, <2>4, <2>6, RunPlace DEF Owned, Unmarked, Locking
  <2> QED
    BY <2>2, <2>3, <2>5, <2>7, MergeOwner DEF Owning, Undecided
<1> QED
  BY <1>1, <1>2, <1>3, <1>4, <1>5 DEF UserDecides

LEMMA MergeReconcile ==
  ASSUME SessionInv, MergeInv, Orderly, Alone, NEW p \in Procs,
         Status(p) \/ Recover(p) \/ CheckLock(p) \/ BlockSession(p) \/ RejectRow(p)
  PROVE  MergeInv'
<1>1. CASE Status(p) \/ Recover(p)
  <2>1. \E mode \in {"no", "evidence", "complete"} :
          /\ Inspect(p, mode)
          /\ mode # "no" => "recover" \in Commands
          /\ mode = "no" => sessions[Len(sessions)].stage = "running"
    BY <1>1 DEF Status, Recover, Latest
  <2>2. /\ \/ Went(p, "check_lock") /\ sessions[Len(sessions)].stage = "running"
           \/ Went(p, "plan")
        /\ mem'[p].session = Len(sessions) /\ mem'[p].read = sessions[Len(sessions)]
        /\ sessions' = sessions /\ manifests' = manifests
    BY <2>1, InspectKeeps
  <2>3. Running'
    BY <2>2, RunningSame DEF MergeInv
  <2>4. CASE Went(p, "check_lock") /\ sessions[Len(sessions)].stage = "running"
    <3>1. pc'[p] = "check_lock"
      BY <2>4 DEF Went
    <3>2. Current(p)' /\ pc'[p] \notin Owning
      BY <2>2, <2>4, <3>1 DEF Current, Owning, Undecided
    <3> QED
      BY <2>3, <3>2 DEF MergeInv, Alone
  <2>5. CASE Went(p, "plan")
    BY <2>3, <2>5, MergeGoes DEF Recovering
  <2> QED
    BY <2>2, <2>4, <2>5
<1>2. CASE CheckLock(p)
  <2>1. /\ pc[p] = "check_lock" /\ sessions' = sessions /\ manifests' = manifests
    BY <1>2, CheckLockKeeps
  <2>2. Running'
    BY <2>1, RunningSame DEF MergeInv
  <2>3. CASE Went(p, "block") /\ mem' = mem
    <3>1. pc'[p] = "block"
      BY <2>3 DEF Went
    <3>2. Current(p)' /\ pc'[p] \notin Owning
      BY <2>1, <2>3, <3>1 DEF MergeInv, Current, Owning, Undecided
    <3> QED
      BY <2>2, <3>2 DEF MergeInv, Alone
  <2>4. CASE Went(p, "plan")
    BY <2>2, <2>4, MergeGoes DEF Recovering
  <2>5. CASE Went(p, "idle") /\ mem'[p] = NoMem
    BY <2>2, <2>5, MergeLeaves
  <2> QED
    BY <1>2, <2>3, <2>4, <2>5, CheckLockKeeps
<1>3. CASE BlockSession(p)
  <2> DEFINE own == mem[p].session
             m == mem[p].read.manifest
  <2>1. /\ Went(p, "reject_row") /\ mem' = mem /\ pc[p] = "block"
        /\ Touched(own, "blocked", "runtime_interrupted", sessions[own].manifest,
                   sessions[own].approved)
        /\ manifests' = manifests
    BY <1>3, BlockSessionKeeps
  <2>2. pc'[p] = "reject_row" /\ own \in DOMAIN sessions
    BY <2>1, Place DEF Went, RecoverLabels
  <2>3. Running'
    BY <2>1, <2>2, RunningTouched DEF MergeInv
  <2>4. m = sessions[own].manifest /\ sessions[own].stage = "running"
    BY <2>1 DEF MergeInv, Current
  <2>5. m \in DOMAIN manifests /\ manifests[m].state \in {"queued", "in_flight"}
    BY <2>2, <2>4, Numbers, SeqLen DEF MergeInv, Running, SessionInv, Typed
  <2>6. manifests'[m].state # "merged"
    BY <2>1, <2>5
  <2>7. sessions'[own].stage # "running" /\ sessions'[own].manifest = m
    BY <2>1, <2>4 DEF Touched
  <2>8. Current(p)' /\ pc'[p] \notin Owning
    BY <2>1, <2>2, <2>6, <2>7 DEF Current, Owning, Undecided
  <2> QED
    BY <2>3, <2>8 DEF MergeInv, Alone
<1>4. CASE RejectRow(p)
  <2> DEFINE own == mem[p].session
             m == mem[p].read.manifest
  <2>1. /\ Went(p, "idle") /\ mem'[p] = NoMem /\ pc[p] = "reject_row" /\ sessions' = sessions
        /\ \/ manifests' = manifests
           \/ m \in DOMAIN manifests /\ Changed(m, "rejected", manifests[m].approval)
    BY <1>4, RejectRowKeeps
  <2>2. CASE manifests' = manifests
    BY <2>1, <2>2, RunningSame, MergeLeaves DEF MergeInv
  <2>3. CASE m \in DOMAIN manifests /\ Changed(m, "rejected", manifests[m].approval)
    <3>1. own \in DOMAIN sessions /\ m # 0
      BY <2>1, <2>3, Place DEF RecoverLabels
    <3>2. m = sessions[own].manifest /\ sessions[own].stage # "running"
      BY <2>1 DEF MergeInv, Current
    <3>3. \A s \in DOMAIN sessions : sessions[s].stage = "running" => sessions[s].manifest # m
      BY <3>1, <3>2 DEF MergeInv, Running
    <3>4. Running'
      BY <2>1, <2>3, <3>3, RunningChanged DEF MergeInv
    <3> QED
      BY <2>1, <3>4, MergeLeaves
  <2> QED
    BY <2>1, <2>2, <2>3
<1> QED
  BY <1>1, <1>2, <1>3, <1>4

LEMMA MergeRecover ==
  ASSUME SessionInv, MergeInv, Orderly, Alone, NEW p \in Procs,
         \/ Plan(p) \/ RerunFails(p) \/ RerunPasses(p) \/ Attach(p)
         \/ AutoApprove(p) \/ AutoComplete(p) \/ Die(p)
  PROVE  MergeInv'
<1>1. CASE Plan(p)
  <2>1. /\ \/ Went(p, "idle") /\ mem'[p] = NoMem
           \/ Went(p, "rerun")
        /\ sessions' = sessions /\ manifests' = manifests
    BY <1>1, PlanKeeps
  <2> QED
    BY <2>1, RunningSame, MergeLeaves, MergeGoes DEF MergeInv, Recovering
<1>2. CASE RerunFails(p) \/ Attach(p)
  <2>1. \E stage, why :
          /\ stage \in Stages \ {"completed"} /\ stage # "running" /\ why \in Reasons
          /\ pc[p] \in {"rerun", "attach"} /\ Ends(p, stage, why)
    <3>1. /\ {"blocked", "awaiting_review"} \subseteq Stages \ {"completed"}
          /\ {"recovery_verification_failed", "self_recovery_evidence_ready"} \subseteq Reasons
      BY DEF Stages, Reasons
    <3> QED
      BY <1>2, <3>1 DEF RerunFails, Attach, At
  <2>2. PICK stage, why :
          /\ stage \in Stages \ {"completed"} /\ stage # "running" /\ why \in Reasons
          /\ pc[p] \in {"rerun", "attach"} /\ Ends(p, stage, why)
    BY <2>1
  <2>3. pc[p] \in RunLabels \cup RecoverLabels
    BY <2>2 DEF RecoverLabels
  <2>4. /\ Went(p, "idle") /\ mem'[p] = NoMem
        /\ Touched(mem[p].session, stage, why, sessions[mem[p].session].manifest,
                    sessions[mem[p].session].approved)
        /\ manifests' = manifests
    BY <2>2, <2>3, EndsKeeps
  <2>5. mem[p].session \in DOMAIN sessions
    BY <2>3, Place
  <2>6. Running'
    BY <2>2, <2>4, <2>5, RunningTouched DEF MergeInv
  <2> QED
    BY <2>4, <2>6, MergeLeaves
<1>3. CASE RerunPasses(p)
  <2>1. /\ \/ Went(p, "idle") /\ mem'[p] = NoMem
           \/ Went(p, "approve") \/ Went(p, "attach")
        /\ sessions' = sessions /\ manifests' = manifests
    BY <1>3, RerunPassesKeeps
  <2> QED
    BY <2>1, RunningSame, MergeLeaves, MergeGoes DEF MergeInv, Recovering
<1>4. CASE AutoApprove(p)
  <2>1. /\ Went(p, "complete") /\ sessions' = sessions
        /\ Changed(Target(mem[p].read), manifests[Target(mem[p].read)].state, "approve")
    BY <1>4, AutoApproveKeeps
  <2>2. Running'
    BY <2>1, RunningChanged DEF MergeInv
  <2> QED
    BY <2>1, <2>2, MergeGoes DEF Recovering
<1>5. CASE AutoComplete(p)
  <2> DEFINE own == mem[p].session
  <2>1. /\ Went(p, "idle") /\ mem'[p] = NoMem /\ pc[p] = "complete"
        /\ Touched(own, "completed", "self_recovery_completed", sessions[own].manifest,
                   Target(mem[p].read))
        /\ manifests' = manifests
    BY <1>5, AutoCompleteKeeps
  <2>2. own \in DOMAIN sessions
    BY <2>1, Place DEF RecoverLabels
  <2>3. Running'
    BY <2>1, <2>2, RunningTouched DEF MergeInv
  <2> QED
    BY <2>1, <2>3, MergeLeaves
<1>6. CASE Die(p)
  <2>1. /\ Went(p, "idle") /\ mem'[p] = NoMem /\ sessions' = sessions /\ manifests' = manifests
    BY <1>6, DieKeeps
  <2> QED
    BY <2>1, RunningSame, MergeLeaves DEF MergeInv
<1> QED
  BY <1>1, <1>2, <1>3, <1>4, <1>5, <1>6

LEMMA AgeKeepsMerges ==
  ASSUME SessionInv, MergeInv, GetsOld
  PROVE  MergeInv'
<1>1. PICK s \in DOMAIN sessions :
        /\ sessions'[s].stage = sessions[s].stage
        /\ sessions'[s].interrupted = sessions[s].interrupted
        /\ sessions'[s].manifest = sessions[s].manifest
        /\ \A t \in DOMAIN sessions \ {s} : sessions'[t] = sessions[t]
  BY GetsOldKeeps
<1>2. /\ manifests' = manifests /\ pc' = pc /\ mem' = mem
      /\ DOMAIN sessions' = DOMAIN sessions
  BY GetsOldKeeps, SeqLen DEF SessionInv, Typed
<1>3. \A t \in DOMAIN sessions : /\ sessions'[t].stage = sessions[t].stage
                                 /\ sessions'[t].interrupted = sessions[t].interrupted
                                 /\ sessions'[t].manifest = sessions[t].manifest
  BY <1>1
<1>4. Running'
  BY <1>2, <1>3 DEF MergeInv, Running
<1>5. ASSUME NEW p \in Procs PROVE Current(p)' /\ (pc'[p] \in Owning => Owned(p)')
  <2>1. pc[p] \in RunLabels \cup RecoverLabels => mem[p].session \in DOMAIN sessions
    BY Place
  <2>2. Current(p)'
    BY <1>2, <1>3, <2>1 DEF MergeInv, Current, RunLabels, RecoverLabels
  <2>3. pc'[p] \in Owning => Owned(p)'
    BY <1>2, <1>3, <2>1 DEF MergeInv, Owned, RunLabels
  <2> QED
    BY <2>2, <2>3
<1> QED
  BY <1>4, <1>5 DEF MergeInv

LEMMA MergeInit == ASSUME Init PROVE MergeInv
<1>1. DOMAIN sessions = {}
  BY DEF Init
<1>2. \A p \in Procs : pc[p] = "idle" /\ mem[p].read.manifest = 0
  BY DEF Init, NoMem, NewSession
<1> QED
  BY <1>1, <1>2 DEF MergeInv, Running, Current, Owning, Undecided

LEMMA MergeNext ==
  ASSUME SessionInv, MergeInv, Orderly, Alone, Next
  PROVE  MergeInv'
<1>1. CASE GetsOld
  BY <1>1, AgeKeepsMerges
<1>2. ASSUME NEW p \in Procs, RunStep(p)
      PROVE  MergeInv'
  BY <1>2, MergeEarly, MergeMiddle, MergeLate DEF RunStep, LockStep
<1>3. ASSUME NEW p \in Procs, RecoverStep(p)
      PROVE  MergeInv'
  BY <1>3, MergeReconcile, MergeRecover DEF RecoverStep
<1>4. ASSUME NEW p \in Procs,
             Build(p) \/ Continue(p) \/ Status(p) \/ Recover(p) \/ UserDecides(p) \/ Die(p)
      PROVE  MergeInv'
  BY <1>4, MergeCommand, MergeReconcile, MergeLate, MergeRecover
<1> QED
  BY <1>1, <1>2, <1>3, <1>4 DEF Next

LEMMA MergeStutters == ASSUME MergeInv, UNCHANGED vars PROVE MergeInv'
BY DEF vars, stored, MergeInv, Running, Current, Owned

Stands ==
  \A m \in DOMAIN manifests : manifests[m].state = "merged" => manifests'[m].state = "merged"

LEMMA ChangedStands ==
  ASSUME NEW m, NEW state, NEW approval, Changed(m, state, approval),
         manifests[m].state # "merged" \/ state = manifests[m].state
  PROVE  Stands
BY DEF Changed, Stands

LEMMA RunStands ==
  ASSUME SessionInv, MergeInv, Orderly, NEW p \in Procs, RunStep(p)
  PROVE  Stands
<1>1. CASE \/ RuntimeMissing(p) \/ ScanStops(p) \/ RuntimeFailed(p) \/ RunRaises(p)
           \/ Reload(p) \/ Supersede(p) \/ WriteContract(p) \/ LockStep(p)
  <2>1. manifests' = manifests
    BY <1>1, LockStepKeeps DEF RuntimeMissing, ScanStops, RuntimeFailed, RunRaises, Ends,
                               Quits, Reload, Supersede, WriteContract, stored
  <2> QED
    BY <2>1 DEF Stands
<1>2. CASE MarkRunning(p) \/ EvidenceReady(p) \/ Close(p)
  BY <1>2, MarkRunningKeeps, EvidenceReadyKeeps, CloseKeeps DEF Stands
<1>3. CASE CreateManifest(p)
  BY <1>3, CreateManifestKeeps DEF Stands
<1>4. CASE SupersedeRow(p) \/ SupersedeManifest(p)
  <2>1. /\ pc[p] \in {"superseding", "resave"}
        /\ Changed(mem[p].read.manifest, "rejected",
                   manifests[mem[p].read.manifest].approval)
    BY <1>4, SupersedeWritesKeeps
  <2>2. manifests[mem[p].read.manifest].state # "merged"
    BY <2>1 DEF MergeInv, Current
  <2> QED
    BY <2>1, <2>2, ChangedStands
<1>5. CASE \/ Launch(p) \/ Submit(p) \/ Merge(p) \/ MergeBlocked(p) \/ Reject(p)
  <2>1. {"merged", "approved", "rejected"} \subseteq ManifestStates
    BY DEF ManifestStates
  <2>2. /\ pc[p] \in {"launch", "submit", "merging", "rejecting"}
        /\ \E state, approval : Changed(mem[p].manifest, state, approval)
    BY <1>5, <2>1, LaunchKeeps, SubmitKeeps, ConcludesKeeps DEF Merge, MergeBlocked, Reject
  <2>3. pc[p] \in Owning
    BY <2>2 DEF Owning, Undecided
  <2>4. manifests[mem[p].manifest].state # "merged"
    BY <2>2, <2>3, RunPlace DEF Owned, Unmarked, Locking
  <2> QED
    BY <2>2, <2>4, ChangedStands
<1> QED
  BY <1>1, <1>2, <1>3, <1>4, <1>5 DEF RunStep, LockStep

LEMMA RecoverStands ==
  ASSUME SessionInv, MergeInv, Orderly, NEW p \in Procs, RecoverStep(p)
  PROVE  Stands
<1>1. CASE \/ CheckLock(p) \/ Plan(p) \/ RerunFails(p) \/ RerunPasses(p) \/ Attach(p)
           \/ AutoComplete(p)
  <2>1. manifests' = manifests
    BY <1>1 DEF CheckLock, Plan, RerunFails, RerunPasses, Attach, AutoComplete, Ends, stored
  <2> QED
    BY <2>1 DEF Stands
<1>2. CASE BlockSession(p)
  BY <1>2, BlockSessionKeeps DEF Stands
<1>3. CASE RejectRow(p)
  <2>1. mem[p].read.manifest \in DOMAIN manifests => mem[p].read.manifest # 0
    BY Place
  <2>2. pc[p] = "reject_row" /\ Current(p)
    BY <1>3, RejectRowKeeps DEF MergeInv
  <2>3. \/ manifests' = manifests
        \/ /\ manifests[mem[p].read.manifest].state # "merged"
           /\ Changed(mem[p].read.manifest, "rejected",
                      manifests[mem[p].read.manifest].approval)
    BY <1>3, <2>1, <2>2, RejectRowKeeps DEF Current
  <2> QED
    BY <2>3, ChangedStands DEF Stands
<1>4. CASE AutoApprove(p)
  BY <1>4, AutoApproveKeeps, ChangedStands
<1> QED
  BY <1>1, <1>2, <1>3, <1>4 DEF RecoverStep

(* Commands given one after the other, dying anywhere: no reconciliation   *)
(* and no continued run takes back a merge, for any number of sessions,    *)
(* runs and deaths, because a session stops running before its manifest is *)
(* decided and a reconciler rejects only what a running session names.     *)
THEOREM MergesStand ==
  ASSUME Alone
  PROVE  Spec => MergeStands
<1> Orderly
  BY DEF Orderly
<1>1. SessionInv /\ MergeInv /\ [Next]_vars => SessionInv' /\ MergeInv'
  BY SessionNext, SessionStutters, MergeNext, MergeStutters
<1>2. Init => SessionInv /\ MergeInv
  BY SessionInit, MergeInit
<1>3. ASSUME SessionInv, MergeInv, Next PROVE Stands
  <2>1. ASSUME NEW p \in Procs, Build(p) \/ Continue(p) \/ Status(p) \/ Recover(p)
                                  \/ Abort(p) \/ Die(p)
        PROVE  Stands
    <3>1. manifests' = manifests
      BY <2>1 DEF Build, Continue, Status, Recover, Inspect, Abort, Quits, Die, stored
    <3> QED
      BY <3>1 DEF Stands
  <2>2. ASSUME NEW p \in Procs, NEW choice \in {"approve", "reject"}, Decide(p, choice)
        PROVE  Stands
    <3> DEFINE m == mem[p].manifest
               state == manifests[m].state
    <3>1. Changed(m, state, choice)
      BY <1>3, <2>2, DecideKeeps
    <3> QED
      BY <3>1, ChangedStands, Zenon
  <2>3. CASE GetsOld
    BY <2>3 DEF GetsOld, Stands
  <2> QED
    BY <1>3, <2>1, <2>2, <2>3, RunStands, RecoverStands DEF Next, UserDecides
<1>4. SessionInv /\ MergeInv /\ [Next]_vars =>
        [\A m \in DOMAIN manifests :
           manifests[m].state = "merged" => manifests'[m].state = "merged"]_vars
  BY <1>3 DEF Stands
<1> QED
  BY <1>1, <1>2, <1>4, PTL DEF Spec, MergeStands
=============================================================================
