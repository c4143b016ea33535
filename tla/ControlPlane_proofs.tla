------------------------ MODULE ControlPlane_proofs ------------------------
(***************************************************************************)
(* Theorems about parts of the control plane.  AuditLedger, for every set  *)
(* of processes, projects and hashes: the inductive invariant says, beside *)
(* the properties themselves, that hashes are unique and where the head    *)
(* that a process has read lies in the table.  ProjectBootstrap, for any   *)
(* number of commands over one directory.  ReviewDispatch, for any rosters *)
(* and any number of findings.  CascadeInvalidation, for every finite      *)
(* graph: the search works off one distance after the other.               *)
(* LegacyRegister, for any number of users and any groups of candidates:   *)
(* the entry a command read is as it was read unless two have worked on it *)
(* (UsersInv), and what the review has behind it where it stands is in the *)
(* register (BuilderInv).  SpecStories, for any planners and files: the    *)
(* rows of a planner are those of the stories it has saved (PlanInv), the  *)
(* depth-first search of the validation and the queue of the build order   *)
(* answer what the relations say.                                          *)
(***************************************************************************)
EXTENDS AuditLedger, ProjectBootstrap, ReviewDispatch, CascadeInvalidation,
        LegacyRegister, SpecStories, TLAPS,
        IterationRules, FunctionTheorems, FiniteSetTheorems, SequenceTheorems

(* The rows of a project's table, the newest included.                     *)
LEMMA AppendFacts ==
  ASSUME NEW S, NEW s \in Seq(S), NEW e \in S
  PROVE  /\ Append(s, e) \in Seq(S)
         /\ Len(Append(s, e)) = Len(s) + 1
         /\ Len(s) \in Nat
         /\ DOMAIN s = 1..Len(s)
         /\ DOMAIN Append(s, e) = 1..(Len(s) + 1)
         /\ \A i \in 1..Len(s) : Append(s, e)[i] = s[i]
         /\ Append(s, e)[Len(s) + 1] = e
OBVIOUS

(* The head of a table is a hash or GENESIS.                               *)
LEMMA LastHashType ==
  ASSUME NEW s \in Seq(Entries)
  PROVE  LastHash(s) \in Hashes \cup {GENESIS}
<1>1. CASE s = <<>>
  BY <1>1 DEF LastHash
<1>2. CASE s # <<>>
  <2>1. Len(s) \in 1..Len(s) /\ DOMAIN s = 1..Len(s)
    BY <1>2
  <2>2. s[Len(s)] \in Entries
    BY <2>1
  <2> QED
    BY <1>2, <2>2 DEF LastHash, Entries
<1> QED
  BY <1>1, <1>2

(* Every state of the concurrent ledger has its type: the table holds      *)
(* entries, and each process a program counter, a head and a project.      *)
THEOREM TypeCorrect == Spec => []TypeOK
<1>1. Init => TypeOK
  BY DEF Init, TypeOK
<1>2. TypeOK /\ [Next]_vars => TypeOK'
  <2> SUFFICES ASSUME TypeOK, [Next]_vars
               PROVE  TypeOK'
    OBVIOUS
  <2>1. ASSUME NEW w \in Writers, NEW p \in Projects, ReadHead(w, p)
        PROVE  TypeOK'
    <3>1. LastHash(log[p]) \in Hashes \cup {GENESIS}
      BY LastHashType DEF TypeOK
    <3> QED
      BY <2>1, <3>1 DEF ReadHead, TypeOK
  <2>2. ASSUME NEW w \in Writers, NEW h \in Hashes, InsertRow(w, h)
        PROVE  TypeOK'
    <3> DEFINE e == [hash |-> h, prev |-> head[w], writer |-> w]
    <3>1. e \in Entries
      BY DEF TypeOK, Entries
    <3>2. log[target[w]] \in Seq(Entries) /\ target[w] \in Projects
      BY DEF TypeOK
    <3>3. Append(log[target[w]], e) \in Seq(Entries)
      BY <3>1, <3>2, AppendFacts
    <3>4. log' \in [Projects -> Seq(Entries)]
      BY <2>2, <3>3 DEF InsertRow, TypeOK
    <3> QED
      BY <2>2, <3>4 DEF InsertRow, TypeOK
  <2>3. ASSUME NEW w \in Writers, Abort(w)
        PROVE  TypeOK'
    BY <2>3 DEF Abort, TypeOK
  <2>4. CASE UNCHANGED vars
    BY <2>4 DEF vars, TypeOK
  <2> QED
    BY <2>1, <2>2, <2>3, <2>4 DEF Next
<1> QED
  BY <1>1, <1>2, PTL DEF Spec

-----------------------------------------------------------------------------

(* No hash occurs twice, in one project or in two.                         *)
HashesUnique ==
  \A p, q \in Projects : \A i \in DOMAIN log[p], j \in DOMAIN log[q] :
    log[p][i].hash = log[q][j].hash => p = q /\ i = j

(* A head that was read is GENESIS or the hash of a row still in the table.*)
PendingKnown ==
  \A w \in Writers : pc[w] = "hashing" =>
    \/ head[w] = GENESIS
    \/ \E j \in DOMAIN log[target[w]] : log[target[w]][j].hash = head[w]

(* It is the hash of a row at or below every row the process appended.     *)
OwnHeadFresh ==
  \A w \in Writers : pc[w] = "hashing" =>
    \A i \in DOMAIN log[target[w]] : log[target[w]][i].writer = w =>
      \E j \in DOMAIN log[target[w]] :
        i <= j /\ log[target[w]][j].hash = head[w]

IInv ==
  /\ TypeOK
  /\ HashesUnique
  /\ LinksPointBack
  /\ PendingKnown
  /\ OwnHeadFresh
  /\ NoSelfFork
  /\ InvalidOnlyIfForked

(* What one insert does to the table, row by row.                          *)
LEMMA InsertFacts ==
  ASSUME TypeOK, NEW w \in Writers, NEW h \in Hashes, InsertRow(w, h)
  PROVE  LET t == target[w]
             n == Len(log[t])
         IN  /\ t \in Projects
             /\ n \in Nat
             /\ DOMAIN log[t] = 1..n
             /\ DOMAIN log'[t] = 1..(n + 1)
             /\ \A i \in 1..n : log'[t][i] = log[t][i]
             /\ log'[t][n + 1] = [hash |-> h, prev |-> head[w], writer |-> w]
             /\ \A q \in Projects : q # t => log'[q] = log[q]
<1> DEFINE t == target[w]
           e == [hash |-> h, prev |-> head[w], writer |-> w]
<1>1. e \in Entries /\ log[t] \in Seq(Entries) /\ t \in Projects
  BY DEF TypeOK, Entries
<1>2. log' = [log EXCEPT ![t] = Append(log[t], e)]
  BY DEF InsertRow
<1>3. log'[t] = Append(log[t], e) /\ \A q \in Projects : q # t => log'[q] = log[q]
  BY <1>1, <1>2 DEF TypeOK
<1> QED
  BY <1>1, <1>3, AppendFacts

LEMMA IInvInit == Init => IInv
BY GenesisIsNoHash DEF Init, IInv, TypeOK, HashesUnique, LinksPointBack,
   PendingKnown, OwnHeadFresh, NoSelfFork, InvalidOnlyIfForked,
   VerifyIntegrity, Forked

(* Reading the head disturbs only what is said of the reader's head.       *)
LEMMA IInvReadHead ==
  ASSUME IInv, TypeOK', NEW w \in Writers, NEW p \in Projects, ReadHead(w, p)
  PROVE  IInv'
<1> USE DEF IInv
<1>1. /\ log' = log
      /\ \A v \in Writers \ {w} : head'[v] = head[v] /\ target'[v] = target[v]
                                   /\ pc'[v] = pc[v]
      /\ target'[w] = p /\ head'[w] = LastHash(log[p])
  BY DEF ReadHead, TypeOK
<1>2. Len(log[p]) \in Nat /\ DOMAIN log[p] = 1..Len(log[p])
  BY DEF TypeOK
<1>3. (log[p] = <<>> /\ LastHash(log[p]) = GENESIS /\ DOMAIN log[p] = {})
        \/ (Len(log[p]) \in DOMAIN log[p]
             /\ LastHash(log[p]) = log[p][Len(log[p])].hash)
  BY <1>2 DEF LastHash, TypeOK
<1>4. HashesUnique' /\ LinksPointBack' /\ NoSelfFork' /\ InvalidOnlyIfForked'
  BY <1>1 DEF HashesUnique, LinksPointBack, NoSelfFork, InvalidOnlyIfForked,
     VerifyIntegrity, Forked
<1>5. PendingKnown'
  BY <1>1, <1>3 DEF PendingKnown
<1>6. OwnHeadFresh'
  BY <1>1, <1>2, <1>3 DEF OwnHeadFresh
<1> QED
  BY <1>4, <1>5, <1>6

(* An aborted append leaves the table as it was and one process idle.      *)
LEMMA IInvAbort ==
  ASSUME IInv, TypeOK', NEW w \in Writers, Abort(w)
  PROVE  IInv'
<1> USE DEF IInv
<1>1. /\ log' = log /\ head' = head /\ target' = target
      /\ \A v \in Writers : pc'[v] = "hashing" => pc[v] = "hashing"
  BY DEF Abort, TypeOK
<1>2. HashesUnique' /\ LinksPointBack' /\ NoSelfFork' /\ InvalidOnlyIfForked'
  BY <1>1 DEF HashesUnique, LinksPointBack, NoSelfFork, InvalidOnlyIfForked,
     VerifyIntegrity, Forked
<1>3. PendingKnown' /\ OwnHeadFresh'
  BY <1>1 DEF PendingKnown, OwnHeadFresh
<1> QED
  BY <1>2, <1>3

(* The insert is where every part of the invariant is at stake.            *)
LEMMA IInvInsertRow ==
  ASSUME IInv, TypeOK', NEW w \in Writers, NEW h \in Hashes, InsertRow(w, h)
  PROVE  IInv'
<1> USE DEF IInv
<1> DEFINE t == target[w]
           n == Len(log[t])
           e == [hash |-> h, prev |-> head[w], writer |-> w]
<1>1. /\ t \in Projects /\ n \in Nat
      /\ DOMAIN log[t] = 1..n /\ DOMAIN log'[t] = 1..(n + 1)
      /\ \A i \in 1..n : log'[t][i] = log[t][i]
      /\ log'[t][n + 1] = e
      /\ \A q \in Projects : q # t => log'[q] = log[q]
  BY InsertFacts
<1>2. /\ pc[w] = "hashing" /\ head' = head /\ target' = target
      /\ \A v \in Writers : pc'[v] = "hashing" => v # w /\ pc[v] = "hashing"
  BY DEF InsertRow, TypeOK
<1>3. \A q \in Projects : \A i \in DOMAIN log[q] : log[q][i].hash # h
  BY DEF InsertRow, Fresh
<1>4. e.hash = h /\ e.prev = head[w] /\ e.writer = w
  OBVIOUS
<1> HIDE DEF t, n, e
<1>5. HashesUnique'
  <2> SUFFICES ASSUME NEW p \in Projects, NEW q \in Projects,
                      NEW i \in DOMAIN log'[p], NEW j \in DOMAIN log'[q],
                      log'[p][i].hash = log'[q][j].hash
               PROVE  p = q /\ i = j
    BY DEF HashesUnique
  <2>1. CASE p = t /\ q = t
    <3>1. CASE i \in 1..n /\ j \in 1..n
      BY <1>1, <2>1, <3>1 DEF HashesUnique
    <3>2. CASE i = n + 1 /\ j \in 1..n
      BY <1>1, <1>3, <1>4, <2>1, <3>2
    <3>3. CASE i \in 1..n /\ j = n + 1
      BY <1>1, <1>3, <1>4, <2>1, <3>3
    <3>4. CASE i = n + 1 /\ j = n + 1
      BY <2>1, <3>4
    <3> QED
      BY <1>1, <2>1, <3>1, <3>2, <3>3, <3>4
  <2>2. CASE p = t /\ q # t
    BY <1>1, <1>3, <1>4, <2>2 DEF HashesUnique
  <2>3. CASE p # t /\ q = t
    BY <1>1, <1>3, <1>4, <2>3 DEF HashesUnique
  <2>4. CASE p # t /\ q # t
    BY <1>1, <2>4 DEF HashesUnique
  <2> QED
    BY <2>1, <2>2, <2>3, <2>4
<1>6. LinksPointBack'
  <2> SUFFICES ASSUME NEW p \in Projects, NEW i \in DOMAIN log'[p],
                      log'[p][i].prev # GENESIS
               PROVE  \E j \in 1..(i - 1) : log'[p][j].hash = log'[p][i].prev
    BY DEF LinksPointBack
  <2>1. CASE p # t
    BY <1>1, <2>1 DEF LinksPointBack
  <2>2. CASE p = t /\ i \in 1..n
    <3>1. PICK j \in 1..(i - 1) : log[t][j].hash = log[t][i].prev
      BY <1>1, <2>2 DEF LinksPointBack
    <3> QED
      BY <1>1, <2>2, <3>1
  <2>3. CASE p = t /\ i = n + 1
    <3>1. PICK j \in DOMAIN log[t] : log[t][j].hash = head[w]
      BY <1>1, <1>2, <1>4, <2>3 DEF PendingKnown, t
    <3> QED
      BY <1>1, <1>4, <2>3, <3>1
  <2> QED
    BY <1>1, <2>1, <2>2, <2>3
<1>7. PendingKnown'
  <2> SUFFICES ASSUME NEW v \in Writers, pc'[v] = "hashing", head[v] # GENESIS
               PROVE  \E j \in DOMAIN log'[target[v]] :
                        log'[target[v]][j].hash = head[v]
    BY <1>2 DEF PendingKnown
  <2>1. target[v] \in Projects
    BY DEF TypeOK
  <2>2. PICK j \in DOMAIN log[target[v]] : log[target[v]][j].hash = head[v]
    BY <1>2 DEF PendingKnown
  <2>3. CASE target[v] = t
    <3>1. j \in 1..n /\ j \in 1..(n + 1)
      BY <1>1, <2>2, <2>3
    <3>2. log'[t][j] = log[t][j]
      BY <1>1, <3>1
    <3> QED
      BY <1>1, <2>2, <2>3, <3>1, <3>2
  <2>4. CASE target[v] # t
    BY <1>1, <2>1, <2>2, <2>4
  <2> QED
    BY <2>3, <2>4
<1>8. OwnHeadFresh'
  <2> SUFFICES ASSUME NEW v \in Writers, pc'[v] = "hashing",
                      NEW i \in DOMAIN log'[target[v]],
                      log'[target[v]][i].writer = v
               PROVE  \E j \in DOMAIN log'[target[v]] :
                        i <= j /\ log'[target[v]][j].hash = head[v]
    BY <1>2 DEF OwnHeadFresh
  <2>1. target[v] \in Projects /\ v # w /\ pc[v] = "hashing"
    BY <1>2 DEF TypeOK
  <2>2. i \in DOMAIN log[target[v]] /\ log[target[v]][i].writer = v
    BY <1>1, <1>4, <2>1
  <2>3. PICK j \in DOMAIN log[target[v]] :
               i <= j /\ log[target[v]][j].hash = head[v]
    BY <2>1, <2>2 DEF OwnHeadFresh
  <2> QED
    BY <1>1, <2>1, <2>3
<1>9. \A i \in 1..n : log[t][i].writer = w => log[t][i].prev # head[w]
  <2> SUFFICES ASSUME NEW i \in 1..n, log[t][i].writer = w,
                      log[t][i].prev = head[w]
               PROVE  FALSE
    OBVIOUS
  <2>1. PICK j \in 1..n : i <= j /\ log[t][j].hash = head[w]
    BY <1>1, <1>2 DEF OwnHeadFresh, t
  <2>2. head[w] # GENESIS
    <3>1. log[t][j] \in Entries
      BY <1>1 DEF TypeOK
    <3> QED
      BY <2>1, <3>1, GenesisIsNoHash DEF Entries
  <2>3. PICK k \in 1..(i - 1) : log[t][k].hash = head[w]
    BY <1>1, <2>2 DEF LinksPointBack
  <2>4. k \in 1..n /\ k # j
    BY <1>1, <2>1, <2>3
  <2> QED
    BY <1>1, <2>1, <2>3, <2>4 DEF HashesUnique
<1>10. NoSelfFork'
  <2> SUFFICES ASSUME NEW p \in Projects, NEW i \in DOMAIN log'[p],
                      NEW j \in DOMAIN log'[p], i < j,
                      log'[p][i].writer = log'[p][j].writer
               PROVE  log'[p][i].prev # log'[p][j].prev
    BY DEF NoSelfFork
  <2>1. CASE p # t
    BY <1>1, <2>1 DEF NoSelfFork
  <2>2. CASE p = t /\ j \in 1..n
    BY <1>1, <2>2 DEF NoSelfFork
  <2>3. CASE p = t /\ j = n + 1
    BY <1>1, <1>4, <1>9, <2>3
  <2> QED
    BY <1>1, <2>1, <2>2, <2>3
<1>11. InvalidOnlyIfForked'
  <2> SUFFICES ASSUME NEW p \in Projects
               PROVE  VerifyIntegrity(p)' \/ Forked(p)'
    BY DEF InvalidOnlyIfForked
  <2>1. CASE p # t
    BY <1>1, <2>1 DEF InvalidOnlyIfForked, VerifyIntegrity, CarriedHash, Forked
  <2>2. CASE p = t /\ Forked(t)
    <3>1. PICK i, j \in DOMAIN log[t] : /\ i < j
                                       /\ log[t][i].prev = log[t][j].prev
                                       /\ log[t][i].writer # log[t][j].writer
      BY <2>2 DEF Forked
    <3>2. /\ log'[t][i] = log[t][i] /\ log'[t][j] = log[t][j]
          /\ i \in DOMAIN log'[t] /\ j \in DOMAIN log'[t]
      BY <1>1
    <3> QED
      BY <2>2, <3>1, <3>2 DEF Forked
  <2>3. CASE p = t /\ VerifyIntegrity(t) /\ head[w] = CarriedHash(log[t], n + 1)
    <3> SUFFICES ASSUME NEW i \in 1..(n + 1)
                 PROVE  log'[t][i].prev = CarriedHash(log'[t], i)
      BY <1>1, <2>3 DEF VerifyIntegrity
    <3>1. CarriedHash(log'[t], i) = CarriedHash(log[t], i)
      <4>1. CASE i # 1
        <5>1. i - 1 \in 1..n
          BY <1>1, <4>1
        <5> QED
          BY <1>1, <5>1 DEF CarriedHash
      <4> QED
        BY <4>1 DEF CarriedHash
    <3>2. CASE i = n + 1
      BY <1>1, <1>4, <2>3, <3>1, <3>2
    <3>3. CASE i \in 1..n
      <4>1. log[t][i].prev = CarriedHash(log[t], i)
        BY <1>1, <2>3, <3>3 DEF VerifyIntegrity
      <4> QED
        BY <1>1, <3>1, <3>3, <4>1
    <3> QED
      BY <1>1, <3>2, <3>3
  <2>4. CASE p = t /\ VerifyIntegrity(t) /\ head[w] # CarriedHash(log[t], n + 1)
    <3>1. \E k \in 1..n : log[t][k].prev = head[w]
      <4>1. CASE head[w] = GENESIS
        <5>1. n # 0 /\ 1 \in 1..n
          BY <1>1, <2>4, <4>1 DEF CarriedHash
        <5> QED
          BY <1>1, <2>4, <4>1, <5>1 DEF VerifyIntegrity, CarriedHash
      <4>2. CASE head[w] # GENESIS
        <5>1. PICK j \in 1..n : log[t][j].hash = head[w]
          BY <1>1, <1>2, <4>2 DEF PendingKnown, t
        <5>2. j # n
          BY <1>1, <2>4, <5>1 DEF CarriedHash
        <5>3. j + 1 \in 1..n /\ j + 1 # 1 /\ (j + 1) - 1 = j
          BY <1>1, <5>2
        <5>4. log[t][j + 1].prev = log[t][j].hash
          BY <1>1, <2>4, <5>3 DEF VerifyIntegrity, CarriedHash
        <5> QED
          BY <5>1, <5>3, <5>4
      <4> QED
        BY <4>1, <4>2
    <3>2. PICK k \in 1..n : log[t][k].prev = head[w]
      BY <3>1
    <3>3. log[t][k].writer # w
      BY <1>9, <3>2
    <3>4. /\ k \in DOMAIN log'[p] /\ n + 1 \in DOMAIN log'[p] /\ k < n + 1
          /\ log'[p][k] = log[t][k] /\ log'[p][n + 1] = e
      BY <1>1, <2>4, <3>2
    <3>5. Forked(p)'
      BY <1>4, <3>2, <3>3, <3>4 DEF Forked
    <3> QED
      BY <3>5
  <2> QED
    BY <1>1, <2>1, <2>2, <2>3, <2>4 DEF InvalidOnlyIfForked
<1> QED
  BY <1>5, <1>6, <1>7, <1>8, <1>10, <1>11

LEMMA IInvStep == TypeOK' /\ IInv /\ [Next]_vars => IInv'
<1> SUFFICES ASSUME TypeOK', IInv, [Next]_vars
             PROVE  IInv'
  OBVIOUS
<1>1. CASE UNCHANGED vars
  BY <1>1 DEF vars, IInv, TypeOK, HashesUnique, LinksPointBack, PendingKnown,
     OwnHeadFresh, NoSelfFork, InvalidOnlyIfForked, VerifyIntegrity, Forked
<1> QED
  BY <1>1, IInvReadHead, IInvInsertRow, IInvAbort DEF Next

LEMMA InductiveInvariant == Spec => []IInv
BY IInvInit, IInvStep, TypeCorrect, PTL DEF Spec

(* However the processes overlap, crash or fail, no entry links to a hash  *)
(* that is not in the table above it.                                      *)
THEOREM NoDanglingLink == Spec => []LinksPointBack
<1>1. IInv => LinksPointBack
  BY DEF IInv
<1> QED
  BY <1>1, InductiveInvariant, PTL

(* A process never forks the chain against its own entries.                *)
THEOREM NoProcessForksItself == Spec => []NoSelfFork
<1>1. IInv => NoSelfFork
  BY DEF IInv
<1> QED
  BY <1>1, InductiveInvariant, PTL

(* A ledger whose rows are typed, point back and fork at other processes   *)
(* only, however appends overlap.                                          *)
THEOREM LedgerIsSound == Spec => []LedgerSound
<1>1. TypeOK /\ LinksPointBack /\ NoSelfFork => LedgerSound
  BY DEF LedgerSound
<1> QED
  BY <1>1, TypeCorrect, NoDanglingLink, NoProcessForksItself, PTL

(* A chain that fails verification, in a database nobody edited, always    *)
(* shows two processes that appended over the same head.                   *)
THEOREM InvalidImpliesFork == Spec => []InvalidOnlyIfForked
<1>1. IInv => InvalidOnlyIfForked
  BY DEF IInv
<1> QED
  BY <1>1, InductiveInvariant, PTL

-----------------------------------------------------------------------------
(* One process at a time: what was read is still the head of its chain.    *)
HeadCurrent ==
  \A w \in Writers : pc[w] = "hashing" => head[w] = LastHash(log[target[w]])

OneAtATime ==
  \A v, w \in Writers : pc[v] = "hashing" /\ pc[w] = "hashing" => v = w

SInv == TypeOK /\ HeadCurrent /\ OneAtATime /\ ChainValid

LEMMA SerialIsConcurrent == SerialSpec => Spec
<1>1. [SerialNext]_vars => [Next]_vars
  BY DEF SerialNext, Next
<1> QED
  BY <1>1, PTL DEF SerialSpec, Spec

LEMMA SInvInit == Init => SInv
BY DEF Init, SInv, TypeOK, HeadCurrent, OneAtATime, ChainValid, VerifyIntegrity

LEMMA SInvStep == TypeOK' /\ SInv /\ [SerialNext]_vars => SInv'
<1> SUFFICES ASSUME TypeOK', SInv, [SerialNext]_vars
             PROVE  SInv'
  OBVIOUS
<1> USE DEF SInv
<1>1. ASSUME NEW w \in Writers, NEW p \in Projects, Alone(w), ReadHead(w, p)
      PROVE  SInv'
  <2>1. /\ log' = log
        /\ \A v \in Writers : pc'[v] = "hashing" => v = w
        /\ target'[w] = p /\ head'[w] = LastHash(log[p])
    BY <1>1 DEF Alone, ReadHead, TypeOK
  <2>2. HeadCurrent' /\ OneAtATime'
    BY <2>1 DEF HeadCurrent, OneAtATime, LastHash
  <2>3. ChainValid'
    BY <2>1 DEF ChainValid, VerifyIntegrity
  <2> QED
    BY <2>2, <2>3
<1>2. ASSUME NEW w \in Writers, NEW h \in Hashes, InsertRow(w, h)
      PROVE  SInv'
  <2> DEFINE t == target[w]
             n == Len(log[t])
             e == [hash |-> h, prev |-> head[w], writer |-> w]
  <2>1. /\ t \in Projects /\ n \in Nat
        /\ DOMAIN log[t] = 1..n /\ DOMAIN log'[t] = 1..(n + 1)
        /\ \A i \in 1..n : log'[t][i] = log[t][i]
        /\ log'[t][n + 1] = e
        /\ \A q \in Projects : q # t => log'[q] = log[q]
    BY <1>2, InsertFacts
  <2>2. \A v \in Writers : pc'[v] # "hashing"
    BY <1>2 DEF InsertRow, TypeOK, OneAtATime
  <2>3. head[w] = LastHash(log[t])
    BY <1>2 DEF InsertRow, HeadCurrent
  <2>4. head[w] = CarriedHash(log[t], n + 1)
    <3>1. log[t] = <<>> <=> n = 0
      BY DEF TypeOK
    <3> QED
      BY <2>1, <2>3, <3>1 DEF LastHash, CarriedHash
  <2>5. e.prev = head[w]
    OBVIOUS
  <2> HIDE DEF t, n, e
  <2>6. ASSUME NEW p \in Projects
        PROVE  VerifyIntegrity(p)'
    <3>1. CASE p # t
      BY <2>1, <3>1 DEF ChainValid, VerifyIntegrity, CarriedHash
    <3>2. CASE p = t
      <4> SUFFICES ASSUME NEW i \in 1..(n + 1)
                   PROVE  log'[t][i].prev = CarriedHash(log'[t], i)
        BY <2>1, <3>2 DEF VerifyIntegrity
      <4>1. CASE i = n + 1
        BY <2>1, <2>4, <2>5, <4>1 DEF CarriedHash
      <4>2. CASE i \in 1..n
        <5>1. log[t][i].prev = CarriedHash(log[t], i)
          BY <2>1, <4>2 DEF ChainValid, VerifyIntegrity
        <5>2. CarriedHash(log'[t], i) = CarriedHash(log[t], i)
          BY <2>1, <4>2 DEF CarriedHash
        <5> QED
          BY <2>1, <4>2, <5>1, <5>2
      <4> QED
        BY <2>1, <4>1, <4>2
    <3> QED
      BY <3>1, <3>2
  <2> QED
    BY <2>2, <2>6 DEF HeadCurrent, OneAtATime, ChainValid
<1>3. ASSUME NEW w \in Writers, Abort(w)
      PROVE  SInv'
  <2>1. /\ log' = log /\ head' = head /\ target' = target
        /\ \A v \in Writers : pc'[v] = "hashing" => pc[v] = "hashing"
    BY <1>3 DEF Abort, TypeOK
  <2> QED
    BY <2>1 DEF HeadCurrent, OneAtATime, ChainValid, VerifyIntegrity
<1>4. CASE UNCHANGED vars
  BY <1>4 DEF vars, TypeOK, HeadCurrent, OneAtATime, ChainValid, VerifyIntegrity
<1> QED
  BY <1>1, <1>2, <1>3, <1>4 DEF SerialNext

LEMMA SerialInvariant == SerialSpec => []SInv
BY SInvInit, SInvStep, TypeCorrect, SerialIsConcurrent, PTL DEF SerialSpec

(* Run one after the other, ces processes keep a chain that verifies, also *)
(* when they die between reading the head and inserting.                   *)
THEOREM SerialChainValid == SerialSpec => []ChainValid
<1>1. SInv => ChainValid
  BY DEF SInv
<1> QED
  BY <1>1, SerialInvariant, PTL

(* Run one after the other, they implement the abstract append-only chain: *)
(* an insert is one extension of the chain, every other step a stutter.    *)
THEOREM SerialImplementsChain == SerialSpec => ImplementsChain
<1>1. Init => Chain!Init
  BY DEF Init, Chain!Init
<1>2. SInv /\ [SerialNext]_vars => [Chain!Next]_log
  <2> SUFFICES ASSUME SInv, [SerialNext]_vars
               PROVE  [Chain!Next]_log
    OBVIOUS
  <2>1. ASSUME NEW w \in Writers, NEW h \in Hashes, InsertRow(w, h)
        PROVE  Chain!Next
    <3>1. target[w] \in Projects
      BY DEF SInv, TypeOK
    <3>2. head[w] = Chain!HeadOf(log[target[w]])
      BY <2>1 DEF InsertRow, SInv, HeadCurrent, LastHash, Chain!HeadOf
    <3>3. Chain!Extend(w, target[w], h)
      BY <2>1, <3>1, <3>2 DEF InsertRow, Fresh, Chain!Extend
    <3> QED
      BY <3>1, <3>3 DEF Chain!Next
  <2>2. ASSUME NEW w \in Writers, NEW p \in Projects, ReadHead(w, p)
        PROVE  UNCHANGED log
    BY <2>2 DEF ReadHead
  <2>3. ASSUME NEW w \in Writers, Abort(w)
        PROVE  UNCHANGED log
    BY <2>3 DEF Abort
  <2>4. CASE UNCHANGED vars
    BY <2>4 DEF vars
  <2> QED
    BY <2>1, <2>2, <2>3, <2>4 DEF SerialNext
<1> QED
  BY <1>1, <1>2, SerialInvariant, PTL DEF SerialSpec, ImplementsChain, Chain!Spec

-----------------------------------------------------------------------------
(* How a directory becomes a project.  The directory of the keys can be    *)
(* made once, and whoever made it is the only process that writes the four *)
(* files, one after the other; whatever a command has read of them stays,  *)
(* because nobody removes the folder while a command is at work.           *)

Drawn == [by : Starters \cup {NoStarter}, whole : BOOLEAN]

Folders == [exists : BOOLEAN, keys : BOOLEAN, profile : BOOLEAN, stray : BOOLEAN,
            drafts : SUBSET Starters]

BootSteps == Initializers \cup Ended
             \cup {"look", "root", "write", "create", "load_keys", "load_secret", "store", "rename"}

Doings == [step : BootSteps,
           command : {"none", "init", "build", "scan", "open", "profile", "baseline"},
           only : BOOLEAN, late : BOOLEAN, id : Starters \cup {NoStarter}, keys : SUBSET Drawn]

BootTyped ==
  /\ folder \in Folders /\ files \in [Files -> Drawn] /\ doing \in [Starters -> Doings]

Whole(p) == [by |-> p, whole |-> TRUE]

EarlierFiles(f) ==
  {g \in Files : \/ f = "public" /\ g = "private"
                 \/ f = "secret" /\ g \in {"private", "public"}
                 \/ f = "config" /\ g # "config"}

\* what there is when p is to write the file f
WrittenBy(p, f, fs) ==
  \A g \in Files :
    /\ g \in EarlierFiles(f) => fs[g] = Whole(p)
    /\ g = f => fs[g] \in {NoFile, [by |-> p, whole |-> FALSE]}
    /\ g \notin EarlierFiles(f) \cup {f} => fs[g] = NoFile

OwnerWrites ==
  /\ \A p, q \in Starters : doing[p].step \in Files /\ doing[q].step \in Files => p = q
  /\ \A p \in Starters : doing[p].step \in Files =>
       folder.keys /\ WrittenBy(p, doing[p].step, files)
  /\ ~folder.keys => \A f \in Files : files[f] = NoFile
  /\ folder.keys /\ (\A p \in Starters : doing[p].step \notin Files \cup {"dead"}) =>
       \A f \in Files : files[f].whole
  /\ \A f \in Files : files[f] # NoFile => files[f].by \in Starters

Opened(d) ==
  /\ \E o \in Starters : d.keys = {Whole(o)}
  /\ d.id = NoStarter \/ d.keys = {Whole(d.id)}
  /\ d.late => d.id # NoStarter

\* what a command has read still stands, as long as it is at work
ReadsIn(d, fs) ==
  /\ d.late /\ d.step \notin Ended => fs["config"].whole
  /\ d.step \in {"load_keys", "load_secret"} =>
       /\ d.late => d.id # NoStarter
       /\ d.id # NoStarter => fs["config"].by = d.id
  /\ d.step = "load_secret" => fs["private"].whole /\ d.keys = {fs["private"]}
  /\ d.step = "store" => Opened(d)
  /\ d.step = "done" => d.keys = {} \/ Opened(d)
  /\ d.step \notin {"load_secret", "store", "done", "dead", "refused"} => d.keys = {}

BootInv ==
  /\ BootTyped /\ OwnerWrites /\ OneOwner
  /\ \A p \in Starters : ReadsIn(doing[p], files)

LEMMA BootStarts == BootInit => BootInv
<1> SUFFICES ASSUME BootInit PROVE BootInv
  OBVIOUS
<1>1. /\ \A f \in Files : files[f] = NoFile
      /\ \A p \in Starters : doing[p] = Idle
      /\ folder = NoFolder
  BY DEF BootInit
<1>2. Idle \in Doings /\ NoFile \in Drawn /\ NoFolder \in Folders
  BY DEF Idle, Doings, BootSteps, Ended, NoFile, Drawn, NoFolder, Folders
<1>3. BootTyped
  BY <1>2 DEF BootInit, BootTyped
<1>4. OwnerWrites /\ OneOwner
  BY <1>1 DEF OwnerWrites, OneOwner, Idle, NoFolder, Files
<1>5. \A p \in Starters : ReadsIn(doing[p], files)
  <2>1. /\ Idle.step = "idle" /\ Idle.late = FALSE /\ Idle.keys = {}
    BY DEF Idle
  <2> QED
    BY <1>1, <2>1 DEF ReadsIn
<1> QED
  BY <1>3, <1>4, <1>5 DEF BootInv

\* a step of one command that writes none of the files
LEMMA BootStep ==
  ASSUME BootInv, NEW p \in Starters, NEW d \in Doings, doing' = [doing EXCEPT ![p] = d],
         UNCHANGED files, folder' \in Folders, folder'.keys = folder.keys,
         doing[p].step # "dead", d.step \notin Files,
         doing[p].step \notin Files \/ d.step = "dead",
         ReadsIn(d, files)
  PROVE  BootInv'
<1>1. /\ doing'[p] = d
      /\ \A q \in Starters \ {p} : doing'[q] = doing[q]
  BY DEF BootInv, BootTyped
<1>2. BootTyped' /\ OneOwner'
  BY DEF BootInv, BootTyped, OneOwner
<1>3. OwnerWrites'
  <2>1. \A q \in Starters : doing'[q].step \in Files => q # p /\ doing'[q] = doing[q]
    BY <1>1
  <2>2. /\ \A q, r \in Starters : doing'[q].step \in Files /\ doing'[r].step \in Files => q = r
        /\ \A q \in Starters : doing'[q].step \in Files =>
             folder'.keys /\ WrittenBy(q, doing'[q].step, files)
    BY <2>1 DEF BootInv, OwnerWrites
  <2>3. /\ ~folder'.keys => \A f \in Files : files'[f] = NoFile
        /\ \A f \in Files : files'[f] # NoFile => files'[f].by \in Starters
    BY DEF BootInv, OwnerWrites
  <2>4. ASSUME folder'.keys, \A q \in Starters : doing'[q].step \notin Files \cup {"dead"}
        PROVE  \A f \in Files : files'[f].whole
    <3>1. \A q \in Starters : doing[q].step \notin Files \cup {"dead"}
      BY <1>1, <2>4
    <3> QED
      BY <2>4, <3>1 DEF BootInv, OwnerWrites
  <2> QED
    BY <2>2, <2>3, <2>4 DEF OwnerWrites
<1>4. \A q \in Starters : ReadsIn(doing'[q], files')
  BY <1>1 DEF BootInv
<1> QED
  BY <1>2, <1>3, <1>4 DEF BootInv

\* what has been read stays, while files are added
LEMMA ReadsStay ==
  ASSUME NEW d, NEW fs, NEW gs, ReadsIn(d, fs),
         \A f \in Files : fs[f] # NoFile => gs[f].by = fs[f].by,
         \A f \in Files : fs[f].whole => gs[f] = fs[f] /\ fs[f] # NoFile,
         fs["config"] = NoFile => fs["config"].by = NoStarter
  PROVE  ReadsIn(d, gs)
BY DEF ReadsIn, Files

LEMMA LooksKeep ==
  ASSUME BootInv, NEW p \in Starters,
         Start(p) \/ Look(p) \/ Create(p) \/ MakeFolder(p) \/ ReadConfig(p)
         \/ LoadKeys(p) \/ LoadSecret(p) \/ OpenStore(p) \/ DraftProfile(p)
         \/ RenameProfile(p) \/ WriteBaseline(p) \/ StarterDies(p)
  PROVE  BootInv'
<1>1. /\ doing \in [Starters -> Doings] /\ doing[p] \in Doings /\ ReadsIn(doing[p], files)
      /\ files \in [Files -> Drawn] /\ folder \in Folders /\ OneOwner
      /\ {"private", "public", "secret", "config"} = Files
      /\ \A f \in Files : files[f] # NoFile => files[f].by \in Starters
      /\ \A f \in Files : files[f].whole => files[f] # NoFile /\ files[f] = Whole(files[f].by)
  BY DEF BootInv, BootTyped, OwnerWrites, Files, NoFile, Drawn, Whole
<1>2. ASSUME NEW step \in BootSteps, Go(p, step), step \notin Files, doing[p].step # "dead",
             doing[p].step \notin Files \/ step = "dead", UNCHANGED files,
             folder' \in Folders, folder'.keys = folder.keys,
             step \in {"done", "dead", "refused", "create", "mkdir", "keys", "root", "rename"},
             step = "done" => doing[p].keys = {} \/ doing[p].step = "store",
             step \in {"create", "mkdir", "keys", "root", "rename"} =>
               doing[p].keys = {} /\ doing[p].step \notin Ended
      PROVE  BootInv'
  <2>1. PICK d : d = [doing[p] EXCEPT !.step = step]
    OBVIOUS
  <2>2. d \in Doings /\ d.step = step /\ d.keys = doing[p].keys /\ d.late = doing[p].late
        /\ d.id = doing[p].id
    BY <1>1, <2>1 DEF Doings
  <2>3. doing' = [doing EXCEPT ![p] = d]
    BY <1>2, <2>1 DEF Go
  <2>4. doing[p].step = "store" => Opened(d)
    BY <1>1, <2>2 DEF ReadsIn, Opened
  <2>5. ReadsIn(d, files)
    BY <1>1, <1>2, <2>2, <2>4 DEF ReadsIn, Ended
  <2> QED
    BY <1>2, <2>2, <2>3, <2>5, BootStep
<1>3. CASE Start(p)
  <2>1. PICK given \in {"init", "build", "scan", "open", "profile", "baseline"},
             step \in {"look", "root", "write"} :
          doing' = [doing EXCEPT ![p].command = given, ![p].late = files["config"].whole,
                                 ![p].step = step]
    <3>1. PICK given \in {"init", "build", "scan", "open", "profile", "baseline"} :
            doing' = [doing EXCEPT ![p].command = given,
                       ![p].late = files["config"].whole,
                       ![p].step = CASE given \in {"init", "build", "scan"} -> "look"
                                     [] given = "open" -> "root"
                                     [] OTHER          -> "write"]
      BY <1>3 DEF Start
    <3>2. (CASE given \in {"init", "build", "scan"} -> "look"
             [] given = "open" -> "root"
             [] OTHER          -> "write") \in {"look", "root", "write"}
      OBVIOUS
    <3> QED
      BY <3>1, <3>2
  <2>2. PICK d : d = [doing[p] EXCEPT !.command = given, !.late = files["config"].whole,
                                      !.step = step]
    OBVIOUS
  <2>3. files["config"].whole \in BOOLEAN
    BY <1>1 DEF Drawn
  <2>4. /\ d \in Doings /\ d.step = step /\ d.keys = doing[p].keys
        /\ d.late = files["config"].whole
    BY <1>1, <2>2, <2>3 DEF Doings, BootSteps
  <2>5. doing' = [doing EXCEPT ![p] = d]
    BY <2>1, <2>2
  <2>6. doing[p].step = "idle" /\ UNCHANGED <<folder, files>>
    BY <1>3 DEF Start
  <2>7. ReadsIn(d, files)
    BY <1>1, <2>4, <2>6 DEF ReadsIn
  <2> QED
    BY <1>1, <2>4, <2>5, <2>6, <2>7, BootStep DEF Files
<1>4. CASE Look(p)
  <2>1. PICK step \in {"root", "refused", "done", "create"} : Go(p, step)
    BY <1>4 DEF Look
  <2>2. doing[p].step = "look" /\ UNCHANGED <<folder, files>> /\ doing[p].keys = {}
    BY <1>1, <1>4 DEF Look, ReadsIn
  <2> QED
    BY <1>1, <1>2, <2>1, <2>2 DEF BootSteps, Initializers, Ended, Files
<1>5. CASE Create(p)
  <2>1. PICK step \in {"refused", "mkdir"}, only \in BOOLEAN :
          doing' = [doing EXCEPT ![p].step = step, ![p].only = only]
    <3>1. PICK only \in BOOLEAN : only = OnlyProfile
      BY DEF OnlyProfile
    <3> QED
      BY <1>5, <3>1 DEF Create
  <2>2. PICK d : d = [doing[p] EXCEPT !.step = step, !.only = only]
    OBVIOUS
  <2>3. d \in Doings /\ d.step = step /\ d.keys = doing[p].keys /\ d.late = doing[p].late
    BY <1>1, <2>2 DEF Doings, BootSteps, Initializers, Ended
  <2>4. doing' = [doing EXCEPT ![p] = d]
    BY <2>1, <2>2
  <2>5. doing[p].step = "create" /\ UNCHANGED <<folder, files>> /\ doing[p].keys = {}
    BY <1>1, <1>5 DEF Create, ReadsIn
  <2>6. ReadsIn(d, files)
    BY <1>1, <2>3, <2>5 DEF ReadsIn, Ended
  <2> QED
    BY <1>1, <2>3, <2>4, <2>5, <2>6, BootStep DEF Files
<1>6. CASE MakeFolder(p)
  <2>1. PICK step \in {"refused", "keys"} : Go(p, step)
    BY <1>6 DEF MakeFolder
  <2>2. /\ doing[p].step = "mkdir" /\ UNCHANGED files /\ doing[p].keys = {}
        /\ folder' \in Folders /\ folder'.keys = folder.keys
    BY <1>1, <1>6, ZenonT(40) DEF MakeFolder, ReadsIn, Folders
  <2> QED
    BY <1>1, <1>2, <2>1, <2>2 DEF BootSteps, Initializers, Ended, Files
<1>7. CASE ReadConfig(p)
  <2>1. PICK id : id = IF files["config"].whole THEN files["config"].by ELSE NoStarter
    OBVIOUS
  <2>2. PICK d : d = [doing[p] EXCEPT !.step = "load_keys", !.id = id]
    OBVIOUS
  <2>3. doing' = [doing EXCEPT ![p] = d] /\ UNCHANGED <<folder, files>> /\ doing[p].step = "root"
    BY <1>7, <2>1, <2>2 DEF ReadConfig
  <2>4. id \in Starters \cup {NoStarter}
    BY <1>1, <2>1 DEF Drawn
  <2>5. d \in Doings /\ d.step = "load_keys" /\ d.keys = doing[p].keys /\ d.late = doing[p].late
        /\ d.id = id
    BY <1>1, <2>2, <2>4 DEF Doings, BootSteps
  <2>6. /\ doing[p].late => files["config"].whole
        /\ doing[p].keys = {}
    BY <1>1, <2>3 DEF ReadsIn, Ended
  <2>7. files["config"].whole => id \in Starters /\ id # NoStarter
    BY <1>1, <2>1, BootstrapConstants
  <2>8. ReadsIn(d, files)
    BY <2>1, <2>5, <2>6, <2>7 DEF ReadsIn
  <2> QED
    BY <1>1, <2>3, <2>5, <2>8, BootStep DEF Files
<1>8. CASE LoadKeys(p)
  <2>1. doing[p].step = "load_keys" /\ UNCHANGED <<folder, files>>
    BY <1>8 DEF LoadKeys
  <2>2. CASE Go(p, "refused")
    BY <1>1, <1>2, <2>1, <2>2 DEF BootSteps, Ended, Files
  <2>3. CASE /\ Usable("private") /\ Usable("public")
             /\ doing' = [doing EXCEPT ![p].step = "load_secret",
                            ![p].keys = {files["private"], files["public"]}]
    <3>1. files["public"] = files["private"] /\ files["private"] \in Drawn
      BY <1>1, <2>3 DEF OneOwner, Usable, Files
    <3>2. PICK d : d = [doing[p] EXCEPT !.step = "load_secret", !.keys = {files["private"]}]
      OBVIOUS
    <3>3. doing' = [doing EXCEPT ![p] = d]
      BY <2>3, <3>1, <3>2
    <3>4. d \in Doings /\ d.step = "load_secret" /\ d.keys = {files["private"]}
          /\ d.late = doing[p].late /\ d.id = doing[p].id
      BY <1>1, <3>1, <3>2 DEF Doings, BootSteps
    <3>5. ReadsIn(d, files)
      BY <1>1, <2>1, <2>3, <3>4 DEF ReadsIn, Usable, Ended
    <3> QED
      BY <1>1, <2>1, <3>3, <3>4, <3>5, BootStep DEF Files
  <2> QED
    BY <1>8, <2>2, <2>3 DEF LoadKeys
<1>9. CASE LoadSecret(p)
  <2>1. doing[p].step = "load_secret" /\ UNCHANGED <<folder, files>>
    BY <1>9 DEF LoadSecret
  <2>2. CASE Go(p, "refused")
    BY <1>1, <1>2, <2>1, <2>2 DEF BootSteps, Ended, Files
  <2>3. CASE /\ Usable("secret")
             /\ doing' = [doing EXCEPT ![p].step = "store", ![p].keys = @ \cup {files["secret"]}]
    <3>1. doing[p].keys = {files["private"]} /\ files["private"].whole
      BY <1>1, <2>1 DEF ReadsIn
    <3>2. files["secret"] = files["private"] /\ files["private"] \in Drawn
      BY <1>1, <2>3, <3>1 DEF OneOwner, Usable, Files
    <3>3. PICK d : d = [doing[p] EXCEPT !.step = "store"]
      OBVIOUS
    <3>4. doing[p].keys \cup {files["secret"]} = doing[p].keys
      BY <3>1, <3>2
    <3>5. doing' = [doing EXCEPT ![p].step = "store", ![p].keys = doing[p].keys]
      BY <1>1, <2>3, <3>4
    <3>6. /\ d \in Doings /\ d.step = "store" /\ d.keys = {files["private"]}
          /\ d.late = doing[p].late /\ d.id = doing[p].id
      BY <1>1, <3>1, <3>3 DEF Doings, BootSteps
    <3>7. doing' = [doing EXCEPT ![p] = d]
      BY <1>1, <3>3, <3>5 DEF Doings
    <3>8. /\ d.late => d.id # NoStarter
          /\ d.id # NoStarter => files["config"].by = d.id
          /\ d.late => files["config"].whole
      BY <1>1, <2>1, <3>6 DEF ReadsIn, Ended
    <3>9. d.id # NoStarter => files["config"] # NoFile /\ files["private"] = Whole(d.id)
      <4> SUFFICES ASSUME d.id # NoStarter
          PROVE  files["config"] # NoFile /\ files["private"] = Whole(d.id)
        OBVIOUS
      <4>1. files["config"] # NoFile
        BY <3>8 DEF NoFile
      <4>2. files["private"] # NoFile /\ files["private"] = Whole(files["private"].by)
        BY <1>1, <3>1
      <4>3. files["private"].by = files["config"].by
        BY <1>1, <4>1, <4>2 DEF OneOwner
      <4> QED
        BY <3>8, <4>1, <4>2, <4>3
    <3>10. files["private"].by \in Starters /\ files["private"] = Whole(files["private"].by)
      BY <1>1, <3>1
    <3>11. Opened(d)
      BY <3>6, <3>8, <3>9, <3>10 DEF Opened
    <3>12. ReadsIn(d, files)
      BY <3>6, <3>8, <3>11 DEF ReadsIn
    <3> QED
      BY <1>1, <2>1, <3>6, <3>7, <3>12, BootStep DEF Files
  <2> QED
    BY <1>9, <2>2, <2>3 DEF LoadSecret
<1>10. CASE OpenStore(p)
  BY <1>1, <1>2, <1>10 DEF OpenStore, BootSteps, Ended, Files
<1>11. CASE DraftProfile(p)
  <2>1. folder' \in Folders /\ folder'.keys = folder.keys
    BY <1>1, <1>11 DEF DraftProfile, Folders
  <2>2. doing[p].step = "write" /\ Go(p, "rename") /\ UNCHANGED files /\ doing[p].keys = {}
    BY <1>1, <1>11 DEF DraftProfile, ReadsIn
  <2> QED
    BY <1>1, <1>2, <2>1, <2>2 DEF BootSteps, Ended, Files
<1>12. CASE RenameProfile(p)
  <2>1. folder' \in Folders /\ folder'.keys = folder.keys
    BY <1>1, <1>12 DEF RenameProfile, Folders
  <2>2. doing[p].step = "rename" /\ Go(p, "done") /\ UNCHANGED files /\ doing[p].keys = {}
    BY <1>1, <1>12 DEF RenameProfile, ReadsIn
  <2> QED
    BY <1>1, <1>2, <2>1, <2>2 DEF BootSteps, Ended, Files
<1>13. CASE WriteBaseline(p)
  <2>1. folder' \in Folders /\ folder'.keys = folder.keys
    BY <1>1, <1>13 DEF WriteBaseline, Folders
  <2>2. doing[p].step = "write" /\ Go(p, "done") /\ UNCHANGED files /\ doing[p].keys = {}
    BY <1>1, <1>13 DEF WriteBaseline, ReadsIn
  <2> QED
    BY <1>1, <1>2, <2>1, <2>2 DEF BootSteps, Ended, Files
<1>14. CASE StarterDies(p)
  <2>1. doing[p].step # "dead" /\ Go(p, "dead") /\ UNCHANGED <<folder, files>>
    BY <1>14 DEF StarterDies, Ended
  <2> QED
    BY <1>1, <1>2, <2>1 DEF BootSteps, Ended, Files
<1> QED
  BY <1>3, <1>4, <1>5, <1>6, <1>7, <1>8, <1>9, <1>10, <1>11, <1>12, <1>13, <1>14

\* the directory of the keys makes its maker the owner
LEMMA MakeKeysKeeps == ASSUME BootInv, NEW p \in Starters, MakeKeys(p) PROVE BootInv'
<1>1. /\ doing \in [Starters -> Doings] /\ doing[p] \in Doings /\ ReadsIn(doing[p], files)
      /\ folder \in Folders /\ OwnerWrites /\ doing[p].step = "keys" /\ UNCHANGED files
  BY DEF BootInv, BootTyped, MakeKeys
<1>2. CASE Go(p, "refused") /\ UNCHANGED folder
  <2>1. PICK d : d = [doing[p] EXCEPT !.step = "refused"]
    OBVIOUS
  <2>2. d \in Doings /\ d.step = "refused"
    BY <1>1, <2>1 DEF Doings, BootSteps, Ended
  <2>3. doing' = [doing EXCEPT ![p] = d] /\ ReadsIn(d, files)
    BY <1>2, <2>1, <2>2 DEF Go, ReadsIn, Ended
  <2> QED
    BY <1>1, <1>2, <2>2, <2>3, BootStep DEF Files
<1>3. CASE /\ ~folder.keys /\ Go(p, "private")
           /\ folder' = [folder EXCEPT !.keys = TRUE, !.stray = TRUE]
  <2>1. /\ doing'[p] = [doing[p] EXCEPT !.step = "private"]
        /\ \A q \in Starters \ {p} : doing'[q] = doing[q]
        /\ doing'[p] \in Doings /\ doing'[p].step = "private"
        /\ doing' \in [Starters -> Doings]
    BY <1>1, <1>3 DEF Go, Doings, BootSteps, Initializers, Files
  <2>2. /\ \A f \in Files : files[f] = NoFile
        /\ \A q \in Starters : doing[q].step \notin Files
    BY <1>1, <1>3 DEF OwnerWrites
  <2>3. folder' \in Folders /\ folder'.keys
    BY <1>1, <1>3 DEF Folders
  <2>4. EarlierFiles("private") = {} /\ "private" \in Files
    BY DEF EarlierFiles, Files
  <2>5. WrittenBy(p, "private", files')
    BY <1>1, <2>2, <2>4 DEF WrittenBy
  <2>6. OwnerWrites'
    BY <1>1, <2>1, <2>2, <2>3, <2>4, <2>5, ZenonT(40) DEF OwnerWrites
  <2>7. ReadsIn(doing'[p], files')
    <3>1. /\ doing'[p].keys = doing[p].keys /\ doing'[p].late = doing[p].late
      BY <1>1, <2>1 DEF Doings
    <3> QED
      BY <1>1, <2>1, <3>1 DEF ReadsIn, Ended
  <2>8. \A q \in Starters : ReadsIn(doing'[q], files')
    BY <1>1, <2>1, <2>7 DEF BootInv
  <2> QED
    BY <1>1, <2>1, <2>3, <2>6, <2>8 DEF BootInv, BootTyped, OneOwner
<1> QED
  BY <1>2, <1>3 DEF MakeKeys

\* the owner goes on with its files
LEMMA OwnerKeeps ==
  ASSUME BootInv, NEW p \in Starters, CreateFile(p) \/ WriteFile(p) PROVE BootInv'
<1> DEFINE f == doing[p].step
<1>1. /\ doing \in [Starters -> Doings] /\ doing[p] \in Doings /\ ReadsIn(doing[p], files)
      /\ files \in [Files -> Drawn] /\ folder \in Folders
      /\ f \in Files /\ folder.keys /\ WrittenBy(p, f, files) /\ UNCHANGED folder
      /\ \A q \in Starters : doing[q].step \in Files => q = p
      /\ \A g \in Files : files[g] # NoFile => files[g].by \in Starters
      /\ \A g \in Files : files[g].whole => files[g] # NoFile
      /\ Files = {"private", "public", "secret", "config"}
  BY DEF BootInv, BootTyped, OwnerWrites, CreateFile, WriteFile, NoFile, Files
<1>2. /\ \A g \in EarlierFiles(f) : files[g] = Whole(p)
      /\ \A g \in Files \ (EarlierFiles(f) \cup {f}) : files[g] = NoFile
      /\ f \notin EarlierFiles(f) /\ EarlierFiles(f) \subseteq Files
      /\ files[f] \in {NoFile, [by |-> p, whole |-> FALSE]}
  BY <1>1 DEF WrittenBy, EarlierFiles
<1>3. p # NoStarter /\ NoFile.by = NoStarter /\ Whole(p) # NoFile
      /\ Whole(p) \in Drawn /\ [by |-> p, whole |-> FALSE] \in Drawn
  BY BootstrapConstants DEF NoFile, Whole, Drawn
<1>4. ASSUME NEW d \in Doings, NEW r \in {[by |-> p, whole |-> FALSE], Whole(p)},
             files' = [files EXCEPT ![f] = r], doing' = [doing EXCEPT ![p] = d],
             d.step \in Files => WrittenBy(p, d.step, files'),
             d.step \notin Files => \A g \in Files : files'[g].whole,
             ReadsIn(d, files')
      PROVE  BootInv'
  <2>1. /\ doing'[p] = d /\ \A q \in Starters \ {p} : doing'[q] = doing[q]
        /\ files'[f] = r /\ \A g \in Files \ {f} : files'[g] = files[g]
        /\ r \in Drawn /\ r # NoFile /\ r.by = p
    <3>1. r \in Drawn /\ r.by = p
      <4>1. CASE r = [by |-> p, whole |-> FALSE]
        BY <1>3, <4>1
      <4>2. CASE r = Whole(p)
        BY <1>3, <4>2 DEF Whole
      <4> QED
        BY <1>4, <4>1, <4>2
    <3>2. r # NoFile
      BY <1>3, <3>1
    <3>3. doing'[p] = d /\ \A q \in Starters \ {p} : doing'[q] = doing[q]
      BY <1>1, <1>4
    <3>4. files'[f] = r /\ \A g \in Files \ {f} : files'[g] = files[g]
      BY <1>1, <1>4
    <3> QED
      BY <3>1, <3>2, <3>3, <3>4
  <2>2. BootTyped'
    BY <1>1, <1>4, <2>1 DEF BootTyped
  <2>3. \A g \in Files : files'[g] # NoFile => files'[g].by = p
    BY <1>2, <2>1 DEF Whole
  <2>4. OneOwner'
    BY <2>3 DEF OneOwner
  <2>5. OwnerWrites'
    <3>1. \A q \in Starters : doing'[q].step \in Files => q = p
      BY <1>1, <2>1
    <3>2. \A g \in Files : files'[g] # NoFile => files'[g].by \in Starters
      BY <2>3
    <3>3. d.step \in Files \/ \A g \in Files : files'[g].whole
      BY <1>4
    <3> QED
      BY <1>1, <1>4, <2>1, <3>1, <3>2, <3>3 DEF OwnerWrites
  <2>6. ASSUME NEW q \in Starters PROVE ReadsIn(doing'[q], files')
    <3>1. CASE q = p
      BY <1>4, <2>1, <3>1
    <3>2. CASE q # p
      <4>1. doing'[q] = doing[q] /\ ReadsIn(doing[q], files)
        BY <2>1, <3>2 DEF BootInv
      <4>2. \A g \in Files : files[g] # NoFile => files'[g].by = files[g].by
        BY <1>2, <2>1
      <4>3. \A g \in Files : files[g].whole => files'[g] = files[g] /\ files[g] # NoFile
        BY <1>1, <1>2, <2>1 DEF NoFile
      <4>4. files["config"] = NoFile => files["config"].by = NoStarter
        BY <1>3
      <4> QED
        BY <4>1, <4>2, <4>3, <4>4, ReadsStay
    <3> QED
      BY <3>1, <3>2
  <2> QED
    BY <2>2, <2>4, <2>5, <2>6 DEF BootInv
<1>5. ~doing[p].late /\ doing[p].keys = {} /\ f \notin Ended
  BY <1>1, <1>2, <1>3 DEF ReadsIn, Ended, NoFile, EarlierFiles
<1>6. CASE CreateFile(p)
  <2>1. files[f] = NoFile
    BY <1>2, <1>6 DEF CreateFile
  <2>2. files' = [files EXCEPT ![f] = [by |-> p, whole |-> FALSE]] /\ UNCHANGED doing
    BY <1>6, <2>1 DEF CreateFile
  <2>3. WrittenBy(p, f, files')
    BY <1>1, <1>2, <2>2 DEF WrittenBy
  <2>4. doing' = [doing EXCEPT ![p] = doing[p]]
    BY <1>1, <2>2
  <2>5. ReadsIn(doing[p], files')
    BY <1>1, <1>5 DEF ReadsIn
  <2>6. PICK d \in Doings : d = doing[p]
    BY <1>1
  <2> QED
    BY <1>1, <1>4, <2>2, <2>3, <2>4, <2>5, <2>6
<1>7. CASE WriteFile(p)
  <2>1. PICK next : next = NextFile(p)
    OBVIOUS
  <2>2. /\ f = "private" => next = "public"
        /\ f = "public" => next = "secret"
        /\ f = "secret" => next = "config"
        /\ f = "config" => next \in {"root", "done"}
    BY <2>1 DEF NextFile
  <2>3. PICK d : d = [doing[p] EXCEPT !.step = next]
    OBVIOUS
  <2>4. files[f].by = p /\ files[f] = [by |-> p, whole |-> FALSE]
    BY <1>2, <1>3, <1>7 DEF WriteFile
  <2>5. files' = [files EXCEPT ![f] = Whole(p)]
    <3>1. [files[f] EXCEPT !.whole = TRUE] = Whole(p)
      <4>1. PICK r : r = [files[f] EXCEPT !.whole = TRUE]
        OBVIOUS
      <4>2. files[f] \in Drawn
        BY <1>1
      <4>3. r \in Drawn /\ r.by = p /\ r.whole = TRUE
        BY <2>4, <4>1, <4>2 DEF Drawn
      <4>4. r = [by |-> p, whole |-> TRUE]
        BY <4>3 DEF Drawn
      <4> QED
        BY <4>1, <4>4 DEF Whole
    <3>2. files' = [files EXCEPT ![f] = [files[f] EXCEPT !.whole = TRUE]]
      BY <1>7 DEF WriteFile
    <3> QED
      BY <3>1, <3>2
  <2>6. doing' = [doing EXCEPT ![p] = d]
    BY <1>7, <2>1, <2>3 DEF WriteFile, Go
  <2>7. next \in BootSteps
    BY <1>1, <2>2 DEF BootSteps, Initializers, Ended, Files
  <2>8. d \in Doings /\ d.step = next /\ d.late = doing[p].late /\ d.keys = doing[p].keys
    BY <1>1, <2>3, <2>7 DEF Doings
  <2>9. next \in Files => /\ EarlierFiles(next) = EarlierFiles(f) \cup {f}
                          /\ next \notin EarlierFiles(f) \cup {f}
    BY <1>1, <2>2 DEF EarlierFiles
  <2>10. next \in Files => WrittenBy(p, next, files')
    BY <1>1, <1>2, <2>5, <2>9 DEF WrittenBy
  <2>11. next \notin Files => f = "config" /\ EarlierFiles(f) \cup {f} = Files
    BY <1>1, <2>2 DEF EarlierFiles
  <2>12. next \notin Files => \A g \in Files : files'[g].whole
    BY <1>1, <1>2, <2>5, <2>11 DEF Whole
  <2>13. ReadsIn(d, files')
    BY <1>1, <1>5, <2>2, <2>8 DEF ReadsIn
  <2> QED
    BY <1>4, <2>5, <2>6, <2>8, <2>10, <2>12, <2>13
<1> QED
  BY <1>6, <1>7

LEMMA RemoveFolderKeeps == BootInv /\ RemoveFolder => BootInv'
<1> SUFFICES ASSUME BootInv, RemoveFolder PROVE BootInv'
  OBVIOUS
<1>1. /\ \A f \in Files : files'[f] = NoFile
      /\ \A p \in Starters : \/ doing'[p] = Idle
                             \/ doing'[p] = [Idle EXCEPT !.step = "refused"]
      /\ folder' = NoFolder /\ files' = [f \in Files |-> NoFile]
  BY DEF RemoveFolder
<1>2. /\ Idle \in Doings /\ [Idle EXCEPT !.step = "refused"] \in Doings
      /\ NoFile \in Drawn /\ NoFolder \in Folders
  BY DEF Idle, Doings, BootSteps, Ended, NoFile, Drawn, NoFolder, Folders
<1>3. BootTyped'
  BY <1>1, <1>2 DEF RemoveFolder, BootTyped
<1>4. OwnerWrites' /\ OneOwner'
  BY <1>1 DEF OwnerWrites, OneOwner, Idle, NoFolder, Files
<1>5. \A p \in Starters : ReadsIn(doing'[p], files')
  BY <1>1 DEF ReadsIn, Idle, Ended
<1> QED
  BY <1>3, <1>4, <1>5 DEF BootInv

LEMMA BootKeeps == BootInv /\ [BootNext]_bootVars => BootInv'
<1> SUFFICES ASSUME BootInv, [BootNext]_bootVars PROVE BootInv'
  OBVIOUS
<1>1. CASE UNCHANGED bootVars
  BY <1>1 DEF bootVars, BootInv, BootTyped, OwnerWrites, OneOwner
<1> QED
  BY <1>1, LooksKeep, MakeKeysKeeps, OwnerKeeps, RemoveFolderKeeps DEF BootNext

(* However many commands initialize a directory at once, die or open it     *)
(* meanwhile: what there is belongs to one of them and is whole when none   *)
(* is at work, and whoever got its services holds whole keys of that one.   *)
THEOREM BootstrapIsSound == BootSpec => []BootstrapSound
<1>1. BootInit => BootInv
  BY BootStarts
<1>2. BootInv /\ [BootNext]_bootVars => BootInv'
  BY BootKeeps
<1>3. BootInv => BootstrapSound
  <2> SUFFICES ASSUME BootInv PROVE BootstrapSound
    OBVIOUS
  <2>1. QuietIsWhole
    BY DEF BootInv, OwnerWrites, QuietIsWhole, Initializers
  <2>2. OpenedWhole
    <3> SUFFICES ASSUME NEW p \in Starters,
                        doing[p].step = "store" \/ (doing[p].step = "done" /\ doing[p].keys # {})
        PROVE  Opened(doing[p])
      BY DEF OpenedWhole, Opened, Whole
    <3> QED
      BY DEF BootInv, ReadsIn
  <2> QED
    BY <2>1, <2>2 DEF BootInv, BootstrapSound
<1> QED
  BY <1>1, <1>2, <1>3, PTL DEF BootSpec

-----------------------------------------------------------------------------
(* The reviews of a manifest.  What is assigned comes from the models that *)
(* are available, none of which is the builder's; the answers are judged   *)
(* when the last one is there and nothing touches them afterwards.         *)

Among(r, n) ==
  LET among[i \in 0..n] ==
        IF i = 0 THEN <<>>
        ELSE IF r[i] = BuilderModel THEN among[i - 1] ELSE Append(among[i - 1], r[i])
  IN  among[n]

LEMMA AmongFacts ==
  ASSUME NEW n \in Nat, NEW r \in [1..n -> Nat]
  PROVE  Among(r, n) \in Seq(Nat \ {BuilderModel})
<1> DEFINE S == Seq(Nat \ {BuilderModel})
           Grown(i, s) == IF r[i] = BuilderModel THEN s ELSE Append(s, r[i])
           Defines(f) == f = [i \in 0..n |-> IF i = 0 THEN <<>> ELSE Grown(i, f[i - 1])]
           step == [i \in 1..n |-> [s \in S |-> Grown(i, s)]]
<1>1. BuilderModel \in Nat /\ <<>> \in S
  BY EmptySeq DEF BuilderModel
<1>2. ASSUME NEW i \in 1..n, NEW s \in S PROVE Grown(i, s) \in S
  BY AppendProperties
<1>3. \E f : Defines(f)
  <2>1. step \in StepsOf(n, S)
    BY <1>2 DEF StepsOf
  <2>2. PICK f : Iterates(f, <<>>, step, n, S)
    <3> HIDE DEF step, S
    <3> QED
      BY <1>1, <2>1, Iteration
  <2>3. /\ f \in [0..n -> S] /\ f[0] = <<>>
        /\ \A i \in 1..n : f[i] = step[i][f[i - 1]]
    <3> HIDE DEF step, S
    <3> QED
      BY <2>2 DEF Iterates
  <2>4. ASSUME NEW i \in 1..n PROVE f[i] = Grown(i, f[i - 1])
    <3> HIDE DEF Grown, S
    <3>1. i - 1 \in 0..n /\ f[i - 1] \in S
      BY <2>3
    <3> QED
      BY <2>3, <3>1
  <2> HIDE DEF Grown, S
  <2>5. ASSUME NEW i \in 0..n
        PROVE  f[i] = IF i = 0 THEN <<>> ELSE Grown(i, f[i - 1])
    <3>1. CASE i = 0
      BY <2>3, <3>1
    <3>2. CASE i \in 1..n
      BY <2>4, <3>2
    <3> QED
      BY <3>1, <3>2
  <2> QED
    BY <2>3, <2>5
<1> DEFINE g == CHOOSE h : Defines(h)
<1>5. Defines(g)
  BY <1>3
<1>6. Among(r, n) = g[n]
  BY DEF Among
<1>7. g[0] = <<>> /\ \A i \in 1..n : g[i] = Grown(i, g[i - 1])
  <2> HIDE DEF g, Grown
  <2>1. g = [i \in 0..n |-> IF i = 0 THEN <<>> ELSE Grown(i, g[i - 1])]
    BY <1>5
  <2>2. \A i \in 0..n : g[i] = IF i = 0 THEN <<>> ELSE Grown(i, g[i - 1])
    BY <2>1
  <2>3. g[0] = <<>>
    BY <1>1, <2>2
  <2>4. ASSUME NEW i \in 1..n PROVE g[i] = Grown(i, g[i - 1])
    <3>1. i \in 0..n /\ i # 0
      BY <1>1
    <3> QED
      BY <2>2, <3>1
  <2> QED
    BY <2>3, <2>4
<1> HIDE DEF g
<1> DEFINE Good == {m \in Nat : m <= n => g[m] \in S}
<1>8. 0 \in Good
  BY <1>1, <1>7
<1>9. ASSUME NEW m \in Nat, m \in Good PROVE m + 1 \in Good
  <2>1. SUFFICES ASSUME m + 1 <= n PROVE g[m + 1] \in S
    OBVIOUS
  <2>2. m + 1 \in 1..n /\ (m + 1) - 1 = m /\ g[m] \in S
    BY <1>1, <1>9, <2>1
  <2>3. g[m + 1] = Grown(m + 1, g[m])
    BY <1>7, <2>2
  <2>4. Grown(m + 1, g[m]) \in S
    BY <1>2, <2>2
  <2> QED
    BY <2>3, <2>4
<1>10. \A m \in Nat : m \in Good
  <2> HIDE DEF Good
  <2> QED
    BY <1>8, <1>9, Induction
<1> QED
  BY <1>1, <1>6, <1>10

LEMMA AvailableFacts ==
  ASSUME roster \in Seq(Nat)
  PROVE  Available \in Seq(Nat \ {BuilderModel})
<1>1. Available = Among(roster, Len(roster))
  BY DEF Available, Among
<1>2. Len(roster) \in Nat /\ roster \in [1..Len(roster) -> Nat]
  BY LenProperties
<1> QED
  BY <1>1, <1>2, AmongFacts

LEMMA FewerModels ==
  ASSUME NEW s \in Seq(Nat), NEW i \in DOMAIN s, NEW j \in DOMAIN s, i # j, s[i] = s[j]
  PROVE  Cardinality(Range(s)) < Len(s)
<1>1. IsFiniteSet(1..Len(s)) /\ Cardinality(1..Len(s)) = Len(s) /\ Len(s) \in Nat
  <2>1. PICK n \in Nat : n = Len(s)
    BY LenProperties
  <2>2. n \in Int /\ 1 \in Int
    BY <2>1
  <2>3. IsFiniteSet(1..n) /\ Cardinality(1..n) = IF 1 > n THEN 0 ELSE n - 1 + 1
    BY <2>2, FS_Interval
  <2> QED
    BY <2>1, <2>3
<1>2. s \in [1..Len(s) -> Range(s)] /\ DOMAIN s = 1..Len(s)
  BY LenProperties DEF Range
<1>3. s \in Surjection(1..Len(s), Range(s))
  BY <1>2 DEF Surjection, Range
<1>4. s \notin Injection(1..Len(s), Range(s))
  BY <1>2 DEF Injection, IsInjective
<1>5. /\ IsFiniteSet(Range(s)) /\ Cardinality(Range(s)) <= Len(s)
      /\ Cardinality(Range(s)) # Len(s)
  BY <1>1, <1>3, <1>4, FS_Surjection
<1>6. Cardinality(Range(s)) \in Nat
  BY <1>5, FS_CardinalityType
<1> QED
  BY <1>1, <1>5, <1>6

(* What may be assigned, and why nothing may be.                           *)
Reviewing(models, n) ==
  /\ models \in [1..n -> Nat] /\ Len(models) = n /\ DOMAIN models = 1..n /\ Independent(models)

LEMMA TriadFacts ==
  ASSUME roster \in Seq(Nat)
  PROVE  IF AssignTriad # <<>> THEN Reviewing(AssignTriad[1], 3)
         ELSE Len(Available) < 3 \/ Cardinality(Range(Available)) < Len(Available)
<1> DEFINE first == SubSeq(Available, 1, 3)
<1>1. Available \in Seq(Nat \ {BuilderModel}) /\ Available \in Seq(Nat) /\ Len(Available) \in Nat
  BY AvailableFacts, LenProperties, SeqMonotonic
<1>2. CASE Len(Available) < 3
  BY <1>1, <1>2 DEF AssignTriad
<1>3. CASE Len(Available) >= 3
  <2>1. \A i \in 1..3 : i \in DOMAIN Available /\ Available[i] \in Nat \ {BuilderModel}
    BY <1>1, <1>3, LenProperties, ElementOfSeq
  <2>2. /\ first \in Seq(Nat) /\ Len(first) = 3
        /\ \A i \in 1..3 : first[i] = Available[i]
    BY <2>1, SubSeqProperties
  <2>3. DOMAIN first = 1..3 /\ first \in [1..3 -> Nat]
    BY <2>2, LenProperties
  <2> HIDE DEF first
  <2>4. CASE Independent(first)
    <3>1. AssignTriad = <<first>>
      BY <1>1, <1>3, <2>4 DEF AssignTriad, first
    <3> QED
      BY <2>2, <2>3, <2>4, <3>1 DEF Reviewing
  <2>5. CASE ~Independent(first)
    <3>1. PICK i \in 1..3, j \in 1..3 : i # j /\ first[i] = first[j]
      BY <2>1, <2>2, <2>3, <2>5 DEF Independent
    <3>2. Available[i] = Available[j]
      BY <2>2, <3>1
    <3>3. PICK s \in Seq(Nat) : s = Available
      BY <1>1
    <3>4. Cardinality(Range(s)) < Len(s)
      BY <2>1, <3>1, <3>2, <3>3, FewerModels
    <3>5. AssignTriad = <<>>
      BY <2>5 DEF AssignTriad, first
    <3> QED
      BY <3>3, <3>4, <3>5
  <2> QED
    BY <2>4, <2>5
<1> QED
  BY <1>1, <1>2, <1>3

LEMMA SingleFacts ==
  ASSUME roster \in Seq(Nat)
  PROVE  IF AssignSingle # <<>> THEN Reviewing(AssignSingle[1], 1) ELSE Len(Available) = 0
<1>1. Available \in Seq(Nat \ {BuilderModel})
  BY AvailableFacts
<1>2. CASE Available = <<>>
  BY <1>2 DEF AssignSingle
<1>3. CASE Available # <<>>
  <2>1. Head(Available) \in Nat \ {BuilderModel}
    BY <1>1, <1>3, HeadTailProperties
  <2>2. AssignSingle = <<<<Head(Available)>>>>
    BY <1>3 DEF AssignSingle
  <2>3. PICK m \in Nat \ {BuilderModel} : m = Head(Available)
    BY <2>1
  <2>4. Reviewing(<<m>>, 1)
    BY DEF Reviewing, Independent
  <2> QED
    BY <2>2, <2>3, <2>4
<1> QED
  BY <1>2, <1>3

KeptReviews == [round : Nat, critical : Nat, high : Nat, zero : BOOLEAN]
Texts == AnswerTexts \cup {Silent}

DispatchTyped ==
  /\ roster \in Seq(Nat) /\ triad \in BOOLEAN /\ round \in Nat
  /\ at \in {"idle", "asking", "answered", "storing", "deciding"}
  /\ kept \in KeptReviews /\ kept.round <= round

(* While reviewers are at work: who they are, and that each has a place    *)
(* for its answer.                                                         *)
ReviewersAt(n) == Reviewing(reviewers, n) /\ answers \in [1..n -> Texts]
AtReview == at # "idle" => outcome = "none" /\ ReviewersAt(IF triad THEN 3 ELSE 1)

(* What is stored next was escalated if it must be, and what is decided    *)
(* next was stored.                                                        *)
OnTheWay ==
  /\ at = "storing" => round \in escalated
  /\ at = "deciding" => kept.round = round

Refused ==
  outcome = "unassigned" =>
    Len(Available) < 3 \/ Cardinality(Range(Available)) < Len(Available)

DispatchInv ==
  /\ DispatchTyped /\ AtReview /\ OnTheWay /\ Refused /\ KeptIsLatest /\ ZeroIsEscalated

LEMMA FoundByFacts ==
  ASSUME DispatchInv, at # "idle", NEW severity
  PROVE  /\ FoundBy(severity) \in Nat
         /\ (\E i \in DOMAIN answers : severity \in ParseFindings(answers[i])) => FoundBy(severity) > 0
<1> DEFINE who == {i \in DOMAIN answers : severity \in ParseFindings(answers[i])}
<1>1. PICK n \in {1, 3} : ReviewersAt(n)
  BY DEF DispatchInv, AtReview
<1>2. DOMAIN answers = 1..n
  BY <1>1 DEF ReviewersAt
<1>3. IsFiniteSet(1..n)
  BY FS_Interval
<1>4. who \subseteq 1..n
  BY <1>2
<1> HIDE DEF who
<1>5. IsFiniteSet(who)
  BY <1>3, <1>4, FS_Subset
<1>6. Cardinality(who) \in Nat /\ (who # {} => Cardinality(who) # 0)
  BY <1>5, FS_CardinalityType, FS_EmptySet
<1> QED
  BY <1>6 DEF FoundBy, who

LEMMA AggregateFacts ==
  ASSUME DispatchInv, at # "idle"
  PROVE  /\ Aggregate \in KeptReviews /\ Aggregate.round = round
         /\ (\E i \in DOMAIN answers : answers[i] = Prose) => ~Aggregate.zero /\ Aggregate.high > 0
         /\ Aggregate.zero <=> \A i \in DOMAIN answers : answers[i] \subseteq {"malformed"}
<1>1. FoundBy("critical") \in Nat /\ FoundBy("high") \in Nat
  BY FoundByFacts
<1>2. Aggregate.zero <=> answers # <<>> /\ \A i \in DOMAIN answers : ParseFindings(answers[i]) = {}
  BY DEF Aggregate
<1>3. answers # <<>>
  <2>1. PICK n \in {1, 3} : ReviewersAt(n)
    BY DEF DispatchInv, AtReview
  <2>2. 1 \in DOMAIN answers
    BY <2>1 DEF ReviewersAt
  <2>3. DOMAIN <<>> = {}
    OBVIOUS
  <2> QED
    BY <2>2, <2>3
<1>4. \A text : ParseFindings(text) = {} <=> text \subseteq {"malformed"}
  <2>1. ParseFindings(Prose) # {} /\ ~(Prose \subseteq {"malformed"})
    BY DEF ParseFindings, Prose
  <2>2. ASSUME NEW text, text # Prose
        PROVE  ParseFindings(text) = {} <=> text \subseteq {"malformed"}
    BY <2>2 DEF ParseFindings
  <2> QED
    BY <2>1, <2>2
<1>5. Aggregate.zero <=> \A i \in DOMAIN answers : answers[i] \subseteq {"malformed"}
  BY <1>2, <1>3, <1>4
<1>6. ASSUME NEW i \in DOMAIN answers, answers[i] = Prose
      PROVE  ~Aggregate.zero /\ Aggregate.high > 0
  <2>1. "high" \in ParseFindings(answers[i])
    BY <1>6 DEF ParseFindings
  <2>2. FoundBy("high") > 0
    BY <2>1, FoundByFacts
  <2>3. ParseFindings(answers[i]) # {}
    BY <2>1
  <2> QED
    BY <1>2, <2>2, <2>3 DEF Aggregate
<1>7. Aggregate \in KeptReviews /\ Aggregate.round = round
  <2>1. Aggregate.zero \in BOOLEAN
    BY DEF Aggregate
  <2> QED
    BY <1>1, <2>1 DEF Aggregate, KeptReviews, DispatchInv, DispatchTyped
<1> QED
  BY <1>5, <1>6, <1>7

LEMMA DispatchStarts == ReviewInit => DispatchInv
  BY ReviewConstants DEF ReviewInit, DispatchInv, DispatchTyped, AtReview, OnTheWay, Refused,
    KeptIsLatest, ZeroIsEscalated, KeptReviews, NoReview, NoDecision

LEMMA AvailableStays == UNCHANGED roster => Available' = Available
  BY DEF Available

LEMMA EndsKeeps ==
  ASSUME DispatchInv, NEW how, Ends(how), Constant, UNCHANGED <<round, kept, decided>>,
         escalated \subseteq escalated',
         how \in {"failed", "without"} \/ (how = "stored" /\ kept.round = round)
  PROVE  DispatchInv'
<1>1. DispatchTyped'
  BY DEF DispatchInv, DispatchTyped, Ends, Constant
<1>2. AtReview' /\ OnTheWay' /\ Refused'
  BY DEF AtReview, OnTheWay, Refused, Ends
<1>3. KeptIsLatest'
  BY DEF DispatchInv, DispatchTyped, KeptReviews, KeptIsLatest, Ends
<1>4. ZeroIsEscalated'
  BY DEF DispatchInv, ZeroIsEscalated, Constant
<1> QED
  BY <1>1, <1>2, <1>3, <1>4 DEF DispatchInv

LEMMA AssignKeeps ==
  ASSUME DispatchInv, NEW halted \in BOOLEAN, AssignReviewers(halted)
  PROVE  DispatchInv'
<1> USE DEF DispatchInv
<1> DEFINE assigned == IF triad THEN AssignTriad ELSE AssignSingle
           n == IF triad THEN 3 ELSE 1
<1>1. /\ at = "idle" /\ round' = round + 1 /\ Constant /\ UNCHANGED <<kept, escalated, decided>>
      /\ IF halted \/ assigned = <<>>
         THEN Ends(IF halted THEN "halted" ELSE "unassigned")
         ELSE /\ reviewers' = assigned[1] /\ at' = "asking" /\ outcome' = "none"
              /\ answers' = [i \in DOMAIN assigned[1] |-> Silent]
  BY DEF AssignReviewers
<1>2. IF assigned # <<>> THEN Reviewing(assigned[1], n)
      ELSE Len(Available) < 3 \/ Cardinality(Range(Available)) < Len(Available)
  BY TriadFacts, SingleFacts DEF DispatchTyped
<1>3. Available' = Available
  BY <1>1, AvailableStays DEF Constant
<1> HIDE DEF assigned
<1>4. DispatchTyped'
  BY <1>1 DEF DispatchTyped, Constant, KeptReviews, Ends
<1>5. OnTheWay' /\ ZeroIsEscalated'
  BY <1>1 DEF OnTheWay, ZeroIsEscalated, Constant, Ends
<1>6. CASE halted \/ assigned = <<>>
  <2>1. AtReview' /\ KeptIsLatest'
    BY <1>1, <1>6 DEF AtReview, KeptIsLatest, Ends
  <2>2. outcome' = "unassigned" => assigned = <<>>
    BY <1>1, <1>6 DEF Ends
  <2>3. Refused'
    BY <1>2, <1>3, <2>2 DEF Refused
  <2> QED
    BY <1>4, <1>5, <2>1, <2>3
<1>7. CASE ~(halted \/ assigned = <<>>)
  <2>1. Reviewing(reviewers', n)
    BY <1>1, <1>2, <1>7
  <2>2. answers' \in [1..n -> Texts]
    BY <1>1, <1>2, <1>7 DEF Reviewing, Texts
  <2>3. at' = "asking" /\ outcome' = "none" /\ triad' = triad
    BY <1>1, <1>7 DEF Constant
  <2>4. AtReview'
    BY <2>1, <2>2, <2>3 DEF AtReview, ReviewersAt
  <2>5. Refused' /\ KeptIsLatest'
    BY <2>3 DEF Refused, KeptIsLatest
  <2> QED
    BY <1>4, <1>5, <2>4, <2>5
<1> QED
  BY <1>6, <1>7

LEMMA AnswerKeeps ==
  ASSUME DispatchInv, NEW i \in DOMAIN answers, NEW text \in AnswerTexts, ReviewerAnswers(i, text)
  PROVE  DispatchInv'
<1>1. /\ at = "asking" /\ at' \in {"answered", "asking"}
      /\ UNCHANGED <<roster, triad, command, round, reviewers, kept, outcome, escalated, decided>>
      /\ answers' = [answers EXCEPT ![i] = text]
  BY DEF ReviewerAnswers, Constant
<1>2. answers \in [1..(IF triad THEN 3 ELSE 1) -> Texts] /\ Reviewing(reviewers, IF triad THEN 3 ELSE 1)
      /\ outcome = "none"
  BY <1>1 DEF DispatchInv, AtReview, ReviewersAt
<1>3. AtReview'
  BY <1>1, <1>2 DEF AtReview, ReviewersAt, Texts
<1>4. DispatchTyped' /\ OnTheWay' /\ KeptIsLatest' /\ ZeroIsEscalated'
  BY <1>1 DEF DispatchInv, DispatchTyped, OnTheWay, KeptIsLatest, ZeroIsEscalated
<1>5. Refused'
  BY <1>1, <1>2 DEF Refused
<1> QED
  BY <1>3, <1>4, <1>5 DEF DispatchInv

LEMMA EscalateKeeps == DispatchInv /\ Escalate => DispatchInv'
<1> SUFFICES ASSUME DispatchInv, Escalate PROVE DispatchInv'
  OBVIOUS
<1>1. at = "answered" /\ Constant /\ UNCHANGED <<round, kept, decided>>
  BY DEF Escalate
<1>2. CASE escalated' = escalated /\ Ends("failed")
  BY <1>1, <1>2, EndsKeeps
<1>3. CASE /\ escalated' = escalated \cup {round} /\ at' = "storing"
           /\ UNCHANGED <<reviewers, answers, outcome>>
  <2>1. DispatchTyped' /\ OnTheWay' /\ KeptIsLatest' /\ ZeroIsEscalated'
    BY <1>1, <1>3 DEF DispatchInv, DispatchTyped, OnTheWay, KeptIsLatest, ZeroIsEscalated, Constant
  <2>2. AtReview'
    BY <1>1, <1>3 DEF DispatchInv, AtReview, ReviewersAt, Constant
  <2>3. Refused'
    BY <1>1, <1>3 DEF DispatchInv, AtReview, Refused
  <2> QED
    BY <2>1, <2>2, <2>3 DEF DispatchInv
<1> QED
  BY <1>2, <1>3 DEF Escalate

LEMMA SaveKeeps == DispatchInv /\ SaveFindings => DispatchInv'
<1> SUFFICES ASSUME DispatchInv, SaveFindings PROVE DispatchInv'
  OBVIOUS
<1>1. /\ at = "storing" \/ (at = "answered" /\ ~Aggregate.zero)
      /\ kept' = Aggregate /\ Constant /\ UNCHANGED <<round, escalated, decided>>
      /\ IF command = "dogfood"
         THEN at' = "deciding" /\ UNCHANGED <<reviewers, answers, outcome>>
         ELSE Ends("stored")
  BY DEF SaveFindings
<1>2. at # "idle" /\ outcome = "none"
  BY <1>1 DEF DispatchInv, AtReview
<1>3. kept' \in KeptReviews /\ kept'.round = round
  BY <1>1, <1>2, AggregateFacts
<1>4. kept'.zero => round \in escalated
  BY <1>1 DEF DispatchInv, OnTheWay
<1>5. DispatchTyped'
  BY <1>1, <1>3 DEF DispatchInv, DispatchTyped, Constant, Ends
<1>6. ZeroIsEscalated'
  BY <1>1, <1>3, <1>4 DEF DispatchInv, ZeroIsEscalated, Constant
<1>7. OnTheWay' /\ KeptIsLatest' /\ Refused'
  BY <1>1, <1>2, <1>3 DEF DispatchInv, DispatchTyped, OnTheWay, KeptIsLatest, Refused, Ends
<1>8. AtReview'
  <2>1. CASE command = "dogfood"
    BY <1>1, <1>2, <2>1 DEF DispatchInv, AtReview, ReviewersAt, Constant
  <2>2. CASE command # "dogfood"
    BY <1>1, <2>2 DEF AtReview, Ends
  <2> QED
    BY <2>1, <2>2
<1> QED
  BY <1>5, <1>6, <1>7, <1>8 DEF DispatchInv

LEMMA DogfoodKeeps == DispatchInv /\ DogfoodDecides => DispatchInv'
<1> SUFFICES ASSUME DispatchInv, DogfoodDecides PROVE DispatchInv'
  OBVIOUS
<1>1. /\ at = "deciding" /\ Ends("stored") /\ Constant /\ UNCHANGED <<round, kept, escalated>>
      /\ decided'.on = Aggregate
      /\ decided'.choice = IF Aggregate.zero \/ Aggregate.critical > 0 THEN "rejected" ELSE "approved"
  BY DEF DogfoodDecides, Decides
<1>2. kept.round = round /\ Aggregate.critical \in Nat
  BY <1>1, AggregateFacts DEF DispatchInv, OnTheWay, KeptReviews
<1>3. DispatchTyped' /\ OnTheWay' /\ KeptIsLatest' /\ AtReview' /\ Refused'
  BY <1>1, <1>2 DEF DispatchInv, DispatchTyped, OnTheWay, KeptIsLatest, AtReview, Refused, Ends,
    Constant, KeptReviews
<1>4. ZeroIsEscalated'
  BY <1>1, <1>2 DEF DispatchInv, ZeroIsEscalated
<1> QED
  BY <1>3, <1>4 DEF DispatchInv

LEMMA ApproveKeepsReview == DispatchInv /\ ApproveYes => DispatchInv'
<1> SUFFICES ASSUME DispatchInv, ApproveYes PROVE DispatchInv'
  OBVIOUS
<1>1. /\ command = "review"
      /\ decided'.on = kept /\ decided'.choice = IF kept.zero THEN "refused" ELSE "approved"
      /\ UNCHANGED <<roster, triad, command, round, at, reviewers, answers, kept, outcome, escalated>>
  BY DEF ApproveYes, Decides, Constant
<1>2. Available' = Available
  BY <1>1, AvailableStays
<1>3. DispatchTyped' /\ OnTheWay' /\ KeptIsLatest' /\ AtReview' /\ Refused'
  BY <1>1, <1>2 DEF DispatchInv, DispatchTyped, OnTheWay, KeptIsLatest, AtReview, ReviewersAt, Refused
<1>4. ZeroIsEscalated'
  BY <1>1 DEF DispatchInv, ZeroIsEscalated
<1> QED
  BY <1>3, <1>4 DEF DispatchInv

LEMMA DispatchKeeps == DispatchInv /\ [ReviewNext]_reviewVars => DispatchInv'
<1> SUFFICES ASSUME DispatchInv, [ReviewNext]_reviewVars PROVE DispatchInv'
  OBVIOUS
<1>1. CASE \E halted \in BOOLEAN : AssignReviewers(halted)
  BY <1>1, AssignKeeps
<1>2. ASSUME NEW i \in DOMAIN answers, NEW text \in AnswerTexts, ReviewerAnswers(i, text)
      PROVE  DispatchInv'
  BY <1>2, AnswerKeeps
<1>3. ASSUME NEW i \in DOMAIN answers, NEW swallowed \in BOOLEAN, ReviewerFails(i, swallowed)
      PROVE  DispatchInv'
  <2>1. PICK how \in {"without", "failed"} : Ends(how)
    BY <1>3 DEF ReviewerFails
  <2>2. Constant /\ UNCHANGED <<round, kept, decided>> /\ escalated \subseteq escalated'
    BY <1>3 DEF ReviewerFails
  <2> QED
    BY <2>1, <2>2, EndsKeeps
<1>4. CASE Escalate \/ SaveFindings \/ DogfoodDecides \/ ApproveYes
  BY <1>4, EscalateKeeps, SaveKeeps, DogfoodKeeps, ApproveKeepsReview
<1>5. CASE UNCHANGED reviewVars
  <2>1. UNCHANGED <<roster, triad, command, round, at, reviewers, answers, kept, outcome,
                    escalated, decided>>
    BY <1>5 DEF reviewVars
  <2>2. Available' = Available
    BY <2>1, AvailableStays
  <2> QED
    BY <2>1, <2>2 DEF DispatchInv, DispatchTyped, OnTheWay, KeptIsLatest, AtReview, ReviewersAt,
      Refused, ZeroIsEscalated
<1> QED
  BY <1>1, <1>2, <1>3, <1>4, <1>5 DEF ReviewNext

(* Whatever models the settings name, in whatever order reviewers answer   *)
(* or fail, and however often a review is repeated (review_router.py,      *)
(* review_executor.py, findings_aggregator.py): reviewers are independent, *)
(* the stored review is the last that was answered, silence is escalated   *)
(* and never approved without a human, and unread text is no silence.      *)
THEOREM ReviewsAreSound == ReviewSpec => []ReviewsSound
<1>1. DispatchInv => ReviewsSound
  <2> SUFFICES ASSUME DispatchInv PROVE ReviewsSound
    OBVIOUS
  <2>1. AssignmentSound
    <3>1. ASSUME at # "idle" PROVE Independent(reviewers) /\ (Len(reviewers) = 3 <=> triad)
      <4>1. Independent(reviewers) /\ Len(reviewers) = IF triad THEN 3 ELSE 1
        BY <3>1 DEF DispatchInv, AtReview, ReviewersAt, Reviewing
      <4> QED
        BY <4>1
    <3> QED
      BY <3>1 DEF DispatchInv, Refused, AssignmentSound
  <2>2. UnreadIsSerious
    BY AggregateFacts DEF UnreadIsSerious
  <2> QED
    BY <2>1, <2>2 DEF DispatchInv, ReviewsSound
<1> QED
  BY <1>1, DispatchStarts, DispatchKeeps, PTL DEF ReviewSpec

-----------------------------------------------------------------------------
(* The cascade.  The nodes within a distance, by that distance; and the    *)
(* search, which works off one distance after the other.                   *)

Dependencies == [CascadeNodes -> SUBSET CascadeNodes]

Further(g, near) == near \cup UNION {g[m] : m \in near}

(* Within(n), of any graph.                                                *)
Near(g, n) ==
  LET near[k \in 0..n] == IF k = 0 THEN {Changed}
                          ELSE near[k - 1] \cup UNION {g[m] : m \in near[k - 1]}
  IN  near[n]

NearUpto(g, n, f) ==
  /\ f \in [0..n -> SUBSET CascadeNodes]
  /\ f[0] = {Changed} /\ \A k \in 1..n : f[k] = Further(g, f[k - 1])

LEMMA FurtherStays ==
  ASSUME NEW g \in Dependencies, NEW X \in SUBSET CascadeNodes
  PROVE  Further(g, X) \in SUBSET CascadeNodes
  BY DEF Further, Dependencies

(* What CHOOSE finds for the recursion of Near.                            *)
LEMMA NearDefined ==
  ASSUME NEW g \in Dependencies, NEW n \in Nat
  PROVE  \E f : NearUpto(g, n, f) /\ Near(g, n) = f[n]
<1> DEFINE S == SUBSET CascadeNodes
           step == [k \in 1..n |-> [X \in S |-> Further(g, X)]]
           Defines(f) == f = [k \in 0..n |-> IF k = 0 THEN {Changed} ELSE Further(g, f[k - 1])]
<1>1. {Changed} \in S
  BY DEF CascadeNodes
<1>2. \E f : Defines(f)
  <2>1. step \in StepsOf(n, S)
    BY FurtherStays DEF StepsOf
  <2>2. PICK f : Iterates(f, {Changed}, step, n, S)
    <3> HIDE DEF step, S
    <3> QED
      BY <1>1, <2>1, Iteration
  <2>3. /\ f \in [0..n -> S] /\ f[0] = {Changed}
        /\ \A k \in 1..n : f[k] = step[k][f[k - 1]]
    <3> HIDE DEF step, S
    <3> QED
      BY <2>2 DEF Iterates
  <2>4. ASSUME NEW k \in 1..n PROVE f[k] = Further(g, f[k - 1])
    <3> HIDE DEF S
    <3>1. k - 1 \in 0..n /\ f[k - 1] \in S
      BY <2>3
    <3> QED
      BY <2>3, <3>1
  <2>5. ASSUME NEW k \in 0..n
        PROVE  f[k] = IF k = 0 THEN {Changed} ELSE Further(g, f[k - 1])
    <3>1. CASE k = 0
      BY <2>3, <3>1
    <3>2. CASE k \in 1..n
      BY <2>4, <3>2
    <3> QED
      BY <3>1, <3>2
  <2> HIDE DEF S
  <2> QED
    BY <2>3, <2>5
<1> DEFINE f == CHOOSE h : Defines(h)
<1>3. Defines(f)
  BY <1>2
<1>4. Near(g, n) = f[n]
  BY DEF Near, Further
<1> HIDE DEF f
<1>5. f[0] = {Changed} /\ \A k \in 1..n : f[k] = Further(g, f[k - 1])
  <2>1. f = [k \in 0..n |-> IF k = 0 THEN {Changed} ELSE Further(g, f[k - 1])]
    BY <1>3
  <2>2. \A k \in 0..n : f[k] = IF k = 0 THEN {Changed} ELSE Further(g, f[k - 1])
    BY <2>1
  <2> QED
    BY <2>2
<1>6. \A k \in 0..n : f[k] \in S
  <2> DEFINE Good == {k \in Nat : k <= n => f[k] \in S}
  <2>1. 0 \in Good
    BY <1>1, <1>5
  <2>2. ASSUME NEW k \in Nat, k \in Good PROVE k + 1 \in Good
    <3>1. SUFFICES ASSUME k + 1 <= n PROVE f[k + 1] \in S
      OBVIOUS
    <3>2. k + 1 \in 1..n /\ (k + 1) - 1 = k /\ f[k] \in S
      BY <2>2, <3>1
    <3> QED
      BY <1>5, <3>2, FurtherStays
  <2>3. \A k \in Nat : k \in Good
    <3> HIDE DEF Good
    <3> QED
      BY <2>1, <2>2, Induction
  <2> QED
    BY <2>3
<1>7. f \in [0..n -> S]
  BY <1>3, <1>6
<1>8. NearUpto(g, n, f)
  BY <1>5, <1>7 DEF NearUpto
<1> QED
  BY <1>4, <1>8

LEMMA NearAgree ==
  ASSUME NEW g \in Dependencies, NEW n \in Nat, NEW m \in Nat, n <= m,
         NEW a, NEW b, NearUpto(g, n, a), NearUpto(g, m, b)
  PROVE  \A k \in 0..n : a[k] = b[k]
<1> DEFINE Good == {k \in Nat : k <= n => a[k] = b[k]}
<1>1. 0 \in Good
  BY DEF NearUpto
<1>2. ASSUME NEW k \in Nat, k \in Good PROVE k + 1 \in Good
  <2>1. SUFFICES ASSUME k + 1 <= n PROVE a[k + 1] = b[k + 1]
    OBVIOUS
  <2>2. k + 1 \in 1..n /\ k + 1 \in 1..m /\ (k + 1) - 1 = k /\ a[k] = b[k]
    BY <1>2, <2>1
  <2> QED
    BY <2>2 DEF NearUpto
<1>3. \A k \in Nat : k \in Good
  <2> HIDE DEF Good
  <2> QED
    BY <1>1, <1>2, Induction
<1> QED
  BY <1>3

LEMMA NearFacts ==
  ASSUME NEW g \in Dependencies, NEW n \in Nat
  PROVE  /\ Near(g, n) \in SUBSET CascadeNodes
         /\ Near(g, 0) = {Changed}
         /\ Near(g, n + 1) = Further(g, Near(g, n))
<1>1. PICK a : NearUpto(g, n, a) /\ Near(g, n) = a[n]
  BY NearDefined
<1>2. PICK b : NearUpto(g, n + 1, b) /\ Near(g, n + 1) = b[n + 1]
  BY NearDefined
<1>3. PICK c : NearUpto(g, 0, c) /\ Near(g, 0) = c[0]
  BY NearDefined
<1>4. a[n] = b[n]
  <2>1. n + 1 \in Nat /\ n <= n + 1 /\ n \in 0..n
    OBVIOUS
  <2> QED
    BY <1>1, <1>2, <2>1, NearAgree
<1>5. b[n + 1] = Further(g, b[n])
  BY <1>2 DEF NearUpto
<1> QED
  BY <1>1, <1>2, <1>3, <1>4, <1>5 DEF NearUpto

LEMMA FurtherGrows ==
  ASSUME NEW g, NEW X, NEW Y, X \subseteq Y
  PROVE  X \subseteq Further(g, X) /\ Further(g, X) \subseteq Further(g, Y)
  BY DEF Further

LEMMA NearGrows ==
  ASSUME NEW g \in Dependencies, NEW j \in Nat, NEW k \in Nat, j <= k
  PROVE  Near(g, j) \subseteq Near(g, k)
<1> DEFINE Good == {d \in Nat : Near(g, j) \subseteq Near(g, j + d)}
<1>1. 0 \in Good
  OBVIOUS
<1>2. ASSUME NEW d \in Nat, d \in Good PROVE d + 1 \in Good
  <2>1. j + d \in Nat /\ (j + d) + 1 = j + (d + 1)
    OBVIOUS
  <2>2. Near(g, j + d) \subseteq Near(g, (j + d) + 1)
    BY <2>1, NearFacts, FurtherGrows
  <2> QED
    BY <1>2, <2>1, <2>2
<1>3. \A d \in Nat : d \in Good
  <2> HIDE DEF Good
  <2> QED
    BY <1>1, <1>2, Induction
<1>4. k - j \in Nat /\ j + (k - j) = k
  OBVIOUS
<1> QED
  BY <1>3, <1>4

(* Once a distance adds nothing, no further one does.                      *)
LEMMA NearStays ==
  ASSUME NEW g \in Dependencies, NEW j \in Nat, NEW k \in Nat, j <= k,
         Near(g, j + 1) = Near(g, j)
  PROVE  Near(g, k) = Near(g, j)
<1> DEFINE Good == {d \in Nat : Near(g, j + d) = Near(g, j)}
<1>1. 0 \in Good
  OBVIOUS
<1>2. ASSUME NEW d \in Nat, d \in Good PROVE d + 1 \in Good
  <2>1. j + d \in Nat /\ (j + d) + 1 = j + (d + 1)
    OBVIOUS
  <2>2. Near(g, (j + d) + 1) = Further(g, Near(g, j + d))
    BY <2>1, NearFacts
  <2>3. Near(g, j + 1) = Further(g, Near(g, j))
    BY NearFacts
  <2> QED
    BY <1>2, <2>1, <2>2, <2>3
<1>3. \A d \in Nat : d \in Good
  <2> HIDE DEF Good
  <2> QED
    BY <1>1, <1>2, Induction
<1>4. k - j \in Nat /\ j + (k - j) = k
  OBVIOUS
<1> QED
  BY <1>3, <1>4

LEMMA NodesFinite == IsFiniteSet(CascadeNodes) /\ Cardinality(CascadeNodes) \in Nat
<1>1. IsFiniteSet(Downstream \cup {Changed})
  BY CascadeConstants, FS_AddElement
<1>2. CascadeNodes = Downstream \cup {Changed}
  BY DEF CascadeNodes
<1> QED
  BY <1>1, <1>2, FS_CardinalityType

(* A distance that adds something adds a node, so that not more of them do *)
(* than there are nodes.                                                   *)
LEMMA NearCounts ==
  ASSUME NEW g \in Dependencies, NEW k \in Nat
  PROVE  \/ \E j \in Nat : j < k /\ Near(g, j + 1) = Near(g, j)
         \/ Cardinality(Near(g, k)) >= k + 1
<1> DEFINE Closed(k1) == \E j \in Nat : j < k1 /\ Near(g, j + 1) = Near(g, j)
           Good == {k1 \in Nat : Closed(k1) \/ Cardinality(Near(g, k1)) >= k1 + 1}
<1>1. 0 \in Good
  <2>1. Near(g, 0) = {Changed}
    BY NearFacts
  <2>2. Cardinality({Changed}) = 1
    BY FS_Singleton
  <2> QED
    BY <2>1, <2>2
<1>2. ASSUME NEW n \in Nat, n \in Good PROVE n + 1 \in Good
  <2>1. CASE Closed(n)
    <3>1. PICK j \in Nat : j < n /\ Near(g, j + 1) = Near(g, j)
      BY <2>1
    <3>2. j < n + 1
      BY <3>1
    <3> QED
      BY <3>1, <3>2
  <2>2. CASE Near(g, n + 1) = Near(g, n)
    <3>1. n < n + 1
      OBVIOUS
    <3> QED
      BY <2>2, <3>1
  <2>3. CASE ~Closed(n) /\ Near(g, n + 1) # Near(g, n)
    <3>1. Cardinality(Near(g, n)) >= n + 1
      BY <1>2, <2>3
    <3>2. PICK X \in SUBSET CascadeNodes, Y \in SUBSET CascadeNodes :
            X = Near(g, n) /\ Y = Near(g, n + 1)
      BY NearFacts
    <3>3. X \subseteq Y /\ X # Y
      <4>1. n \in Nat /\ n + 1 \in Nat /\ n <= n + 1
        OBVIOUS
      <4> QED
        BY <2>3, <3>2, <4>1, NearGrows
    <3>4. IsFiniteSet(Y) /\ IsFiniteSet(X)
      BY NodesFinite, FS_Subset
    <3>5. /\ Cardinality(X) \in Nat /\ Cardinality(Y) \in Nat
          /\ Cardinality(X) <= Cardinality(Y) /\ Cardinality(X) # Cardinality(Y)
      BY <3>3, <3>4, FS_Subset, FS_CardinalityType
    <3>6. Cardinality(Y) >= (n + 1) + 1
      BY <3>1, <3>2, <3>5
    <3> QED
      BY <3>2, <3>6
  <2> HIDE DEF Closed
  <2> QED
    BY <2>1, <2>2, <2>3
<1>3. \A n \in Nat : n \in Good
  <2> HIDE DEF Good
  <2> QED
    BY <1>1, <1>2, Induction
<1> QED
  BY <1>3

(* Everything is within a distance exactly when the next one adds nothing. *)
LEMMA NearEnds ==
  ASSUME NEW g \in Dependencies, NEW k \in Nat
  PROVE  Near(g, Cardinality(CascadeNodes)) = Near(g, k) <=> Near(g, k + 1) = Near(g, k)
<1> DEFINE N == Cardinality(CascadeNodes)
<1>1. N \in Nat
  BY NodesFinite
<1>2. PICK j \in Nat : j < N /\ Near(g, j + 1) = Near(g, j)
  <2>1. PICK X \in SUBSET CascadeNodes : X = Near(g, N)
    BY <1>1, NearFacts
  <2>2. Cardinality(X) <= N /\ Cardinality(X) \in Nat
    BY NodesFinite, FS_Subset, FS_CardinalityType
  <2>3. ~(Cardinality(Near(g, N)) >= N + 1)
    BY <1>1, <2>1, <2>2
  <2> HIDE DEF N
  <2> QED
    BY <1>1, <2>3, NearCounts
<1>3. Near(g, N) = Near(g, j) /\ Near(g, N + 1) = Near(g, N)
  <2> HIDE DEF N
  <2>1. N + 1 \in Nat /\ j <= N /\ j <= N + 1
    BY <1>1, <1>2
  <2> QED
    BY <1>1, <1>2, <2>1, NearStays
<1>4. ASSUME Near(g, N) = Near(g, k) PROVE Near(g, k + 1) = Near(g, k)
  <2>1. Near(g, k + 1) = Further(g, Near(g, k)) /\ Near(g, N + 1) = Further(g, Near(g, N))
    BY <1>1, NearFacts
  <2> QED
    BY <1>3, <1>4, <2>1
<1>5. ASSUME Near(g, k + 1) = Near(g, k) PROVE Near(g, N) = Near(g, k)
  <2> HIDE DEF N
  <2>1. CASE k <= N
    BY <1>1, <1>5, <2>1, NearStays
  <2>2. CASE N <= k
    BY <1>1, <1>3, <2>2, NearStays
  <2> QED
    BY <1>1, <2>1, <2>2
<1> QED
  BY <1>4, <1>5

LEMMA SetToSeqFacts ==
  ASSUME NEW S, IsFiniteSet(S)
  PROVE  /\ SetToSeq(S) \in Seq(S)
         /\ \A x \in S : \E i \in 1..Len(SetToSeq(S)) : SetToSeq(S)[i] = x
         /\ IsInjective(SetToSeq(S))
<1> DEFINE n == Cardinality(S)
           f == SetToSeq(S)
<1>1. n \in Nat /\ ExistsBijection(1..n, S)
  BY FS_CardinalityType
<1>2. \E h \in [1..n -> S] : IsInjective(h)
  BY <1>1 DEF ExistsBijection, Bijection, Injection
<1>3. f \in [1..n -> S] /\ IsInjective(f)
  BY <1>2 DEF SetToSeq
<1> HIDE DEF f
<1>4. f \in Injection(1..n, S)
  BY <1>3 DEF Injection
<1>5. Cardinality(1..n) = n
  <2> HIDE DEF n
  <2>1. n \in Int /\ 1 \in Int
    BY <1>1
  <2>2. Cardinality(1..n) = IF 1 > n THEN 0 ELSE n - 1 + 1
    BY <2>1, FS_Interval
  <2> QED
    BY <1>1, <2>2
<1>6. f \in Surjection(1..n, S)
  BY <1>4, <1>5, FS_Injection
<1>7. f \in Seq(S) /\ Len(f) = n
  <2> HIDE DEF n
  <2> QED
    BY <1>1, <1>3
<1>8. \A x \in S : \E i \in 1..Len(f) : f[i] = x
  BY <1>6, <1>7 DEF Surjection
<1> QED
  BY <1>3, <1>7, <1>8 DEF f

(* The queue when its head has been taken and others were put behind it.   *)
LEMMA Requeued ==
  ASSUME NEW S, NEW q \in Seq(S), q # <<>>, NEW more \in Seq(S), NEW r, r = Tail(q) \o more
  PROVE  /\ r \in Seq(S) /\ Len(q) >= 1 /\ Len(r) = Len(q) - 1 + Len(more)
         /\ \A i \in 1..Len(r) :
              IF i <= Len(q) - 1 THEN r[i] = q[i + 1]
              ELSE /\ i - (Len(q) - 1) \in 1..Len(more)
                   /\ r[i] = more[i - (Len(q) - 1)]
<1>1. PICK t \in Seq(S) : t = Tail(q)
  BY HeadTailProperties
<1>2. Len(t) = Len(q) - 1 /\ \A i \in 1..Len(t) : t[i] = q[i + 1]
  BY <1>1, HeadTailProperties
<1>3. Len(q) \in Nat /\ Len(q) # 0 /\ Len(more) \in Nat
  BY EmptySeq, LenProperties
<1>4. /\ r \in Seq(S) /\ Len(r) = Len(t) + Len(more)
      /\ \A i \in 1..(Len(t) + Len(more)) : r[i] = IF i <= Len(t) THEN t[i] ELSE more[i - Len(t)]
  BY <1>1, ConcatProperties
<1>5. ASSUME NEW i \in 1..Len(r)
      PROVE  IF i <= Len(q) - 1 THEN r[i] = q[i + 1]
              ELSE /\ i - (Len(q) - 1) \in 1..Len(more)
                   /\ r[i] = more[i - (Len(q) - 1)]
  <2>1. i \in 1..(Len(t) + Len(more)) /\ Len(t) \in Nat
    BY <1>2, <1>3, <1>4
  <2>2. CASE i <= Len(q) - 1
    BY <1>2, <1>3, <1>4, <2>1, <2>2
  <2>3. CASE ~(i <= Len(q) - 1)
    <3>1. i - (Len(q) - 1) \in 1..Len(more)
      BY <1>2, <1>3, <2>1, <2>3
    <3> QED
      BY <1>2, <1>4, <2>1, <2>3, <3>1
  <2> QED
    BY <2>2, <2>3
<1> QED
  BY <1>2, <1>3, <1>4, <1>5

LEMMA MaxOfTwo == ASSUME NEW a \in Nat, NEW b \in Nat, a <= b PROVE Max({a, b}) = b
<1>1. b \in {a, b} /\ \A y \in {a, b} : b >= y
  OBVIOUS
<1>2. \A x \in {a, b} : (\A y \in {a, b} : x >= y) => x = b
  OBVIOUS
<1> QED
  BY <1>1, <1>2 DEF Max

(* The search works off the nodes at distance d: all within d have been    *)
(* seen, those at d wait in the queue, the others have been searched;      *)
(* whatever else was seen is at d + 1, and waits behind them unless the    *)
(* limit is reached.                                                       *)
CascadeTyped ==
  /\ depends \in Dependencies /\ max_depth \in Nat
  /\ visited \in SUBSET CascadeNodes /\ queue \in Seq(CascadeNodes \X Nat)

Places == 1..Len(queue)
Waits(n, k) == \E i \in Places : queue[i] = <<n, k>>

Sorted == \A i, j \in Places : i < j => queue[i][2] <= queue[j][2]

Waiting(d) ==
  \A i \in Places :
    \/ queue[i][2] = d /\ queue[i][1] \in Near(depends, d)
    \/ /\ queue[i][2] = d + 1 /\ d < max_depth
       /\ queue[i][1] \in visited /\ queue[i][1] \notin Near(depends, d)

Seen(d) ==
  /\ d <= max_depth /\ Near(depends, d) \subseteq visited /\ visited \subseteq Near(depends, d + 1)
  /\ d < max_depth => \A n \in visited : n \in Near(depends, d) \/ Waits(n, d + 1)
  /\ \A m \in Near(depends, d) : Waits(m, d) \/ depends[m] \subseteq visited
  /\ \A j \in Nat : j < d => Near(depends, j) # Near(depends, d)

Told(d) ==
  /\ affected = (visited \cap Near(depends, max_depth)) \ (Unlisted \cup {Changed})
  /\ truncated <=> ~(visited \subseteq Near(depends, max_depth))
  /\ cascade_depth = IF d < max_depth /\ ~(visited \subseteq Near(depends, d)) THEN d + 1 ELSE d

AtDistance(d) == Sorted /\ Waiting(d) /\ Seen(d) /\ Told(d)

CascadeInv == CascadeTyped /\ \E d \in Nat : AtDistance(d)

LEMMA CascadeStarts == CascadeInit => CascadeInv
<1> SUFFICES ASSUME CascadeInit PROVE CascadeInv
  OBVIOUS
<1>1. PICK first \in SUBSET Downstream, later \in [Downstream -> SUBSET Downstream] :
        depends = [n \in CascadeNodes |-> IF n = Changed THEN first ELSE later[n] \cup {Changed}]
  BY DEF CascadeInit
<1>2. depends \in Dependencies
  BY <1>1 DEF Dependencies, CascadeNodes
<1>3. /\ max_depth \in Nat /\ visited = {Changed} /\ queue = <<<<Changed, 0>>>>
      /\ affected = {} /\ cascade_depth = 0 /\ truncated = FALSE /\ Changed \in CascadeNodes
  BY CascadeConstants DEF CascadeInit, CascadeNodes
<1>4. CascadeTyped
  BY <1>2, <1>3 DEF CascadeTyped
<1>5. PICK g \in Dependencies : g = depends
  BY <1>2
<1>6. Near(g, 0) = {Changed} /\ {Changed} \subseteq Near(g, max_depth) /\ {Changed} \subseteq Near(g, 1)
  <2>1. PICK n \in Nat : n = max_depth
    BY <1>3
  <2>2. 0 \in Nat /\ 1 \in Nat /\ 0 <= n /\ 0 <= 1
    BY <2>1
  <2> QED
    BY <2>1, <2>2, NearFacts, NearGrows
<1>7. Places = {1} /\ queue[1] = <<Changed, 0>>
  BY <1>3 DEF Places
<1>8. Sorted /\ Waiting(0) /\ Waits(Changed, 0)
  BY <1>5, <1>6, <1>7 DEF Sorted, Waiting, Waits
<1>9. Seen(0)
  BY <1>3, <1>5, <1>6, <1>8 DEF Seen
<1>10. Told(0)
  BY <1>3, <1>5, <1>6 DEF Told
<1> QED
  BY <1>4, <1>8, <1>9, <1>10 DEF CascadeInv, AtDistance

(* When no node at d waits any more, all within d + 1 have been seen.      *)
LEMMA NextDistance ==
  ASSUME CascadeTyped, NEW d \in Nat, AtDistance(d), queue # <<>>, queue[1][2] # d
  PROVE  AtDistance(d + 1) /\ queue[1][2] = d + 1
<1>1. PICK g \in Dependencies : g = depends
  BY DEF CascadeTyped
<1>2. Len(queue) \in Nat /\ 1 \in Places
  <2>1. Len(queue) \in Nat \ {0}
    BY EmptySeq DEF CascadeTyped
  <2> QED
    BY <2>1 DEF Places
<1>3. /\ queue[1][2] = d + 1 /\ d < max_depth /\ max_depth \in Nat
      /\ queue[1][1] \in visited /\ queue[1][1] \notin Near(g, d)
  BY <1>1, <1>2 DEF AtDistance, Waiting, CascadeTyped
<1>4. ASSUME NEW i \in Places
      PROVE  /\ queue[i][2] = d + 1 /\ queue[i][1] \in visited /\ queue[i][1] \notin Near(g, d)
             /\ queue[i] = <<queue[i][1], d + 1>>
  <2>1. queue[i] \in CascadeNodes \X Nat
    BY DEF Places, CascadeTyped
  <2>2. queue[1][2] <= queue[i][2]
    <3>1. CASE i = 1
      BY <1>3, <3>1
    <3>2. CASE i # 1
      BY <1>2, <3>2 DEF AtDistance, Sorted, Places
    <3> QED
      BY <3>1, <3>2
  <2>3. queue[i][2] # d
    BY <1>3, <2>2
  <2> QED
    BY <1>1, <2>1, <2>3 DEF AtDistance, Waiting
<1>5. \A m \in Near(g, d) : g[m] \subseteq visited
  <2> SUFFICES ASSUME NEW m \in Near(g, d) PROVE g[m] \subseteq visited
    OBVIOUS
  <2>1. ~Waits(m, d)
    <3> SUFFICES ASSUME NEW i \in Places, queue[i] = <<m, d>> PROVE FALSE
      BY DEF Waits
    <3> QED
      BY <1>4
  <2> QED
    BY <1>1, <2>1 DEF AtDistance, Seen
<1>6. visited = Near(g, d + 1)
  <2>1. Near(g, d + 1) = Further(g, Near(g, d))
    BY NearFacts
  <2>2. Near(g, d) \subseteq visited /\ visited \subseteq Near(g, d + 1)
    BY <1>1 DEF AtDistance, Seen
  <2> QED
    BY <1>5, <2>1, <2>2 DEF Further
<1>7. Near(g, d) \subseteq Near(g, d + 1) /\ Near(g, d + 1) \subseteq Near(g, d + 2)
      /\ Near(g, d + 1) # Near(g, d)
  <2>1. d + 1 \in Nat /\ d + 2 \in Nat /\ d <= d + 1 /\ d + 1 <= d + 2
    OBVIOUS
  <2> QED
    BY <1>3, <1>6, <2>1, NearGrows
<1>8. Waiting(d + 1)
  BY <1>1, <1>4, <1>6 DEF Waiting
<1>9. Seen(d + 1)
  <2>1. d + 1 <= max_depth /\ (d + 1) + 1 = d + 2
    BY <1>3
  <2>2. \A m \in Near(g, d + 1) : Waits(m, d + 1) \/ g[m] \subseteq visited
    BY <1>1, <1>3, <1>5, <1>6 DEF AtDistance, Seen
  <2>3. ASSUME NEW j \in Nat, j < d + 1 PROVE Near(g, j) # Near(g, d + 1)
    <3>1. j <= d
      BY <2>3
    <3>2. Near(g, j) \subseteq Near(g, d)
      BY <3>1, NearGrows
    <3> QED
      BY <1>7, <3>2
  <2> QED
    BY <1>1, <1>6, <1>7, <2>1, <2>2, <2>3 DEF Seen
<1>10. Told(d + 1)
  <2>1. cascade_depth = d + 1
    BY <1>1, <1>3 DEF AtDistance, Told
  <2> QED
    BY <1>1, <1>6, <2>1 DEF AtDistance, Told
<1> QED
  BY <1>3, <1>8, <1>9, <1>10 DEF AtDistance

(* What a step does that takes a node at distance d.                       *)
Searches(d, fresh, more) ==
  /\ fresh = depends[queue[1][1]] \ visited
  /\ visited' = visited \cup fresh /\ depends' = depends /\ max_depth' = max_depth
  /\ queue' = Tail(queue) \o more
  /\ \A i \in 1..Len(more) : d < max_depth /\ more[i] \in fresh \X {d + 1}
  /\ d < max_depth => \A n \in fresh : \E i \in 1..Len(more) : more[i] = <<n, d + 1>>
  /\ truncated' = (truncated \/ (d = max_depth /\ fresh # {}))
  /\ affected' = affected \cup IF d = max_depth THEN {} ELSE fresh \ (Unlisted \cup {Changed})
  /\ cascade_depth' = IF d = max_depth \/ fresh = {} THEN cascade_depth ELSE d + 1

LEMMA PropagateSearches ==
  ASSUME CascadeTyped, NEW d \in Nat, AtDistance(d), queue # <<>>, queue[1][2] = d, Propagate
  PROVE  \E fresh \in SUBSET CascadeNodes, more \in Seq(CascadeNodes \X Nat) :
           Searches(d, fresh, more)
<1> DEFINE fresh == depends[queue[1][1]] \ visited
           deep == d + 1 > max_depth
           more == IF deep THEN <<>> ELSE SetToSeq(fresh \X {d + 1})
<1>1. Len(queue) \in Nat /\ 1 \in Places /\ Head(queue) = queue[1]
  <2>1. Len(queue) \in Nat \ {0}
    BY EmptySeq DEF CascadeTyped
  <2> QED
    BY <2>1, HeadTailProperties DEF Places, CascadeTyped
<1>2. queue[1] \in CascadeNodes \X Nat
  BY <1>1 DEF Places, CascadeTyped
<1>3. fresh \in SUBSET CascadeNodes
  BY <1>2 DEF CascadeTyped, Dependencies
<1>4. max_depth \in Nat /\ d <= max_depth /\ (deep <=> d = max_depth) /\ (~deep <=> d < max_depth)
  BY DEF CascadeTyped, AtDistance, Seen
<1>5. IsFiniteSet(fresh \X {d + 1})
  <2>1. IsFiniteSet(fresh)
    BY <1>3, NodesFinite, FS_Subset
  <2>2. IsFiniteSet({d + 1})
    BY FS_Singleton
  <2> QED
    BY <2>1, <2>2, FS_Product
<1>6. /\ visited' = visited \cup fresh
      /\ truncated' = (truncated \/ (deep /\ fresh # {}))
      /\ queue' = Tail(queue) \o more
      /\ affected' = affected \cup IF deep THEN {} ELSE fresh \ (Unlisted \cup {Changed})
      /\ cascade_depth' = IF deep \/ fresh = {} THEN cascade_depth ELSE Max({cascade_depth, d + 1})
      /\ depends' = depends /\ max_depth' = max_depth
  BY <1>1 DEF Propagate, TakeFirst
<1>7. cascade_depth \in Nat /\ cascade_depth <= d + 1
  BY DEF AtDistance, Told
<1>8. Max({cascade_depth, d + 1}) = d + 1
  BY <1>7, MaxOfTwo
<1>9. /\ more \in Seq(CascadeNodes \X Nat)
      /\ \A i \in 1..Len(more) : d < max_depth /\ more[i] \in fresh \X {d + 1}
      /\ d < max_depth => \A n \in fresh : \E i \in 1..Len(more) : more[i] = <<n, d + 1>>
  <2>1. CASE deep
    <3>1. more = <<>> /\ Len(more) = 0 /\ ~(d < max_depth)
      BY <1>4, <2>1, EmptySeq
    <3>2. more \in Seq(CascadeNodes \X Nat) /\ 1..Len(more) = {}
      <4> HIDE DEF more
      <4> QED
        BY <3>1, EmptySeq
    <3> QED
      BY <3>1, <3>2
  <2>2. CASE ~deep
    <3> DEFINE S == fresh \X {d + 1}
    <3>1. more = SetToSeq(S)
      BY <2>2
    <3> HIDE DEF more
    <3>2. more \in Seq(S) /\ \A x \in S : \E i \in 1..Len(more) : more[i] = x
      <4>1. IsFiniteSet(S)
        BY <1>5
      <4> HIDE DEF S
      <4> QED
        BY <3>1, <4>1, SetToSeqFacts
    <3>3. S \subseteq CascadeNodes \X Nat
      BY <1>3
    <3>4. \A i \in 1..Len(more) : more[i] \in S
      <4> HIDE DEF S
      <4> QED
        BY <3>2, ElementOfSeq
    <3>5. more \in Seq(CascadeNodes \X Nat)
      <4> HIDE DEF S
      <4> QED
        BY <3>2, <3>3, SeqMonotonic
    <3>6. \A n \in fresh : <<n, d + 1>> \in S
      OBVIOUS
    <3>7. \A n \in fresh : \E i \in 1..Len(more) : more[i] = <<n, d + 1>>
      <4> HIDE DEF S, fresh
      <4> QED
        BY <3>2, <3>6
    <3> QED
      BY <1>4, <2>2, <3>4, <3>5, <3>7
  <2> QED
    BY <2>1, <2>2
<1>10. Searches(d, fresh, more)
  <2> HIDE DEF more
  <2>1. fresh = depends[queue[1][1]] \ visited
    OBVIOUS
  <2> HIDE DEF fresh
  <2> QED
    BY <1>4, <1>6, <1>8, <1>9, <2>1 DEF Searches
<1> HIDE DEF more, fresh
<1> QED
  BY <1>3, <1>9, <1>10

(* The queue behind the node that is taken.                                *)
LEMMA PropagateQueues ==
  ASSUME CascadeTyped, NEW d \in Nat, queue # <<>>,
         NEW fresh \in SUBSET CascadeNodes, NEW more \in Seq(CascadeNodes \X Nat),
         Searches(d, fresh, more)
  PROVE  /\ queue' \in Seq(CascadeNodes \X Nat)
         /\ \A i \in Places' : IF i <= Len(queue) - 1 THEN i + 1 \in Places /\ queue'[i] = queue[i + 1]
                                                      ELSE d < max_depth /\ queue'[i] \in fresh \X {d + 1}
         /\ \A n, k : Waits(n, k) /\ <<n, k>> # queue[1] => Waits(n, k)'
         /\ d < max_depth => \A n \in fresh : Waits(n, d + 1)'
<1> DEFINE S == CascadeNodes \X Nat
<1>0. PICK q \in Seq(S) : q = queue
  BY DEF CascadeTyped
<1>1. PICK r : q = queue /\ r = queue'
  BY <1>0
<1>2. q # <<>> /\ r = Tail(q) \o more
  BY <1>1 DEF Searches
<1>3. /\ r \in Seq(S) /\ Len(q) >= 1 /\ Len(r) = Len(q) - 1 + Len(more)
      /\ \A i \in 1..Len(r) :
           IF i <= Len(q) - 1 THEN r[i] = q[i + 1]
           ELSE /\ i - (Len(q) - 1) \in 1..Len(more)
                /\ r[i] = more[i - (Len(q) - 1)]
  <2> HIDE DEF S
  <2> QED
    BY <1>2, Requeued DEF S
<1>4. Len(q) \in Nat /\ Len(more) \in Nat /\ Len(r) \in Nat
  BY <1>3, LenProperties
<1>5. Places = 1..Len(q) /\ Places' = 1..Len(r)
  BY <1>1 DEF Places
<1>6. /\ \A i \in 1..Len(more) : d < max_depth /\ more[i] \in fresh \X {d + 1}
      /\ d < max_depth => \A n \in fresh : \E i \in 1..Len(more) : more[i] = <<n, d + 1>>
  BY DEF Searches
<1>7. ASSUME NEW i \in 1..Len(r)
      PROVE  IF i <= Len(q) - 1 THEN i + 1 \in 1..Len(q) /\ r[i] = q[i + 1]
                                ELSE d < max_depth /\ r[i] \in fresh \X {d + 1}
  <2>1. CASE i <= Len(q) - 1
    <3>1. i + 1 \in 1..Len(q)
      BY <1>4, <2>1
    <3>2. r[i] = q[i + 1]
      BY <1>3, <2>1
    <3> QED
      BY <2>1, <3>1, <3>2
  <2>2. CASE ~(i <= Len(q) - 1)
    <3>1. PICK j \in 1..Len(more) : r[i] = more[j]
      BY <1>3, <2>2
    <3> QED
      BY <1>6, <2>2, <3>1
  <2> QED
    BY <2>1, <2>2
<1>8. ASSUME NEW n, NEW k, NEW j \in 1..Len(q), q[j] = <<n, k>>, <<n, k>> # q[1]
      PROVE  \E i \in 1..Len(r) : r[i] = <<n, k>>
  <2>1. j # 1
    BY <1>8
  <2>2. j - 1 \in 1..Len(r) /\ j - 1 <= Len(q) - 1 /\ (j - 1) + 1 = j
    BY <1>3, <1>4, <2>1
  <2>3. r[j - 1] = q[(j - 1) + 1]
    BY <1>3, <2>2
  <2> QED
    BY <1>8, <2>2, <2>3
<1>9. ASSUME d < max_depth, NEW n \in fresh
      PROVE  \E i \in 1..Len(r) : r[i] = <<n, d + 1>>
  <2>1. PICK j \in 1..Len(more) : more[j] = <<n, d + 1>>
    BY <1>6, <1>9
  <2> DEFINE i == Len(q) - 1 + j
  <2>3. i \in 1..Len(r) /\ ~(i <= Len(q) - 1) /\ i - (Len(q) - 1) = j
    BY <1>3, <1>4
  <2> HIDE DEF i
  <2>4. r[i] = more[i - (Len(q) - 1)]
    BY <1>3, <2>3
  <2> QED
    BY <2>1, <2>3, <2>4
<1>10. \A n, k : Waits(n, k) /\ <<n, k>> # queue[1] => Waits(n, k)'
  <2> SUFFICES ASSUME NEW n, NEW k, Waits(n, k), <<n, k>> # queue[1] PROVE Waits(n, k)'
    OBVIOUS
  <2>1. PICK j \in 1..Len(q) : q[j] = <<n, k>>
    BY <1>1, <1>5 DEF Waits
  <2> QED
    BY <1>1, <1>5, <1>8, <2>1 DEF Waits
<1>11. d < max_depth => \A n \in fresh : Waits(n, d + 1)'
  BY <1>1, <1>5, <1>9 DEF Waits
<1> HIDE DEF S
<1> QED
  BY <1>1, <1>3, <1>5, <1>7, <1>10, <1>11 DEF S

LEMMA SameDistance ==
  ASSUME CascadeTyped, NEW d \in Nat, AtDistance(d), queue # <<>>, queue[1][2] = d, Propagate
  PROVE  CascadeTyped' /\ AtDistance(d)'
<1>1. PICK fresh \in SUBSET CascadeNodes, more \in Seq(CascadeNodes \X Nat) :
        Searches(d, fresh, more)
  BY PropagateSearches
<1>2. /\ queue' \in Seq(CascadeNodes \X Nat)
      /\ \A i \in Places' : IF i <= Len(queue) - 1 THEN i + 1 \in Places /\ queue'[i] = queue[i + 1]
                                                   ELSE d < max_depth /\ queue'[i] \in fresh \X {d + 1}
      /\ \A n, k : Waits(n, k) /\ <<n, k>> # queue[1] => Waits(n, k)'
      /\ d < max_depth => \A n \in fresh : Waits(n, d + 1)'
  BY <1>1, PropagateQueues
<1>3. PICK g \in Dependencies, K \in Nat : g = depends /\ K = max_depth
  BY DEF CascadeTyped
<1>4. /\ fresh = g[queue[1][1]] \ visited /\ visited' = visited \cup fresh
      /\ depends' = g /\ max_depth' = K
  BY <1>1, <1>3 DEF Searches
<1>5. CascadeTyped'
  BY <1>2, <1>3, <1>4 DEF CascadeTyped
<1>6. Len(queue) \in Nat /\ 1 \in Places /\ \A i \in Places : queue[i] \in CascadeNodes \X Nat
  <2>1. Len(queue) \in Nat \ {0}
    BY EmptySeq DEF CascadeTyped
  <2> QED
    BY <2>1 DEF Places, CascadeTyped
<1>7. queue[1][1] \in Near(g, d)
  BY <1>3, <1>6 DEF AtDistance, Waiting
<1>8. /\ fresh \subseteq Near(g, d + 1) /\ Near(g, d) \subseteq visited
      /\ visited \subseteq Near(g, d + 1) /\ d <= K /\ fresh \cap Near(g, d) = {}
  <2>1. Near(g, d + 1) = Further(g, Near(g, d))
    BY NearFacts
  <2>2. Near(g, d) \subseteq visited /\ visited \subseteq Near(g, d + 1) /\ d <= K
    BY <1>3 DEF AtDistance, Seen
  <2> QED
    BY <1>4, <1>7, <2>1, <2>2 DEF Further
<1>9. Sorted'
  <2> SUFFICES ASSUME NEW i \in Places', NEW j \in Places', i < j
               PROVE  queue'[i][2] <= queue'[j][2]
    BY DEF Sorted
  <2>1. i \in Int /\ j \in Int
    BY DEF Places
  <2>2. CASE j <= Len(queue) - 1
    <3>1. i <= Len(queue) - 1 /\ i + 1 < j + 1
      BY <1>6, <2>1, <2>2
    <3>2. /\ i + 1 \in Places /\ queue'[i] = queue[i + 1]
          /\ j + 1 \in Places /\ queue'[j] = queue[j + 1]
      BY <1>2, <2>2, <3>1
    <3> QED
      BY <3>1, <3>2 DEF AtDistance, Sorted
  <2>3. CASE ~(j <= Len(queue) - 1)
    <3>1. queue'[j] \in fresh \X {d + 1}
      BY <1>2, <2>3
    <3>2. queue'[i][2] \in {d, d + 1}
      <4>1. CASE i <= Len(queue) - 1
        BY <1>2, <4>1 DEF AtDistance, Waiting
      <4>2. CASE ~(i <= Len(queue) - 1)
        BY <1>2, <4>2
      <4> QED
        BY <4>1, <4>2
    <3> QED
      BY <3>1, <3>2
  <2> QED
    BY <2>2, <2>3
<1>10. Waiting(d)'
  <2> SUFFICES ASSUME NEW i \in Places'
               PROVE  \/ queue'[i][2] = d /\ queue'[i][1] \in Near(g, d)
                      \/ /\ queue'[i][2] = d + 1 /\ d < K
                         /\ queue'[i][1] \in visited' /\ queue'[i][1] \notin Near(g, d)
    BY <1>4 DEF Waiting
  <2>1. CASE i <= Len(queue) - 1
    <3>1. PICK j \in Places : queue'[i] = queue[j]
      BY <1>2, <2>1
    <3> QED
      BY <1>3, <1>4, <3>1 DEF AtDistance, Waiting
  <2>2. CASE ~(i <= Len(queue) - 1)
    <3>1. d < K /\ queue'[i] \in fresh \X {d + 1}
      BY <1>2, <1>3, <2>2
    <3> QED
      BY <1>4, <1>8, <3>1
  <2> QED
    BY <2>1, <2>2
<1>11. Seen(d)'
  <2>1. visited \subseteq visited' /\ visited' \subseteq Near(g, d + 1)
    BY <1>4, <1>8
  <2>2. ASSUME d < K, NEW n \in visited', n \notin Near(g, d) PROVE Waits(n, d + 1)'
    <3>1. CASE n \in fresh
      BY <1>2, <1>3, <2>2, <3>1
    <3>2. CASE n \in visited
      <4>1. Waits(n, d + 1)
        BY <1>3, <2>2, <3>2 DEF AtDistance, Seen
      <4>2. <<n, d + 1>> # queue[1]
        OBVIOUS
      <4> QED
        BY <1>2, <4>1, <4>2
    <3> QED
      BY <1>4, <3>1, <3>2
  <2>3. ASSUME NEW n \in Near(g, d), ~(g[n] \subseteq visited') PROVE Waits(n, d)'
    <3>1. Waits(n, d)
      BY <1>3, <2>1, <2>3 DEF AtDistance, Seen
    <3>2. <<n, d>> # queue[1]
      BY <1>4, <2>3
    <3> QED
      BY <1>2, <3>1, <3>2
  <2>4. \A j \in Nat : j < d => Near(g, j) # Near(g, d)
    BY <1>3 DEF AtDistance, Seen
  <2> QED
    BY <1>4, <1>8, <2>1, <2>2, <2>3, <2>4 DEF Seen
<1>12. Told(d)'
  <2>1. K \in Nat /\ Near(g, d) \subseteq Near(g, K) /\ (d < K => Near(g, d + 1) \subseteq Near(g, K))
    BY <1>8, NearGrows
  <2>2. /\ truncated' = (truncated \/ (d = K /\ fresh # {}))
        /\ affected' = affected \cup IF d = K THEN {} ELSE fresh \ (Unlisted \cup {Changed})
        /\ cascade_depth' = IF d = K \/ fresh = {} THEN cascade_depth ELSE d + 1
    BY <1>1, <1>3 DEF Searches
  <2>3. /\ affected = (visited \cap Near(g, K)) \ (Unlisted \cup {Changed})
        /\ truncated <=> ~(visited \subseteq Near(g, K))
        /\ cascade_depth = IF d < K /\ ~(visited \subseteq Near(g, d)) THEN d + 1 ELSE d
    BY <1>3 DEF AtDistance, Told
  <2>4. CASE d = K
    <3>1. affected' = (visited' \cap Near(g, K)) \ (Unlisted \cup {Changed})
      BY <1>4, <1>8, <2>2, <2>3, <2>4
    <3>2. truncated' <=> ~(visited' \subseteq Near(g, K))
      BY <1>4, <1>8, <2>2, <2>3, <2>4
    <3> QED
      BY <1>4, <2>2, <2>3, <2>4, <3>1, <3>2 DEF Told
  <2>5. CASE d < K
    <3>1. affected' = (visited' \cap Near(g, K)) \ (Unlisted \cup {Changed})
      BY <1>4, <1>8, <2>1, <2>2, <2>3, <2>5
    <3>2. truncated' <=> ~(visited' \subseteq Near(g, K))
      BY <1>4, <1>8, <2>1, <2>2, <2>3, <2>5
    <3>3. cascade_depth' = IF ~(visited' \subseteq Near(g, d)) THEN d + 1 ELSE d
      BY <1>4, <1>8, <2>2, <2>3, <2>5
    <3> QED
      BY <1>4, <2>5, <3>1, <3>2, <3>3 DEF Told
  <2> QED
    BY <1>8, <2>4, <2>5
<1> QED
  BY <1>5, <1>9, <1>10, <1>11, <1>12 DEF AtDistance

LEMMA CascadeSteps == CascadeInv /\ [Propagate]_cascadeVars => CascadeInv'
<1>1. ASSUME CascadeInv, Propagate PROVE CascadeInv'
  <2>1. PICK d \in Nat : AtDistance(d)
    BY <1>1 DEF CascadeInv
  <2>2. CascadeTyped /\ queue # <<>> /\ d + 1 \in Nat
    BY <1>1 DEF CascadeInv, Propagate
  <2>3. CASE queue[1][2] = d
    <3>1. CascadeTyped' /\ AtDistance(d)'
      BY <1>1, <2>1, <2>2, <2>3, SameDistance
    <3> QED
      BY <3>1 DEF CascadeInv
  <2>4. CASE queue[1][2] # d
    <3>1. AtDistance(d + 1) /\ queue[1][2] = d + 1
      BY <2>1, <2>2, <2>4, NextDistance
    <3>2. PICK e \in Nat : e = d + 1
      BY <2>2
    <3>3. CascadeTyped' /\ AtDistance(e)'
      BY <1>1, <2>2, <3>1, <3>2, SameDistance
    <3> QED
      BY <3>3 DEF CascadeInv
  <2> QED
    BY <2>3, <2>4
<1>2. ASSUME CascadeInv, UNCHANGED cascadeVars PROVE CascadeInv'
  BY <1>2 DEF cascadeVars, CascadeInv, CascadeTyped, AtDistance, Sorted, Waiting, Seen, Told, Places, Waits
<1> QED
  BY <1>1, <1>2

(* With nothing left in the queue, the distance is the least one that      *)
(* reaches all within the limit.                                           *)
LEMMA CascadeResult == CascadeInv => CascadeSound
<1> SUFFICES ASSUME CascadeInv, queue = <<>>
             PROVE  /\ affected = Within(max_depth) \ (Unlisted \cup {Changed})
                    /\ truncated <=> (Everything # Within(max_depth))
                    /\ cascade_depth = CHOOSE k \in 0..max_depth :
                         /\ Within(k) = Within(max_depth)
                         /\ \A j \in 0..(k - 1) : Within(j) # Within(max_depth)
  BY DEF CascadeSound
<1>1. PICK d \in Nat : AtDistance(d)
  BY DEF CascadeInv
<1>2. PICK g \in Dependencies, K \in Nat : g = depends /\ K = max_depth
  BY DEF CascadeInv, CascadeTyped
<1>3. Places = {} /\ \A n, k : ~Waits(n, k)
  BY EmptySeq DEF Places, Waits
<1>4. visited = Near(g, d + 1) /\ Near(g, d) \subseteq Near(g, d + 1) /\ d <= K
  <2>1. Near(g, d + 1) = Further(g, Near(g, d))
    BY NearFacts
  <2>2. \A m \in Near(g, d) : g[m] \subseteq visited
    BY <1>1, <1>2, <1>3 DEF AtDistance, Seen
  <2>3. Near(g, d) \subseteq visited /\ visited \subseteq Near(g, d + 1) /\ d <= K
    BY <1>1, <1>2 DEF AtDistance, Seen
  <2> QED
    BY <2>1, <2>2, <2>3 DEF Further
<1>5. d < K => Near(g, d + 1) = Near(g, d)
  BY <1>1, <1>2, <1>3, <1>4 DEF AtDistance, Seen
<1>6. Near(g, K) = Near(g, d)
  <2>1. CASE d < K
    BY <1>4, <1>5, <2>1, NearStays
  <2>2. CASE d = K
    BY <2>2
  <2> QED
    BY <1>4, <2>1, <2>2
<1>7. \A n \in Nat : Within(n) = Near(g, n)
  BY <1>2 DEF Within, Near
<1>8. /\ affected = (visited \cap Near(g, K)) \ (Unlisted \cup {Changed})
      /\ truncated <=> ~(visited \subseteq Near(g, K))
      /\ cascade_depth = d
  BY <1>1, <1>2, <1>4, <1>5 DEF AtDistance, Told
<1>9. affected = Within(K) \ (Unlisted \cup {Changed})
  BY <1>4, <1>6, <1>7, <1>8
<1>10. truncated <=> (Everything # Within(K))
  <2>1. Everything = Near(g, Cardinality(CascadeNodes))
    BY <1>7, NodesFinite DEF Everything
  <2>2. truncated <=> Near(g, d + 1) # Near(g, d)
    BY <1>4, <1>6, <1>8
  <2>3. Everything = Near(g, d) <=> Near(g, d + 1) = Near(g, d)
    BY <2>1, NearEnds
  <2> QED
    BY <1>6, <1>7, <2>2, <2>3
<1>11. cascade_depth = CHOOSE k \in 0..K :
         /\ Within(k) = Within(K)
         /\ \A j \in 0..(k - 1) : Within(j) # Within(K)
  <2> DEFINE Least(k) == /\ Within(k) = Within(K)
                         /\ \A j \in 0..(k - 1) : Within(j) # Within(K)
  <2>1. \A j \in Nat : j < d => Near(g, j) # Near(g, d)
    BY <1>1, <1>2 DEF AtDistance, Seen
  <2>2. d \in 0..K /\ Least(d)
    BY <1>4, <1>6, <1>7, <2>1
  <2>3. ASSUME NEW k \in 0..K, Least(k) PROVE k = d
    <3>1. CASE k < d
      BY <1>6, <1>7, <2>1, <2>3, <3>1
    <3>2. CASE d < k
      <4>1. d \in 0..(k - 1)
        BY <3>2
      <4> QED
        BY <2>2, <2>3, <4>1
    <3> QED
      BY <3>1, <3>2
  <2>4. (CHOOSE k \in 0..K : Least(k)) = d
    <3> HIDE DEF Least
    <3> QED
      BY <2>2, <2>3
  <2> QED
    BY <1>8, <2>4
<1> QED
  BY <1>2, <1>9, <1>10, <1>11

(* Whatever the graph and the limit, the search lists exactly what lies    *)
(* within the limit, says truly that it was cut, and how far it got.       *)
THEOREM CascadeIsSound == CascadeSpec => []CascadeSound
<1> QED
  BY CascadeStarts, CascadeSteps, CascadeResult, PTL DEF CascadeSpec

-----------------------------------------------------------------------------
(* The register.  A command relies on what it read of an entry; the entry  *)
(* is still as it was read, or two commands have worked on it at once.     *)

Blank(e) == e.disposition = "none" /\ e.promoted = 0

\* the register after a step: nothing is lost, and what is added is blank
Grew(E, F) ==
  /\ F \in Seq(LegacyEntries) /\ Len(E) <= Len(F) /\ Len(F) <= MaxEntries
  /\ \A i \in 1..Len(E) : /\ F[i].about = E[i].about
                          /\ E[i].disposition # "none" => F[i].disposition # "none"
                          /\ E[i].promoted > 0 => F[i].promoted > 0
  /\ \A i \in (Len(E) + 1)..Len(F) : Blank(F[i])

\* only these entries are written to
OnlyAt(E, F, S) == \A i \in 1..Len(E) : i \notin S => F[i] = E[i]

LEMMA RegisterNumbers ==
  /\ MaxEntries \in Nat /\ MaxCommands \in Nat /\ MaxRuns \in Nat /\ MaxDeaths \in Nat
  /\ Groups \in Seq(Nat \ {0}) /\ "none" \notin Dispositions /\ "retire" \in Dispositions
  BY RegisterConstants

LEMMA NothingGrew ==
  ASSUME NEW E \in Seq(LegacyEntries), Len(E) <= MaxEntries
  PROVE  Grew(E, E) /\ OnlyAt(E, E, {})
<1>1. Len(E) \in Nat
  BY LenProperties
<1> QED
  BY <1>1 DEF Grew, OnlyAt

LEMMA AddedGrew ==
  ASSUME NEW E \in Seq(LegacyEntries), Len(E) < MaxEntries,
         NEW c \in Candidates \cup {Other}, NEW F, F = Append(E, NewEntry(c))
  PROVE  /\ Grew(E, F) /\ OnlyAt(E, F, {}) /\ Len(F) = Len(E) + 1
         /\ F[Len(F)] = NewEntry(c) /\ NewEntry(c) \in LegacyEntries
<1>1. NewEntry(c) \in LegacyEntries
  BY RegisterNumbers DEF NewEntry, LegacyEntries
<1>2. PICK n \in Nat : n = Len(E)
  BY LenProperties
<1>3. /\ F \in Seq(LegacyEntries) /\ Len(F) = n + 1 /\ F[n + 1] = NewEntry(c)
      /\ \A i \in 1..n : F[i] = E[i]
  BY <1>1, <1>2, AppendProperties
<1>4. Blank(F[n + 1])
  BY <1>3 DEF Blank, NewEntry
<1>5. n + 1 <= MaxEntries
  BY <1>2, RegisterNumbers
<1>6. \A i \in (n + 1)..(n + 1) : i = n + 1
  OBVIOUS
<1> QED
  BY <1>1, <1>2, <1>3, <1>4, <1>5, <1>6 DEF Grew, OnlyAt

Disposed(E, e, d) == [E EXCEPT ![e].disposition = d]
PromotedTo(E, e, item) == [E EXCEPT ![e].promoted = item]

LEMMA DisposedGrew ==
  ASSUME NEW E \in Seq(LegacyEntries), Len(E) <= MaxEntries, NEW e \in DOMAIN E,
         NEW d \in Dispositions, NEW F, F = Disposed(E, e, d)
  PROVE  /\ Grew(E, F) /\ OnlyAt(E, F, {e}) /\ Len(F) = Len(E)
         /\ F[e].disposition = d /\ \A i \in 1..Len(E) : F[i].promoted = E[i].promoted
<1>1. PICK n \in Nat : n = Len(E) /\ DOMAIN E = 1..n
  BY LenProperties
<1>2. E \in [1..n -> LegacyEntries]
  BY <1>1, LenProperties
<1>3. PICK r : r = [E[e] EXCEPT !.disposition = d]
  OBVIOUS
<1>4. E[e] \in LegacyEntries
  BY <1>1, <1>2
<1>5. /\ r \in LegacyEntries /\ r.disposition = d /\ r.about = E[e].about
      /\ r.promoted = E[e].promoted
  BY <1>3, <1>4 DEF LegacyEntries
<1>6. F = [E EXCEPT ![e] = r]
  BY <1>3 DEF Disposed
<1>7. F \in [1..n -> LegacyEntries] /\ F[e] = r /\ \A i \in 1..n : i # e => F[i] = E[i]
  BY <1>1, <1>2, <1>5, <1>6
<1>8. F \in Seq(LegacyEntries) /\ Len(F) = n
  BY <1>7
<1>9. d # "none"
  BY RegisterNumbers
<1> QED
  BY <1>1, <1>5, <1>7, <1>8, <1>9 DEF Grew, OnlyAt

LEMMA PromotedGrew ==
  ASSUME NEW E \in Seq(LegacyEntries), Len(E) <= MaxEntries, NEW e \in DOMAIN E,
         NEW item \in 1..MaxCommands, NEW F, F = PromotedTo(E, e, item)
  PROVE  /\ Grew(E, F) /\ OnlyAt(E, F, {e}) /\ Len(F) = Len(E)
         /\ F[e].promoted = item /\ \A i \in 1..Len(E) : F[i].disposition = E[i].disposition
<1>1. PICK n \in Nat : n = Len(E) /\ DOMAIN E = 1..n
  BY LenProperties
<1>2. E \in [1..n -> LegacyEntries]
  BY <1>1, LenProperties
<1>3. PICK r : r = [E[e] EXCEPT !.promoted = item]
  OBVIOUS
<1>4. E[e] \in LegacyEntries
  BY <1>1, <1>2
<1>5. /\ r \in LegacyEntries /\ r.promoted = item /\ r.about = E[e].about
      /\ r.disposition = E[e].disposition /\ item > 0
  <2>1. item \in 0..MaxCommands /\ item > 0
    BY RegisterNumbers
  <2> QED
    BY <1>3, <1>4, <2>1 DEF LegacyEntries
<1>6. F = [E EXCEPT ![e] = r]
  BY <1>3 DEF PromotedTo
<1>7. F \in [1..n -> LegacyEntries] /\ F[e] = r /\ \A i \in 1..n : i # e => F[i] = E[i]
  BY <1>1, <1>2, <1>5, <1>6
<1>8. F \in Seq(LegacyEntries) /\ Len(F) = n
  BY <1>7
<1> QED
  BY <1>1, <1>5, <1>7, <1>8 DEF Grew, OnlyAt

(* What a user's command relies on.                                        *)
UserFits(u) ==
  LET e == users[u].entry
  IN  users[u].pc # "idle" =>
        /\ e \in DOMAIN entries
        /\ users[u].pc \in {"mark", "save_item"} =>
             users[u].item > 0 /\ entries[e].disposition # "none"
        /\ \/ e \in raced
           \/ /\ users[u].pc = "verdict" => entries[e].disposition = "none"
              /\ users[u].pc \in {"mark", "retire"} => entries[e].promoted = 0
              /\ users[u].pc = "save_item" => entries[e].promoted = users[u].item

(* Whoever meets another command at an entry, the history says so.         *)
Met ==
  \A u \in Users : users[u].entry \in DOMAIN entries =>
    /\ \A v \in Users \ {u} : users[v].entry = users[u].entry => users[u].entry \in raced
    /\ builder.entry = users[u].entry => users[u].entry \in raced

ItemsFit ==
  /\ \A e \in DOMAIN entries : entries[e].promoted > 0 => entries[e].disposition # "none"
  /\ \A item \in prl :
       /\ entries[item.entry].disposition # "none"
       /\ item.entry \in raced \/ entries[item.entry].promoted = item.id
  /\ deaths = 0 => \A e \in DOMAIN entries : entries[e].promoted > 0 =>
       \/ \E item \in prl : item.id = entries[e].promoted /\ item.entry = e
       \/ \E u \in Users : /\ users[u].pc = "save_item" /\ users[u].entry = e
                           /\ users[u].item = entries[e].promoted

UsersInv == (\A u \in Users : UserFits(u)) /\ Met /\ ItemsFit

(* What every step records.                                                *)
Recorded ==
  /\ raced' = raced \cup {e \in DOMAIN entries : Cardinality(Workers(e)') > 1}
  /\ missed' = (missed \/ Misses)

UserActs(u) == UserStep(u) \/ UserDies(u)

(* What the steps of users have in common: they write to the entry that    *)
(* the command is at, or add one that is no candidate.                     *)
UserEffect(u) ==
  /\ \A v \in Users \ {u} : users'[v] = users[v]
  /\ builder' = builder /\ session' = session /\ deaths <= deaths' /\ issued <= issued'
  /\ Grew(entries, entries') /\ OnlyAt(entries, entries', {users[u].entry})
  /\ \A i \in (Len(entries) + 1)..Len(entries') : entries'[i].about = Other

LEMMA EntryNumbers ==
  ASSUME LegacyTypeOK
  PROVE  /\ Len(entries) \in Nat /\ DOMAIN entries = 1..Len(entries)
         /\ \A e \in DOMAIN entries : /\ entries[e] \in LegacyEntries
                                      /\ entries[e].promoted \in 0..MaxCommands
<1>1. entries \in Seq(LegacyEntries)
  BY DEF LegacyTypeOK
<1>2. /\ Len(entries) \in Nat /\ DOMAIN entries = 1..Len(entries)
      /\ \A e \in DOMAIN entries : entries[e] \in LegacyEntries
  BY <1>1, LenProperties, ElementOfSeq
<1>3. \A r \in LegacyEntries : r.promoted \in 0..MaxCommands
  BY DEF LegacyEntries
<1> QED
  BY <1>2, <1>3

\* a step of a user that leaves the register as it is
LEMMA UserReads ==
  ASSUME LegacyTypeOK, NEW u \in Users, entries' = entries,
         \A v \in Users \ {u} : users'[v] = users[v],
         builder' = builder, session' = session, deaths <= deaths', issued <= issued'
  PROVE  UserEffect(u)
<1>1. Grew(entries, entries) /\ OnlyAt(entries, entries, {})
  BY NothingGrew DEF LegacyTypeOK
<1>2. (Len(entries) + 1)..Len(entries) = {}
  BY EntryNumbers
<1> QED
  BY <1>1, <1>2 DEF UserEffect, OnlyAt

LEMMA UserHasEffect ==
  ASSUME LegacyTypeOK, NEW u \in Users, UserFits(u), UserActs(u)
  PROVE  UserEffect(u)
<1> USE DEF counts
<1>1. /\ entries \in Seq(LegacyEntries) /\ Len(entries) <= MaxEntries
      /\ issued \in Nat /\ deaths \in Nat /\ issued + 1 \in Nat
  BY RegisterNumbers DEF LegacyTypeOK
<1>2. users = [v \in Users |-> users[v]]
  BY DEF LegacyTypeOK
<1>3. /\ users[u].pc # "idle" => users[u].entry \in DOMAIN entries
      /\ users[u].pc \in {"mark", "save_item"} => users[u].item \in 1..MaxCommands
  BY EntryNumbers, RegisterNumbers DEF UserFits, LegacyTypeOK
<1>4. CASE Register(u)
  <2>1. /\ entries' = Append(entries, NewEntry(Other)) /\ Len(entries) < MaxEntries
        /\ users' = users /\ builder' = builder /\ session' = session
        /\ deaths' = deaths /\ issued' = issued
    BY <1>4 DEF Register, GivesCommand, SaveEntry
  <2>2. /\ Grew(entries, entries') /\ OnlyAt(entries, entries', {}) /\ Len(entries') = Len(entries) + 1
        /\ entries'[Len(entries')] = NewEntry(Other)
    BY <1>1, <2>1, AddedGrew
  <2>3. \A i \in (Len(entries) + 1)..Len(entries') : i = Len(entries')
    BY <2>2, EntryNumbers
  <2> QED
    BY <1>1, <2>1, <2>2, <2>3 DEF UserEffect, OnlyAt, NewEntry
<1>5. ASSUME NEW e \in DOMAIN entries, Review(u, e) \/ Promote(u, e) \/ Discard(u, e)
      PROVE  UserEffect(u)
  <2>1. PICK label \in {"verdict", "mark", "retire"}, item \in {0, issued'} : ReadsEntry(u, e, label, item)
    BY <1>5 DEF Review, Promote, Discard
  <2>2. /\ entries' = entries /\ builder' = builder /\ session' = session /\ deaths' = deaths
        /\ \A v \in Users \ {u} : users'[v] = users[v]
    BY <1>2, <2>1 DEF ReadsEntry, GivesCommand
  <2>3. issued <= issued'
    BY <1>1, <1>5 DEF Review, Promote, Discard
  <2> QED
    BY <1>1, <2>2, <2>3, UserReads
<1>6. ASSUME \/ \E d \in Dispositions : Verdict(u, d)
             \/ Retire(u)
      PROVE  UserEffect(u)
  <2>1. PICK d \in Dispositions :
          /\ entries' = [entries EXCEPT ![users[u].entry].disposition = d]
          /\ users[u].pc # "idle" /\ Returns(u) /\ builder' = builder /\ session' = session
          /\ issued' = issued /\ deaths' = deaths
    BY <1>6, RegisterNumbers DEF Verdict, Retire, UpdateDisposition
  <2>2. \A v \in Users \ {u} : users'[v] = users[v]
    BY <1>2, <2>1 DEF Returns
  <2>3. /\ Grew(entries, entries') /\ OnlyAt(entries, entries', {users[u].entry})
        /\ Len(entries') = Len(entries)
    <3>1. PICK e \in DOMAIN entries : e = users[u].entry
      BY <1>3, <2>1
    <3>2. entries' = Disposed(entries, e, d)
      BY <2>1, <3>1 DEF Disposed
    <3>3. Grew(entries, entries') /\ OnlyAt(entries, entries', {e}) /\ Len(entries') = Len(entries)
      BY <1>1, <3>2, DisposedGrew
    <3> QED
      BY <3>1, <3>3
  <2>4. (Len(entries) + 1)..Len(entries') = {}
    BY <2>3, EntryNumbers
  <2> QED
    BY <1>1, <2>1, <2>2, <2>3, <2>4 DEF UserEffect
<1>7. CASE Mark(u)
  <2>1. /\ entries' = [entries EXCEPT ![users[u].entry].promoted = users[u].item]
        /\ users[u].pc = "mark" /\ users' = [users EXCEPT ![u].pc = "save_item"]
        /\ builder' = builder /\ session' = session /\ issued' = issued /\ deaths' = deaths
    BY <1>7 DEF Mark, MarkPromoted
  <2>2. \A v \in Users \ {u} : users'[v] = users[v]
    BY <1>2, <2>1
  <2>3. /\ Grew(entries, entries') /\ OnlyAt(entries, entries', {users[u].entry})
        /\ Len(entries') = Len(entries)
    <3>1. PICK e \in DOMAIN entries, item \in 1..MaxCommands : e = users[u].entry /\ item = users[u].item
      BY <1>3, <2>1
    <3>2. entries' = PromotedTo(entries, e, item)
      BY <2>1, <3>1 DEF PromotedTo
    <3>3. Grew(entries, entries') /\ OnlyAt(entries, entries', {e}) /\ Len(entries') = Len(entries)
      BY <1>1, <3>2, PromotedGrew
    <3> QED
      BY <3>1, <3>3
  <2>4. (Len(entries) + 1)..Len(entries') = {}
    BY <2>3, EntryNumbers
  <2> QED
    BY <1>1, <2>1, <2>2, <2>3, <2>4 DEF UserEffect
<1>8. CASE SaveItem(u)
  BY <1>1, <1>2, <1>8, UserReads DEF SaveItem, Returns
<1>9. CASE UserDies(u)
  <2>1. /\ entries' = entries /\ builder' = builder /\ session' = session
        /\ deaths <= deaths' /\ issued' = issued
    BY <1>1, <1>9 DEF UserDies, Dies, stored
  <2> QED
    BY <1>1, <1>2, <1>9, <2>1, UserReads DEF UserDies, Returns
<1> QED
  BY <1>4, <1>5, <1>6, <1>7, <1>8, <1>9 DEF UserActs, UserStep

(* Two at one entry are more than one worker.                              *)
LEMMA TwoWorkers ==
  ASSUME NEW W, IsFiniteSet(W), NEW a \in W, NEW b \in W, a # b
  PROVE  Cardinality(W) > 1
<1>1. Cardinality({a}) = 1 /\ {a} \subseteq W /\ {a} # W
  BY FS_Singleton
<1>2. Cardinality({a}) < Cardinality(W) \/ ~(Cardinality({a}) # Cardinality(W))
  BY <1>1, FS_Subset, FS_CardinalityType
<1>3. Cardinality({a}) # Cardinality(W)
  BY <1>1, FS_Subset
<1> QED
  BY <1>1, <1>2, <1>3

LEMMA Meeting ==
  ASSUME Recorded, NEW e \in DOMAIN entries, NEW u \in Users, users'[u].entry = e,
         \/ builder'.entry = e
         \/ \E v \in Users \ {u} : users'[v].entry = e
  PROVE  e \in raced'
<1> DEFINE W == {v \in Users : users'[v].entry = e} \cup {b \in {"builder"} : builder'.entry = e}
<1>1. Workers(e)' = W
  BY DEF Workers
<1>2. IsFiniteSet(W)
  <2>1. IsFiniteSet({v \in Users : users'[v].entry = e})
    BY RegisterConstants, FS_Subset
  <2>2. IsFiniteSet({b \in {"builder"} : builder'.entry = e})
    BY FS_Singleton, FS_Subset
  <2> QED
    BY <2>1, <2>2, FS_Union
<1>3. u \in W /\ \E v \in W : v # u
  <2>1. CASE builder'.entry = e
    BY <2>1, RegisterConstants
  <2>2. CASE \E v \in Users \ {u} : users'[v].entry = e
    BY <2>2
  <2> QED
    BY <2>1, <2>2
<1>4. Cardinality(W) > 1
  <2> HIDE DEF W
  <2> QED
    BY <1>2, <1>3, TwoWorkers
<1> HIDE DEF W
<1> QED
  BY <1>1, <1>4 DEF Recorded

UserRecords(bound, last) ==
  [pc : {"idle", "verdict", "mark", "save_item", "retire"}, entry : 0..bound, item : 0..last]

ItemOf(u) == [id |-> users[u].item, entry |-> users[u].entry]

(* What becomes of the user's own command, of the items and of the         *)
(* promotions.                                                             *)
UserMoves(u) ==
  /\ users' \in [Users -> UserRecords(Len(entries), issued')]
  /\ issued' \in 0..commands' /\ commands' \in 0..MaxCommands
  /\ runs' = runs /\ deaths' \in 0..MaxDeaths
  /\ \/ prl' = prl /\ (users[u].pc = "save_item" => deaths' # 0)
     \/ users[u].pc = "save_item" /\ prl' = prl \cup {ItemOf(u)}
  /\ \/ \A e \in DOMAIN entries : entries'[e].promoted = entries[e].promoted
     \/ /\ users[u].pc = "mark" /\ users'[u] = [users[u] EXCEPT !.pc = "save_item"]
        /\ entries'[users[u].entry].promoted = users[u].item
        /\ \A e \in DOMAIN entries : e # users[u].entry =>
             entries'[e].promoted = entries[e].promoted
  /\ UserFits(u)'

LEMMA UserHasMoved ==
  ASSUME LegacyTypeOK, NEW u \in Users, UserFits(u), UserActs(u), Recorded
  PROVE  UserMoves(u)
<1> USE DEF counts
<1> DEFINE L == Len(entries)
<1>1. /\ entries \in Seq(LegacyEntries) /\ L <= MaxEntries /\ L \in Nat
      /\ issued \in 0..commands /\ commands \in 0..MaxCommands /\ deaths \in 0..MaxDeaths
      /\ DOMAIN entries = 1..L
  BY EntryNumbers DEF LegacyTypeOK
<1>2. users \in [Users -> UserRecords(L, issued)]
  BY DEF LegacyTypeOK, UserRecords
<1>3. /\ users[u].pc # "idle" => users[u].entry \in DOMAIN entries
      /\ users[u].pc \in {"mark", "save_item"} =>
           users[u].item \in 1..MaxCommands /\ users[u].item > 0
  <2>1. users[u].item \in 0..issued
    BY <1>2 DEF UserRecords
  <2> QED
    BY <1>1, <2>1, RegisterNumbers DEF UserFits
<1>4. raced \subseteq raced'
  BY DEF Recorded
<1>5. ASSUME users' = [users EXCEPT ![u] = NoCommand]
      PROVE  /\ users' \in [Users -> UserRecords(L, issued)]
             /\ users'[u].pc = "idle"
  <2>1. NoCommand \in UserRecords(L, issued)
    BY <1>1, RegisterNumbers DEF NoCommand, UserRecords
  <2> QED
    BY <1>2, <1>5, <2>1 DEF NoCommand
<1>6. CASE Register(u)
  <2>1. /\ users[u].pc = "idle" /\ commands' = commands + 1 /\ commands < MaxCommands
        /\ entries' = Append(entries, NewEntry(Other)) /\ prl' = prl
        /\ users' = users /\ issued' = issued /\ runs' = runs /\ deaths' = deaths
    BY <1>6 DEF Register, GivesCommand, SaveEntry
  <2>2. \A e \in DOMAIN entries : entries'[e] = entries[e]
    <3>1. OnlyAt(entries, entries', {})
      <4>1. L < MaxEntries
        BY <1>6 DEF Register, SaveEntry
      <4> QED
        BY <1>1, <2>1, <4>1, AddedGrew
    <3> QED
      BY <1>1, <3>1 DEF OnlyAt
  <2>3. UserFits(u)'
    BY <2>1 DEF UserFits
  <2>4. issued' \in 0..commands' /\ commands' \in 0..MaxCommands
    BY <1>1, <2>1, RegisterNumbers
  <2> QED
    BY <1>1, <1>2, <2>1, <2>2, <2>3, <2>4 DEF UserMoves
<1>7. ASSUME NEW e \in DOMAIN entries, Review(u, e) \/ Promote(u, e) \/ Discard(u, e)
      PROVE  UserMoves(u)
  <2>1. PICK label \in {"verdict", "mark", "retire"}, item \in {0, issued'} :
          /\ ReadsEntry(u, e, label, item)
          /\ label = "verdict" => Reviewable(e) /\ issued' = issued
          /\ label = "mark" => Promotable(e) /\ issued' = issued + 1 /\ item = issued'
          /\ label = "retire" => Discardable(e) /\ issued' = issued
    BY <1>7 DEF Review, Promote, Discard
  <2>2. /\ users[u].pc = "idle" /\ commands' = commands + 1 /\ commands < MaxCommands
        /\ entries' = entries /\ prl' = prl /\ runs' = runs /\ deaths' = deaths
        /\ users' = [users EXCEPT ![u] = [pc |-> label, entry |-> e, item |-> item]]
    BY <2>1 DEF ReadsEntry, GivesCommand
  <2>3. issued' \in {issued, issued + 1}
    BY <2>1
  <2>4. issued' \in 0..commands' /\ commands' \in 0..MaxCommands /\ issued <= issued'
    BY <1>1, <2>2, <2>3, RegisterNumbers
  <2>5. [pc |-> label, entry |-> e, item |-> item] \in UserRecords(L, issued')
    BY <1>1, <2>2, <2>4, RegisterNumbers DEF UserRecords
  <2>6. UserRecords(L, issued) \subseteq UserRecords(L, issued')
    BY <1>1, <2>4, RegisterNumbers DEF UserRecords
  <2>7. users' \in [Users -> UserRecords(L, issued')]
    BY <1>2, <2>2, <2>5, <2>6
  <2>8. UserFits(u)'
    <3>1. users'[u].pc = label /\ users'[u].entry = e /\ users'[u].item = item
      BY <1>2, <2>2
    <3>2. label = "mark" => item > 0
      BY <1>1, <2>1, <2>2
    <3> QED
      BY <2>1, <2>2, <3>1, <3>2 DEF UserFits, Reviewable, Promotable, Discardable
  <2> QED
    BY <1>1, <2>2, <2>4, <2>7, <2>8 DEF UserMoves
<1>8. ASSUME \/ \E d \in Dispositions : Verdict(u, d)
             \/ Retire(u)
      PROVE  UserMoves(u)
  <2>1. PICK d \in Dispositions :
          /\ entries' = [entries EXCEPT ![users[u].entry].disposition = d]
          /\ users[u].pc \in {"verdict", "retire"} /\ Returns(u) /\ prl' = prl
          /\ issued' = issued /\ deaths' = deaths /\ runs' = runs /\ commands' = commands
    BY <1>8, RegisterNumbers DEF Verdict, Retire, UpdateDisposition
  <2>2. \A e \in DOMAIN entries : entries'[e].promoted = entries[e].promoted
    <3>1. users[u].entry \in DOMAIN entries /\ \A e \in DOMAIN entries : entries[e] \in LegacyEntries
      BY <1>3, <2>1, EntryNumbers
    <3> QED
      BY <1>1, <2>1, <3>1 DEF LegacyEntries
  <2>3. users' \in [Users -> UserRecords(L, issued)] /\ users'[u].pc = "idle"
    BY <1>5, <2>1 DEF Returns
  <2>4. UserFits(u)'
    BY <2>3 DEF UserFits
  <2> QED
    BY <1>1, <2>1, <2>2, <2>3, <2>4 DEF UserMoves
<1>9. CASE Mark(u)
  <2>1. /\ entries' = [entries EXCEPT ![users[u].entry].promoted = users[u].item]
        /\ users[u].pc = "mark" /\ users' = [users EXCEPT ![u].pc = "save_item"] /\ prl' = prl
        /\ issued' = issued /\ deaths' = deaths /\ runs' = runs /\ commands' = commands
    BY <1>9 DEF Mark, MarkPromoted
  <2>2. PICK e \in DOMAIN entries, item \in 1..MaxCommands :
          e = users[u].entry /\ item = users[u].item
    BY <1>3, <2>1
  <2>3. entries' = PromotedTo(entries, e, item)
    BY <2>1, <2>2 DEF PromotedTo
  <2>4. /\ OnlyAt(entries, entries', {e}) /\ entries'[e].promoted = item
        /\ \A i \in 1..L : entries'[i].disposition = entries[i].disposition
        /\ Len(entries') = L /\ entries' \in Seq(LegacyEntries)
    <3>1. Grew(entries, entries') /\ OnlyAt(entries, entries', {e}) /\ Len(entries') = L
      BY <1>1, <2>3, PromotedGrew
    <3>2. entries'[e].promoted = item /\ \A i \in 1..L : entries'[i].disposition = entries[i].disposition
      <4>1. e \in 1..L /\ \A i \in 1..L : entries[i] \in LegacyEntries
        BY <1>1, EntryNumbers
      <4>2. entries' = [entries EXCEPT ![e].promoted = item]
        BY <2>3 DEF PromotedTo
      <4> QED
        BY <1>1, <4>1, <4>2 DEF LegacyEntries
    <3> QED
      BY <3>1, <3>2 DEF Grew
  <2>5. \A i \in DOMAIN entries : i # e => entries'[i].promoted = entries[i].promoted
    BY <1>1, <2>4 DEF OnlyAt
  <2>6. PICK r \in UserRecords(L, issued) : r = [users[u] EXCEPT !.pc = "save_item"]
    BY <1>2 DEF UserRecords
  <2>7. r.pc = "save_item" /\ r.entry = e /\ r.item = item
    BY <1>2, <2>2, <2>6 DEF UserRecords
  <2>8. users' = [users EXCEPT ![u] = r]
    BY <2>1, <2>6
  <2>9. users' \in [Users -> UserRecords(L, issued)] /\ users'[u] = r
    BY <1>2, <2>8
  <2>10. UserFits(u)'
    <3>1. e \in DOMAIN entries'
      BY <1>1, <2>4
    <3>2. entries[e].disposition # "none"
      BY <2>1, <2>2 DEF UserFits
    <3> QED
      BY <1>1, <2>2, <2>4, <2>7, <2>9, <3>1, <3>2 DEF UserFits
  <2> QED
    BY <1>1, <2>1, <2>2, <2>4, <2>5, <2>6, <2>9, <2>10 DEF UserMoves
<1>10. CASE SaveItem(u)
  <2>1. /\ users[u].pc = "save_item" /\ entries' = entries /\ prl' = prl \cup {ItemOf(u)}
        /\ users' = [users EXCEPT ![u] = NoCommand]
        /\ issued' = issued /\ deaths' = deaths /\ runs' = runs /\ commands' = commands
    BY <1>10 DEF SaveItem, Returns, ItemOf
  <2>2. UserFits(u)'
    BY <1>5, <2>1 DEF UserFits
  <2> QED
    BY <1>1, <1>5, <2>1, <2>2 DEF UserMoves
<1>11. CASE UserDies(u)
  <2>1. /\ entries' = entries /\ prl' = prl /\ users' = [users EXCEPT ![u] = NoCommand]
        /\ issued' = issued /\ deaths' = deaths + 1 /\ deaths < MaxDeaths
        /\ runs' = runs /\ commands' = commands
    BY <1>11 DEF UserDies, Dies, Returns, stored
  <2>2. UserFits(u)'
    BY <1>5, <2>1 DEF UserFits
  <2>3. deaths' \in 0..MaxDeaths /\ deaths' # 0
    BY <1>1, <2>1, RegisterNumbers
  <2> QED
    BY <1>1, <1>5, <2>1, <2>2, <2>3 DEF UserMoves
<1> QED
  BY <1>6, <1>7, <1>8, <1>9, <1>10, <1>11 DEF UserActs, UserStep

LEMMA MetAgain ==
  ASSUME LegacyTypeOK, Recorded, Grew(entries, entries'),
         \A u \in Users : users'[u].entry \in 0..Len(entries)
  PROVE  Met'
<1>1. Len(entries) \in Nat /\ DOMAIN entries = 1..Len(entries)
  BY EntryNumbers
<1>2. entries' \in Seq(LegacyEntries) /\ DOMAIN entries' = 1..Len(entries')
  BY LenProperties DEF Grew
<1>3. ASSUME NEW u \in Users, users'[u].entry \in DOMAIN entries'
      PROVE  users'[u].entry \in DOMAIN entries
  BY <1>1, <1>2, <1>3
<1> QED
  BY <1>3, Meeting DEF Met

(* A command that is not taking this step finds its entry as it was, or    *)
(* has met the one that takes it.                                          *)
LEMMA UserSpared ==
  ASSUME LegacyTypeOK, Grew(entries, entries'), NEW S, OnlyAt(entries, entries', S),
         NEW u \in Users, UserFits(u), users'[u] = users[u], raced \subseteq raced',
         users[u].entry \in S /\ users[u].entry \in DOMAIN entries => users[u].entry \in raced
  PROVE  UserFits(u)'
<1> DEFINE e == users[u].entry
<1> SUFFICES ASSUME users[u].pc # "idle" PROVE UserFits(u)'
  BY DEF UserFits
<1>1. Len(entries) \in Nat /\ DOMAIN entries = 1..Len(entries) /\ e \in DOMAIN entries
  BY EntryNumbers DEF UserFits
<1>2. entries' \in Seq(LegacyEntries) /\ DOMAIN entries' = 1..Len(entries') /\ Len(entries') \in Nat
  BY LenProperties DEF Grew
<1>3. /\ e \in DOMAIN entries'
      /\ entries[e].disposition # "none" => entries'[e].disposition # "none"
  BY <1>1, <1>2 DEF Grew
<1>4. e \in raced \/ entries'[e] = entries[e]
  BY <1>1 DEF OnlyAt
<1> QED
  BY <1>3, <1>4 DEF UserFits

LEMMA UserKeepsItems ==
  ASSUME LegacyTypeOK, UsersInv, NEW u \in Users, UserEffect(u), UserMoves(u), Recorded
  PROVE  ItemsFit'
<1> DEFINE mine == users[u].entry
<1>1. /\ Len(entries) \in Nat /\ DOMAIN entries = 1..Len(entries)
      /\ \A e \in DOMAIN entries : entries[e].promoted \in Nat
  BY EntryNumbers, RegisterNumbers
<1>2. /\ entries' \in Seq(LegacyEntries) /\ DOMAIN entries' = 1..Len(entries')
      /\ Len(entries') \in Nat /\ Len(entries) <= Len(entries')
  BY LenProperties DEF Grew, UserEffect
<1>3. /\ \A e \in DOMAIN entries : entries[e].disposition # "none" => entries'[e].disposition # "none"
      /\ \A e \in DOMAIN entries' : e \notin DOMAIN entries => entries'[e].promoted = 0
  BY <1>1, <1>2 DEF UserEffect, Grew, Blank
<1>4. users[u].pc # "idle" => mine \in DOMAIN entries
  BY DEF UsersInv, UserFits
<1>5. /\ raced \subseteq raced' /\ deaths \in Nat /\ (deaths' = 0 => deaths = 0)
      /\ issued \in Nat /\ \A item \in prl : item.entry \in DOMAIN entries /\ item.id > 0
  BY RegisterNumbers, SMTT(40) DEF Recorded, UserEffect, UserMoves, LegacyTypeOK
<1>6. ASSUME NEW e \in DOMAIN entries', entries'[e].promoted > 0
      PROVE  entries'[e].disposition # "none"
  <2>1. e \in DOMAIN entries
    BY <1>3, <1>6
  <2>2. CASE entries[e].promoted = entries'[e].promoted
    BY <1>3, <1>6, <2>1, <2>2 DEF UsersInv, ItemsFit
  <2>3. CASE users[u].pc = "mark" /\ e = mine
    BY <1>3, <2>1, <2>3 DEF UsersInv, UserFits
  <2> QED
    BY <2>1, <2>2, <2>3 DEF UserMoves
<1>7. ASSUME NEW item \in prl'
      PROVE  /\ entries'[item.entry].disposition # "none"
             /\ item.entry \in raced' \/ entries'[item.entry].promoted = item.id
  <2>1. CASE item \in prl
    <3> DEFINE e == item.entry
    <3>1. /\ e \in DOMAIN entries /\ entries[e].disposition # "none"
          /\ e \in raced \/ entries[e].promoted = item.id
      BY <1>5, <2>1 DEF UsersInv, ItemsFit
    <3>2. CASE entries[e].promoted = entries'[e].promoted
      BY <1>3, <1>5, <3>1, <3>2
    <3>3. CASE users[u].pc = "mark" /\ e = mine
      <4>1. e \in raced \/ entries[e].promoted = 0
        BY <3>3 DEF UsersInv, UserFits
      <4> QED
        BY <1>3, <1>5, <2>1, <3>1, <4>1
    <3> QED
      BY <3>1, <3>2, <3>3 DEF UserMoves
  <2>2. CASE item \notin prl
    <3>1. users[u].pc = "save_item" /\ item = ItemOf(u)
      BY <1>7, <2>2 DEF UserMoves
    <3>2. mine \in DOMAIN entries /\ entries'[mine].promoted = entries[mine].promoted
      BY <1>4, <3>1 DEF UserMoves
    <3>3. /\ entries[mine].disposition # "none"
          /\ mine \in raced \/ entries[mine].promoted = users[u].item
      BY <3>1 DEF UsersInv, UserFits
    <3> QED
      BY <1>3, <1>5, <3>1, <3>2, <3>3 DEF ItemOf
  <2> QED
    BY <2>1, <2>2
<1>8. ASSUME deaths' = 0, NEW e \in DOMAIN entries', entries'[e].promoted > 0
      PROVE  \/ \E item \in prl' : item.id = entries'[e].promoted /\ item.entry = e
             \/ \E v \in Users : /\ users'[v].pc = "save_item" /\ users'[v].entry = e
                                 /\ users'[v].item = entries'[e].promoted
  <2>1. e \in DOMAIN entries /\ prl \subseteq prl'
    BY <1>3, <1>8 DEF UserMoves
  <2>2. CASE entries[e].promoted = entries'[e].promoted
    <3>1. CASE \E item \in prl : item.id = entries[e].promoted /\ item.entry = e
      BY <2>1, <2>2, <3>1
    <3>2. ASSUME NEW v \in Users, users[v].pc = "save_item", users[v].entry = e,
                 users[v].item = entries[e].promoted
          PROVE  \/ \E item \in prl' : item.id = entries'[e].promoted /\ item.entry = e
                 \/ users'[v] = users[v]
      <4>1. CASE v # u
        BY <4>1 DEF UserEffect
      <4>2. CASE v = u
        <5>1. ItemOf(u) \in prl'
          BY <1>8, <3>2, <4>2 DEF UserMoves
        <5> QED
          BY <2>2, <3>2, <4>2, <5>1 DEF ItemOf
      <4> QED
        BY <4>1, <4>2
    <3> QED
      BY <1>5, <1>8, <2>1, <2>2, <3>1, <3>2 DEF UsersInv, ItemsFit
  <2>3. CASE /\ users[u].pc = "mark" /\ users'[u] = [users[u] EXCEPT !.pc = "save_item"]
             /\ e = mine /\ entries'[e].promoted = users[u].item
    <3>1. users[u] \in UserRecords(Len(entries), issued)
      BY DEF LegacyTypeOK, UserRecords
    <3>2. users'[u].pc = "save_item" /\ users'[u].entry = e /\ users'[u].item = users[u].item
      BY <2>3, <3>1 DEF UserRecords
    <3> QED
      BY <2>3, <3>2
  <2> QED
    BY <2>1, <2>2, <2>3 DEF UserMoves
<1> QED
  BY <1>6, <1>7, <1>8 DEF ItemsFit

LEMMA UserKeepsUsers ==
  ASSUME LegacyTypeOK, UsersInv, NEW u \in Users, UserActs(u), Recorded
  PROVE  UserEffect(u) /\ LegacyTypeOK' /\ UsersInv'
<1>1. UserEffect(u) /\ UserMoves(u)
  BY UserHasEffect, UserHasMoved DEF UsersInv
<1>2. /\ Len(entries) \in Nat /\ DOMAIN entries = 1..Len(entries) /\ raced \subseteq raced'
      /\ entries' \in Seq(LegacyEntries) /\ DOMAIN entries' = 1..Len(entries')
      /\ Len(entries') \in Nat /\ Len(entries) <= Len(entries') /\ Len(entries') <= MaxEntries
  BY <1>1, EntryNumbers, LenProperties DEF Grew, UserEffect, Recorded
<1>3. \A v \in Users : UserFits(v)'
  <2> SUFFICES ASSUME NEW v \in Users \ {u} PROVE UserFits(v)'
    BY <1>1 DEF UserMoves
  <2>1. users[v].entry = users[u].entry /\ users[v].entry \in DOMAIN entries => users[v].entry \in raced
    BY DEF UsersInv, Met
  <2> QED
    BY <1>1, <1>2, <2>1, UserSpared DEF UsersInv, UserEffect
<1>4. users' \in [Users -> UserRecords(Len(entries), issued')]
  BY <1>1 DEF UserMoves
<1>5. Met'
  <2>1. \A v \in Users : users'[v].entry \in 0..Len(entries)
    BY <1>4 DEF UserRecords
  <2> QED
    BY <1>1, <2>1, MetAgain DEF UserEffect
<1>6. ItemsFit'
  BY <1>1, UserKeepsItems
<1>7. LegacyTypeOK'
  <2>1. users' \in [Users -> UserRecords(Len(entries'), issued')]
    <3>1. UserRecords(Len(entries), issued') \subseteq UserRecords(Len(entries'), issued')
      BY <1>2 DEF UserRecords
    <3> QED
      BY <1>4, <3>1
  <2>2. prl' \subseteq [id : 1..issued', entry : DOMAIN entries']
    <3>1. /\ issued \in Nat /\ issued' \in Nat /\ issued <= issued'
          /\ prl \subseteq [id : 1..issued, entry : DOMAIN entries]
      BY <1>1, RegisterNumbers DEF LegacyTypeOK, UserEffect, UserMoves
    <3>2. ASSUME users[u].pc = "save_item"
          PROVE  ItemOf(u) \in [id : 1..issued', entry : DOMAIN entries']
      <4>1. users[u].entry \in DOMAIN entries /\ users[u].item > 0
        BY <3>2 DEF UsersInv, UserFits
      <4>2. users[u].item \in 0..issued
        BY DEF LegacyTypeOK
      <4> QED
        BY <1>2, <3>1, <4>1, <4>2 DEF ItemOf
    <3>3. prl \subseteq [id : 1..issued', entry : DOMAIN entries']
      BY <1>2, <3>1
    <3> QED
      BY <1>1, <3>2, <3>3 DEF UserMoves
  <2>3. raced' \subseteq DOMAIN entries' /\ missed' \in BOOLEAN
    BY <1>2 DEF Recorded, LegacyTypeOK
  <2> QED
    BY <1>1, <1>2, <2>1, <2>2, <2>3 DEF LegacyTypeOK, UserEffect, UserMoves, UserRecords
<1> QED
  BY <1>1, <1>3, <1>5, <1>6, <1>7 DEF UsersInv

(* The review asks in an order; what is not asked any more was answered.   *)
LEMMA CandidateIs ==
  \A c : c \in Candidates <=> \E g \in DOMAIN Groups : \E i \in 1..Groups[g] : c = <<g, i>>
  BY DEF Candidates

LEMMA GroupNumbers ==
  /\ Len(Groups) \in Nat /\ DOMAIN Groups = 1..Len(Groups)
  /\ \A g \in DOMAIN Groups : Groups[g] \in Nat /\ Groups[g] >= 1
<1>1. Groups \in Seq(Nat \ {0})
  BY RegisterNumbers
<1>2. \A g \in DOMAIN Groups : Groups[g] \in Nat \ {0}
  BY <1>1, ElementOfSeq, LenProperties
<1> QED
  BY <1>1, <1>2, LenProperties

LEMMA OtherIsNone == Other \notin Candidates
<1> SUFFICES ASSUME NEW g \in DOMAIN Groups, NEW i \in 1..Groups[g], Other = <<g, i>> PROVE FALSE
  BY CandidateIs
<1> QED
  BY GroupNumbers DEF Other

LEMMA StopIs ==
  ASSUME NEW r \in Checkpoints, NEW s \in Stops(r)
  PROVE  /\ s = <<s[1], s[2]>> /\ s[1] \in DOMAIN Groups /\ s[2] \in Nat
         /\ s \in (0..(Len(Groups) + 1)) \X Nat
         /\ s[2] # 0 => s \in Candidates \ r.reviewed
<1>1. CASE \E g \in DOMAIN Groups : s = <<g, 0>>
  BY <1>1, GroupNumbers
<1>2. CASE s \in Candidates \ r.reviewed
  <2>0. PICK g \in DOMAIN Groups : \E i \in 1..Groups[g] : s = <<g, i>>
    BY <1>2, CandidateIs
  <2>1. PICK i \in 1..Groups[g] : s = <<g, i>>
    BY <2>0
  <2> QED
    BY <1>2, <2>1, GroupNumbers
<1> QED
  BY <1>1, <1>2 DEF Stops

LEMMA FirstOfStops ==
  ASSUME NEW r \in Checkpoints, Stops(r) # {}
  PROVE  \E s \in Stops(r) : \A t \in Stops(r) : ~Before(t, s)
<1> DEFINE gs == {s[1] : s \in Stops(r)}
<1>1. gs \subseteq Nat /\ gs # {}
  BY StopIs, GroupNumbers
<1>2. PICK g \in gs : \A h \in gs : g <= h
  <2> HIDE DEF gs
  <2> QED
    BY <1>1, LeastNumber
<1> DEFINE is == {s[2] : s \in {t \in Stops(r) : t[1] = g}}
<1>3. is \subseteq Nat /\ is # {}
  BY <1>2, StopIs
<1>4. PICK i \in is : \A j \in is : i <= j
  <2> HIDE DEF is
  <2> QED
    BY <1>3, LeastNumber
<1>5. PICK s \in Stops(r) : s[1] = g /\ s[2] = i
  BY <1>4
<1>6. ASSUME NEW t \in Stops(r) PROVE ~Before(t, s)
  <2>1. t[1] \in gs /\ (t[1] = g => t[2] \in is)
    OBVIOUS
  <2>2. t[1] \in Nat /\ t[2] \in Nat /\ g \in Nat /\ i \in Nat
    BY <1>1, <1>2, <1>3, <1>4, StopIs, GroupNumbers
  <2>3. g <= t[1] /\ (t[1] = g => i <= t[2])
    BY <1>2, <1>4, <2>1
  <2> QED
    BY <1>5, <2>2, <2>3 DEF Before
<1> QED
  BY <1>5, <1>6

LEMMA StopPassed ==
  ASSUME NEW r \in Checkpoints, NEW s \in Stops(r), NEW c \in Candidates, Before(c, Position(s))
  PROVE  Before(c, s)
<1>0. PICK g \in DOMAIN Groups : \E i \in 1..Groups[g] : c = <<g, i>>
  BY CandidateIs
<1>1. PICK i \in 1..Groups[g] : c = <<g, i>>
  BY <1>0
<1>2. g \in Nat /\ i \in Nat /\ i >= 1 /\ s[1] \in Nat /\ s[2] \in Nat
  BY GroupNumbers, StopIs
<1>3. CASE s[2] = 0
  <2>1. Position(s) = <<s[1], 1>>
    BY <1>3 DEF Position
  <2>2. g < s[1]
    BY <1>1, <1>2, <2>1 DEF Before
  <2> QED
    BY <1>1, <2>2 DEF Before
<1>4. CASE s[2] # 0
  BY <1>4 DEF Position
<1> QED
  BY <1>3, <1>4

LEMMA AfterPassed ==
  ASSUME NEW s \in Candidates
  PROVE  /\ After(s) \in (1..(Len(Groups) + 1)) \X Nat
         /\ \A c \in Candidates : Before(c, After(s)) => c = s \/ Before(c, s)
<1>0. PICK g \in DOMAIN Groups : \E i \in 1..Groups[g] : s = <<g, i>>
  BY CandidateIs
<1>1. PICK i \in 1..Groups[g] : s = <<g, i>>
  BY <1>0
<1>2. g \in Nat /\ i \in Nat /\ i >= 1 /\ g \in 1..Len(Groups) /\ Groups[g] \in Nat /\ Len(Groups) \in Nat
  BY GroupNumbers
<1>3. After(s) = IF i < Groups[g] THEN <<g, i + 1>> ELSE <<g + 1, 1>>
  BY <1>1 DEF After
<1>4. After(s) \in (1..(Len(Groups) + 1)) \X Nat
  BY <1>2, <1>3
<1>5. ASSUME NEW c \in Candidates, Before(c, After(s)) PROVE c = s \/ Before(c, s)
  <2>0. PICK h \in DOMAIN Groups : \E j \in 1..Groups[h] : c = <<h, j>>
    BY CandidateIs
  <2>1. PICK j \in 1..Groups[h] : c = <<h, j>>
    BY <2>0
  <2>2. h \in Nat /\ j \in Nat /\ j >= 1 /\ Groups[h] \in Nat /\ j <= Groups[h]
    BY GroupNumbers
  <2>3. CASE i < Groups[g]
    <3>1. h < g \/ (h = g /\ j < i + 1)
      BY <1>3, <1>5, <2>1, <2>3 DEF Before
    <3> QED
      BY <1>1, <1>2, <2>1, <2>2, <3>1 DEF Before
  <2>4. CASE ~(i < Groups[g])
    <3>1. h < g + 1 \/ (h = g + 1 /\ j < 1)
      BY <1>3, <1>5, <2>1, <2>4 DEF Before
    <3>2. i = Groups[g]
      BY <1>2, <2>4
    <3> QED
      BY <1>1, <1>2, <2>1, <2>2, <3>1, <3>2 DEF Before
  <2> QED
    BY <2>3, <2>4
<1> QED
  BY <1>4, <1>5

AllReviewed == \A c \in Candidates : Reviewed(c)

(* What a checkpoint says is in the register, but for what is being asked. *)
Honest(r, pending) ==
  /\ \A c \in r.reviewed \ pending : Reviewed(c)
  /\ \A e \in r.ids : e \in DOMAIN entries /\ entries[e].disposition # "none"
  /\ \A c \in Candidates : Before(c, r.at) => Reviewed(c)

Passed(s) == \A c \in Candidates : Before(c, Position(s)) => Reviewed(c)

StopRange == (0..(Len(Groups) + 1)) \X Nat

RecordOf(label, resumed, must, r, s, e) ==
  [pc |-> label, resumed |-> resumed, must |-> must, review |-> r, stop |-> s, entry |-> e]

LEMMA BuilderIs ==
  ASSUME NEW b \in Builders
  PROVE  /\ b = RecordOf(b.pc, b.resumed, b.must, b.review, b.stop, b.entry)
         /\ b.pc \in BuilderLabels /\ b.resumed \in BOOLEAN /\ b.must \in BOOLEAN
         /\ b.review \in Checkpoints /\ b.stop \in StopRange /\ b.entry \in 0..MaxEntries
  BY DEF Builders, StopRange, RecordOf

LEMMA BuilderRecord ==
  ASSUME NEW label \in BuilderLabels, NEW resumed \in BOOLEAN, NEW must \in BOOLEAN,
         NEW r \in Checkpoints, NEW s \in StopRange, NEW e \in 0..MaxEntries,
         NEW n, n = RecordOf(label, resumed, must, r, s, e)
  PROVE  /\ n \in Builders /\ n.pc = label /\ n.review = r /\ n.stop = s /\ n.entry = e
         /\ n.must = must /\ n.resumed = resumed
  BY DEF Builders, StopRange, RecordOf

LEMMA Proceeds ==
  ASSUME NEW b \in Builders, Honest(b.review, {}), Proceed(b)
  PROVE  /\ builder' \in Builders /\ builder'.review = b.review /\ builder'.must = b.must
         /\ builder'.entry = 0
         /\ \/ builder'.pc = "finish" /\ AllReviewed
            \/ /\ builder'.pc = "ask_save" /\ builder'.stop \in Stops(b.review)
               /\ Passed(builder'.stop)
<1>1. b.review \in Checkpoints
  BY DEF Builders
<1> DEFINE was == RecordOf(b.pc, b.resumed, b.must, b.review, b.stop, b.entry)
<1>10. b = was
  BY BuilderIs
<1>2. CASE Stops(b.review) = {}
  <2>1. builder' = [b EXCEPT !.pc = "finish", !.stop = <<0, 0>>, !.entry = 0]
    BY <1>2 DEF Proceed
  <2>2. /\ builder' \in Builders /\ builder'.review = b.review /\ builder'.must = b.must
        /\ builder'.entry = 0 /\ builder'.pc = "finish"
    <3>1. <<0, 0>> \in StopRange /\ 0 \in 0..MaxEntries
      BY GroupNumbers, RegisterNumbers DEF StopRange
    <3>2. builder' = RecordOf("finish", b.resumed, b.must, b.review, <<0, 0>>, 0)
      BY <1>10, <2>1 DEF RecordOf
    <3>3. "finish" \in BuilderLabels
      BY DEF BuilderLabels
    <3> QED
      BY <3>1, <3>2, <3>3, BuilderIs, BuilderRecord
  <2>3. AllReviewed
    BY <1>2 DEF AllReviewed, Honest, Stops
  <2> QED
    BY <2>2, <2>3
<1>3. CASE Stops(b.review) # {}
  <2> DEFINE s == CHOOSE s \in Stops(b.review) : \A t \in Stops(b.review) : ~Before(t, s)
  <2>1. builder' = [b EXCEPT !.pc = "ask_save", !.entry = 0, !.stop = s]
    BY <1>3 DEF Proceed
  <2>2. s \in Stops(b.review) /\ \A t \in Stops(b.review) : ~Before(t, s)
    BY <1>1, <1>3, FirstOfStops
  <2> HIDE DEF s
  <2>3. s \in (0..(Len(Groups) + 1)) \X Nat
    BY <1>1, <2>2, StopIs
  <2>4. /\ builder' \in Builders /\ builder'.review = b.review /\ builder'.must = b.must
        /\ builder'.entry = 0 /\ builder'.pc = "ask_save" /\ builder'.stop = s
    <3>1. s \in StopRange /\ 0 \in 0..MaxEntries
      BY <2>3, RegisterNumbers DEF StopRange
    <3>2. builder' = RecordOf("ask_save", b.resumed, b.must, b.review, s, 0)
      BY <1>10, <2>1 DEF RecordOf
    <3>3. "ask_save" \in BuilderLabels
      BY DEF BuilderLabels
    <3> QED
      BY <3>1, <3>2, <3>3, BuilderIs, BuilderRecord
  <2>5. ASSUME NEW c \in Candidates, Before(c, Position(s)) PROVE Reviewed(c)
    <3>1. Before(c, s)
      BY <1>1, <2>2, <2>5, StopPassed
    <3>2. c \notin Stops(b.review)
      BY <2>2, <3>1
    <3> QED
      BY <3>2 DEF Honest, Stops
  <2> QED
    BY <2>2, <2>4, <2>5 DEF Passed
<1> QED
  BY <1>2, <1>3

(* What the builder has behind it where it stands: of the review it is in, *)
(* of the session, and of the entry it works on.                           *)
Giving == {"register", "review", "verdict"}
InReview == Giving \cup {"ask_save", "ask", "advance", "finish"}

Pending == IF builder.pc \in Giving THEN {builder.stop} ELSE {}

SessionHonest == Honest(session.review, {})
BuilderHonest == Honest(builder.review, Pending)

StopFits(s, r) ==
  s[1] \in DOMAIN Groups /\ s[2] \in Nat /\ (s[2] # 0 => s \in Candidates \ r.reviewed)

BuilderFits ==
  /\ builder.pc = "mark" => (builder.must <=> ShouldReview(session))
  /\ builder.pc \in InReview => builder.must
  /\ builder.pc \in {"ask_save", "ask"} => StopFits(builder.stop, builder.review)
  /\ builder.pc = "ask" => builder.review.at = Position(builder.stop)
  /\ builder.pc \in Giving \cup {"advance"} =>
       /\ builder.stop \in Candidates /\ builder.stop \in builder.review.reviewed
       /\ builder.review.at = builder.stop
  /\ builder.pc \in {"review", "verdict"} =>
       /\ builder.entry \in DOMAIN entries /\ entries[builder.entry].about = builder.stop
       /\ builder.entry \in raced \/ entries[builder.entry].disposition = "none"
  /\ builder.pc \in Giving \cup {"ask", "advance"} => session.saved

StopPast == builder.pc = "ask_save" => Passed(builder.stop)

(* Where the review is over, everything was reviewed.                      *)
SessionDone ==
  \/ AllReviewed
  \/ /\ builder.pc # "finish" /\ (builder.pc = "launch" => missed)
     /\ session.saved \/ session.last = "brief_captured" \/ missed \/ builder.pc = "ask_save"

(* Whatever has an entry is known to whoever may ask again.                *)
Entered(c) == \E e \in DOMAIN entries : entries[e].about = c

OneEntryEach ==
  \A c \in Candidates : \A i, j \in DOMAIN entries :
    entries[i].about = c /\ entries[j].about = c => i = j

EnteredIn(s) == \A c \in Candidates : Entered(c) => c \in s

Knows ==
  /\ builder.pc \notin Giving \cup {"advance"} /\ ShouldReview(session) =>
       EnteredIn(session.review.reviewed)
  /\ builder.pc \in InReview \/ (builder.pc = "mark" /\ builder.must) =>
       EnteredIn(builder.review.reviewed)
  /\ builder.pc = "register" => ~Entered(builder.stop)

OnceFits == deaths = 0 /\ raced = {} => OneEntryEach /\ Knows

BuilderInv ==
  SessionHonest /\ BuilderHonest /\ BuilderFits /\ StopPast /\ SessionDone /\ OnceFits

LegacyInv == LegacyTypeOK /\ UsersInv /\ BuilderInv

LEMMA GrewFacts ==
  ASSUME LegacyTypeOK, Grew(entries, entries')
  PROVE  /\ Len(entries) \in Nat /\ DOMAIN entries = 1..Len(entries)
         /\ entries' \in Seq(LegacyEntries) /\ Len(entries') \in Nat
         /\ DOMAIN entries' = 1..Len(entries') /\ Len(entries) <= Len(entries')
         /\ \A e \in DOMAIN entries :
              /\ e \in DOMAIN entries' /\ entries'[e].about = entries[e].about
              /\ entries[e].disposition # "none" => entries'[e].disposition # "none"
<1>1. /\ Len(entries) \in Nat /\ DOMAIN entries = 1..Len(entries)
      /\ entries' \in Seq(LegacyEntries) /\ Len(entries) <= Len(entries')
  BY EntryNumbers DEF Grew
<1>2. Len(entries') \in Nat /\ DOMAIN entries' = 1..Len(entries')
  BY <1>1, LenProperties
<1> QED
  BY <1>1, <1>2 DEF Grew

(* What was reviewed stays so.                                             *)
LEMMA ReviewedStays ==
  ASSUME LegacyTypeOK, Grew(entries, entries')
  PROVE  /\ \A c : Reviewed(c) => Reviewed(c)'
         /\ AllReviewed => AllReviewed'
         /\ \A r, S : Honest(r, S) => Honest(r, S)'
         /\ \A s : Passed(s) => Passed(s)'
<1>1. \A c : Reviewed(c) => Reviewed(c)'
  BY GrewFacts DEF Reviewed
<1>2. \A r, S : Honest(r, S) => Honest(r, S)'
  <2> SUFFICES ASSUME NEW r, NEW S, Honest(r, S) PROVE Honest(r, S)'
    OBVIOUS
  <2> QED
    BY <1>1, GrewFacts DEF Honest
<1> QED
  BY <1>1, <1>2 DEF AllReviewed, Passed

(* What the steps of the builder have in common.                           *)
BuilderWrites ==
  /\ users' = users /\ prl' = prl /\ issued' = issued /\ commands' = commands
  /\ runs' \in 0..MaxRuns /\ deaths' \in 0..MaxDeaths /\ deaths <= deaths'
  /\ session' \in Sessions /\ builder' \in Builders
  /\ Grew(entries, entries') /\ OnlyAt(entries, entries', {builder.entry})
  /\ \A e \in DOMAIN entries : entries'[e].promoted = entries[e].promoted

LEMMA BuilderKeepsUsers ==
  ASSUME LegacyTypeOK, UsersInv, Recorded, BuilderWrites
  PROVE  LegacyTypeOK' /\ UsersInv'
<1> USE DEF BuilderWrites
<1>1. /\ Len(entries) \in Nat /\ DOMAIN entries = 1..Len(entries) /\ raced \subseteq raced'
      /\ entries' \in Seq(LegacyEntries) /\ DOMAIN entries' = 1..Len(entries')
      /\ Len(entries') \in Nat /\ Len(entries) <= Len(entries') /\ Len(entries') <= MaxEntries
  BY GrewFacts DEF Recorded, Grew
<1>2. users \in [Users -> UserRecords(Len(entries), issued)]
  BY DEF LegacyTypeOK, UserRecords
<1>3. \A u \in Users : UserFits(u)'
  <2> SUFFICES ASSUME NEW u \in Users PROVE UserFits(u)'
    OBVIOUS
  <2>1. users[u].entry = builder.entry /\ users[u].entry \in DOMAIN entries => users[u].entry \in raced
    BY DEF UsersInv, Met
  <2> QED
    BY <1>1, <2>1, UserSpared DEF UsersInv
<1>4. Met'
  <2>1. \A u \in Users : users'[u].entry \in 0..Len(entries)
    BY <1>2 DEF UserRecords
  <2> QED
    BY <2>1, MetAgain
<1>5. ItemsFit'
  <2>1. /\ \A e \in DOMAIN entries : entries[e].disposition # "none" => entries'[e].disposition # "none"
        /\ \A e \in DOMAIN entries' : e \notin DOMAIN entries => entries'[e].promoted = 0
        /\ \A e \in DOMAIN entries : entries'[e].promoted = entries[e].promoted
    BY <1>1 DEF Grew, Blank
  <2>2. /\ \A item \in prl : item.entry \in DOMAIN entries
        /\ deaths \in Nat /\ deaths' \in Nat /\ (deaths' = 0 => deaths = 0)
    BY RegisterNumbers DEF LegacyTypeOK
  <2>3. ItemsFit
    BY DEF UsersInv
  <2>4. ASSUME NEW e \in DOMAIN entries', entries'[e].promoted > 0
        PROVE  e \in DOMAIN entries /\ entries[e].promoted > 0
    BY <2>1, <2>4
  <2> QED
    BY <1>1, <2>1, <2>2, <2>3, <2>4 DEF ItemsFit
<1>6. LegacyTypeOK'
  <2>1. users' \in [Users -> UserRecords(Len(entries'), issued')]
    <3>1. UserRecords(Len(entries), issued) \subseteq UserRecords(Len(entries'), issued)
      BY <1>1 DEF UserRecords
    <3> QED
      BY <1>2, <3>1
  <2>2. raced' \subseteq DOMAIN entries' /\ missed' \in BOOLEAN
    BY <1>1 DEF Recorded, LegacyTypeOK
  <2>3. prl' \subseteq [id : 1..issued', entry : DOMAIN entries']
    BY <1>1 DEF LegacyTypeOK
  <2> QED
    BY <1>1, <2>1, <2>2, <2>3 DEF LegacyTypeOK, UserRecords
<1> QED
  BY <1>3, <1>4, <1>5, <1>6 DEF UsersInv

(* A step of a user changes nothing the builder relies on, unless they     *)
(* have met.                                                               *)
LEMMA UserKeepsBuilder ==
  ASSUME LegacyTypeOK, UsersInv, BuilderInv, NEW u \in Users, UserActs(u), UserEffect(u), Recorded
  PROVE  BuilderInv'
<1>1. /\ builder' = builder /\ session' = session /\ raced \subseteq raced'
      /\ Grew(entries, entries') /\ (missed => missed')
      /\ (deaths' = 0 => deaths = 0)
  BY RegisterNumbers DEF UserEffect, UserMoves, Recorded, LegacyTypeOK
<1>2. SessionHonest' /\ BuilderHonest'
  <2>1. PICK r, S : r = builder.review /\ S = Pending
    OBVIOUS
  <2>2. PICK q : q = session.review
    OBVIOUS
  <2>3. Honest(r, S)' /\ Honest(q, {})'
    BY <1>1, <2>1, <2>2, ReviewedStays DEF BuilderInv, SessionHonest, BuilderHonest
  <2>4. S = Pending'
    BY <1>1, <2>1 DEF Pending
  <2> QED
    BY <1>1, <2>1, <2>2, <2>3, <2>4 DEF SessionHonest, BuilderHonest, Honest
<1>3. BuilderFits'
  <2>1. ASSUME builder.pc \in {"review", "verdict"}
        PROVE  LET e == builder.entry
               IN  /\ e \in DOMAIN entries' /\ entries'[e].about = builder.stop
                   /\ e \in raced' \/ entries'[e].disposition = "none"
    <3>1. /\ builder.entry \in DOMAIN entries /\ entries[builder.entry].about = builder.stop
          /\ builder.entry \in raced \/ entries[builder.entry].disposition = "none"
      BY <2>1 DEF BuilderInv, BuilderFits
    <3>2. CASE builder.entry = users[u].entry
      <4>1. builder.entry \in raced
        BY <3>1, <3>2 DEF UsersInv, Met
      <4> QED
        BY <1>1, <3>1, <4>1, GrewFacts
    <3>3. CASE builder.entry # users[u].entry
      <4>1. entries'[builder.entry] = entries[builder.entry]
        BY <3>1, <3>3, EntryNumbers DEF UserEffect, OnlyAt
      <4> QED
        BY <1>1, <3>1, <4>1, GrewFacts
    <3> QED
      BY <3>2, <3>3
  <2>2. BuilderFits
    BY DEF BuilderInv
  <2> QED
    BY <1>1, <2>1, <2>2 DEF BuilderFits, ShouldReview
<1>4. StopPast'
  <2>1. PICK s : s = builder.stop
    OBVIOUS
  <2>2. builder.pc = "ask_save" => Passed(s)'
    BY <1>1, <2>1, ReviewedStays DEF BuilderInv, StopPast
  <2> QED
    BY <1>1, <2>1, <2>2 DEF StopPast, Passed
<1>5. SessionDone'
  BY <1>1, ReviewedStays DEF BuilderInv, SessionDone
<1>6. OnceFits'
  <2> SUFFICES ASSUME deaths' = 0, raced' = {} PROVE OneEntryEach' /\ Knows'
    BY DEF OnceFits
  <2>1. OneEntryEach /\ Knows
    BY <1>1 DEF BuilderInv, OnceFits
  <2>2. ASSUME NEW c \in Candidates, NEW e \in DOMAIN entries', entries'[e].about = c
        PROVE  e \in DOMAIN entries /\ entries[e].about = c
    <3>1. e \in DOMAIN entries
      <4>1. e \in 1..Len(entries') /\ Len(entries) \in Nat
        BY <1>1, GrewFacts
      <4>2. e \notin (Len(entries) + 1)..Len(entries')
        BY <2>2, OtherIsNone DEF UserEffect
      <4> QED
        BY <1>1, <4>1, <4>2, GrewFacts
    <3> QED
      BY <1>1, <2>2, <3>1, GrewFacts
  <2>3. \A c \in Candidates : Entered(c)' => Entered(c)
    BY <2>2 DEF Entered
  <2>4. \A s : EnteredIn(s) => EnteredIn(s)'
    BY <2>3 DEF EnteredIn
  <2>5. OneEntryEach'
    BY <2>1, <2>2 DEF OneEntryEach
  <2>6. builder.pc = "register" => builder.stop \in Candidates
    BY DEF BuilderInv, BuilderFits, Giving
  <2>7. Knows'
    <3>1. PICK q, r : q = session.review.reviewed /\ r = builder.review.reviewed
      OBVIOUS
    <3>2. /\ builder.pc \notin Giving \cup {"advance"} /\ ShouldReview(session) => EnteredIn(q)'
          /\ builder.pc \in InReview \/ (builder.pc = "mark" /\ builder.must) => EnteredIn(r)'
      BY <2>1, <2>4, <3>1 DEF Knows
    <3>3. PICK s : s = builder.stop
      OBVIOUS
    <3>4. builder.pc = "register" => ~Entered(s)'
      BY <2>1, <2>3, <2>6, <3>3 DEF Knows
    <3> QED
      BY <1>1, <3>1, <3>2, <3>3, <3>4 DEF Knows, EnteredIn, Entered, ShouldReview
  <2> QED
    BY <2>5, <2>7
<1> QED
  BY <1>2, <1>3, <1>4, <1>5, <1>6 DEF BuilderInv

SessionOf(saved, review, last, next) ==
  [saved |-> saved, review |-> review, last |-> last, next |-> next]

Lasts == {"brief_captured", "execution_started", "review_in_progress", "review_completed", "other"}
Nexts == {"run", "review_brownfield", "review_evidence"}

LEMMA SessionIs ==
  ASSUME NEW s \in Sessions
  PROVE  /\ s = SessionOf(s.saved, s.review, s.last, s.next)
         /\ s.saved \in BOOLEAN /\ s.review \in Checkpoints /\ s.last \in Lasts /\ s.next \in Nexts
  BY DEF Sessions, SessionOf, Lasts, Nexts

LEMMA SessionRecord ==
  ASSUME NEW saved \in BOOLEAN, NEW review \in Checkpoints, NEW last \in Lasts,
         NEW next \in Nexts, NEW s, s = SessionOf(saved, review, last, next)
  PROVE  /\ s \in Sessions /\ s.saved = saved /\ s.review = review
         /\ s.last = last /\ s.next = next
  BY DEF Sessions, SessionOf, Lasts, Nexts

LEMMA CheckpointIs ==
  ASSUME NEW r \in Checkpoints
  PROVE  /\ r = [at |-> r.at, reviewed |-> r.reviewed, ids |-> r.ids, asked |-> r.asked]
         /\ r.at \in (1..(Len(Groups) + 1)) \X Nat /\ r.reviewed \in SUBSET Candidates
         /\ r.ids \in SUBSET (1..MaxEntries) /\ r.asked \in SUBSET DOMAIN Groups
  BY DEF Checkpoints

LEMMA RestingFacts ==
  /\ NoCheckpoint \in Checkpoints /\ NoCheckpoint.reviewed = {} /\ NoCheckpoint.ids = {}
  /\ \A c \in Candidates : ~Before(c, NoCheckpoint.at)
  /\ RestingBuilder \in Builders /\ RestingBuilder.pc = "idle"
  /\ RestingBuilder.review = NoCheckpoint /\ RestingBuilder.entry = 0
<1>1. NoCheckpoint \in Checkpoints
  BY GroupNumbers DEF NoCheckpoint, FirstStop, Checkpoints
<1>2. ASSUME NEW c \in Candidates PROVE ~Before(c, <<1, 1>>)
  <2>1. PICK g \in DOMAIN Groups : \E i \in 1..Groups[g] : c = <<g, i>>
    BY CandidateIs
  <2>2. PICK i \in 1..Groups[g] : c = <<g, i>>
    BY <2>1
  <2> QED
    BY <2>2, GroupNumbers DEF Before
<1>3. <<0, 0>> \in StopRange /\ 0 \in 0..MaxEntries /\ "idle" \in BuilderLabels
  BY GroupNumbers, RegisterNumbers DEF StopRange, BuilderLabels
<1>4. RestingBuilder = RecordOf("idle", FALSE, FALSE, NoCheckpoint, <<0, 0>>, 0)
  BY DEF RestingBuilder, RecordOf
<1>5. RestingBuilder \in Builders /\ RestingBuilder.pc = "idle"
      /\ RestingBuilder.review = NoCheckpoint /\ RestingBuilder.entry = 0
  <2>1. PICK no \in BOOLEAN : no = FALSE
    OBVIOUS
  <2>2. RestingBuilder = RecordOf("idle", no, no, NoCheckpoint, <<0, 0>>, 0)
    BY <1>4, <2>1
  <2> QED
    BY <1>1, <1>3, <2>2, BuilderRecord
<1> QED
  BY <1>1, <1>2, <1>5 DEF NoCheckpoint, FirstStop

LEMMA NothingHonest == \A S : Honest(NoCheckpoint, S)
  BY RestingFacts DEF Honest

(* A step of the builder that leaves the register as it is.                *)
BuilderReads ==
  /\ entries' = entries /\ users' = users /\ prl' = prl /\ issued' = issued
  /\ commands' = commands /\ runs' \in 0..MaxRuns /\ deaths' \in 0..MaxDeaths /\ deaths <= deaths'

LEMMA ReadsWrites ==
  ASSUME LegacyTypeOK, BuilderReads, session' \in Sessions, builder' \in Builders
  PROVE  BuilderWrites
<1>1. Grew(entries, entries) /\ OnlyAt(entries, entries, {})
  BY NothingGrew DEF LegacyTypeOK
<1> QED
  BY <1>1 DEF BuilderReads, BuilderWrites, OnlyAt

LEMMA ReadsKeeps ==
  ASSUME entries' = entries
  PROVE  /\ \A c : Reviewed(c)' <=> Reviewed(c)
         /\ AllReviewed' <=> AllReviewed
         /\ \A r, S : Honest(r, S)' <=> Honest(r, S)
         /\ \A s : Passed(s)' <=> Passed(s)
         /\ \A c : Entered(c)' <=> Entered(c)
         /\ \A s : EnteredIn(s)' <=> EnteredIn(s)
         /\ OneEntryEach' <=> OneEntryEach
  BY DEF Reviewed, AllReviewed, Honest, Passed, Entered, EnteredIn, OneEntryEach

(* Such a step, by what becomes of the session and of the builder.         *)
LEMMA ReadsKeepsInv ==
  ASSUME LegacyTypeOK, Recorded, BuilderReads, BuilderInv,
         NEW s \in Sessions, s = session', NEW b \in Builders, b = builder',
         NEW S, S = Pending',
         Honest(s.review, {}), Honest(b.review, S), BuilderFits', SessionDone',
         b.pc = "ask_save" => Passed(b.stop),
         deaths' = 0 /\ raced = {} =>
           /\ b.pc \notin Giving \cup {"advance"} /\ ShouldReview(s) => EnteredIn(s.review.reviewed)
           /\ b.pc \in InReview \/ (b.pc = "mark" /\ b.must) => EnteredIn(b.review.reviewed)
           /\ b.pc = "register" => ~Entered(b.stop)
  PROVE  BuilderWrites /\ BuilderInv'
<1>1. BuilderWrites
  BY ReadsWrites
<1>2. entries' = entries /\ (deaths' = 0 => deaths = 0) /\ raced \subseteq raced'
  BY RegisterNumbers DEF BuilderReads, Recorded, LegacyTypeOK
<1>3. SessionHonest' /\ BuilderHonest'
  <2>1. PICK q, r : q = s.review /\ r = b.review
    OBVIOUS
  <2>2. Honest(q, {})' /\ Honest(r, S)'
    BY <1>2, <2>1, ReadsKeeps
  <2> QED
    BY <2>1, <2>2 DEF SessionHonest, BuilderHonest, Honest
<1>4. StopPast'
  <2>1. PICK t : t = b.stop
    OBVIOUS
  <2>2. b.pc = "ask_save" => Passed(t)'
    BY <1>2, <2>1, ReadsKeeps
  <2> QED
    BY <2>1, <2>2 DEF StopPast, Passed
<1>5. OnceFits'
  <2> SUFFICES ASSUME deaths' = 0, raced' = {} PROVE OneEntryEach' /\ Knows'
    BY DEF OnceFits
  <2>1. OneEntryEach'
    BY <1>2, ReadsKeeps DEF BuilderInv, OnceFits
  <2>2. PICK q, r, t : q = s.review.reviewed /\ r = b.review.reviewed /\ t = b.stop
    OBVIOUS
  <2>3. /\ b.pc \notin Giving \cup {"advance"} /\ ShouldReview(s) => EnteredIn(q)'
        /\ b.pc \in InReview \/ (b.pc = "mark" /\ b.must) => EnteredIn(r)'
        /\ b.pc = "register" => ~Entered(t)'
    BY <1>2, <2>2, ReadsKeeps
  <2>4. Knows'
    BY <2>2, <2>3 DEF Knows, EnteredIn, Entered, ShouldReview
  <2> QED
    BY <2>1, <2>4
<1> QED
  BY <1>1, <1>3, <1>4, <1>5 DEF BuilderInv

(* The steps of the builder, one by one.                                   *)
LEMMA BuilderNow ==
  ASSUME LegacyTypeOK
  PROVE  /\ session \in Sessions /\ builder \in Builders
         /\ session = SessionOf(session.saved, session.review, session.last, session.next)
         /\ builder = RecordOf(builder.pc, builder.resumed, builder.must, builder.review,
                               builder.stop, builder.entry)
         /\ session.saved \in BOOLEAN /\ session.review \in Checkpoints
         /\ session.last \in Lasts /\ session.next \in Nexts
         /\ builder.resumed \in BOOLEAN /\ builder.must \in BOOLEAN
         /\ builder.review \in Checkpoints /\ builder.stop \in StopRange
         /\ builder.entry \in 0..MaxEntries
         /\ runs \in 0..MaxRuns /\ deaths \in 0..MaxDeaths /\ deaths <= deaths
  BY SessionIs, BuilderIs, RegisterNumbers DEF LegacyTypeOK

LEMMA CandidateFits ==
  ASSUME NEW c \in Candidates
  PROVE  /\ c[1] \in DOMAIN Groups /\ c[2] \in Nat /\ c[2] # 0
         /\ c \in StopRange /\ c \in (1..(Len(Groups) + 1)) \X Nat
<1>0. PICK g \in DOMAIN Groups : \E i \in 1..Groups[g] : c = <<g, i>>
  BY CandidateIs
<1>1. PICK i \in 1..Groups[g] : c = <<g, i>>
  BY <1>0
<1> QED
  BY <1>1, GroupNumbers DEF StopRange

LEMMA BeginBuildKeeps ==
  ASSUME LegacyTypeOK, BuilderInv, Recorded, BeginBuild
  PROVE  BuilderWrites /\ BuilderInv'
<1> DEFINE s == session
<1>1. /\ builder.pc = "idle" /\ session' = session /\ BuilderReads /\ deaths' = deaths
  BY BuilderNow, RegisterNumbers DEF BeginBuild, BuilderAt, BuilderReads, stored
<1>2. PICK resumed \in BOOLEAN, must \in BOOLEAN :
        /\ resumed = (session.next = "review_brownfield") /\ must = ShouldReview(session)
  BY DEF ShouldReview
<1>3. builder' = RecordOf("mark", resumed, must, session.review, <<0, 0>>, 0)
  BY <1>2 DEF BeginBuild, RestingBuilder, RecordOf
<1>4. /\ builder' \in Builders /\ builder'.pc = "mark" /\ builder'.must = must
      /\ builder'.review = session.review
  <2>1. <<0, 0>> \in StopRange /\ 0 \in 0..MaxEntries /\ "mark" \in BuilderLabels
    BY GroupNumbers, RegisterNumbers DEF StopRange, BuilderLabels
  <2> QED
    BY <1>3, <2>1, BuilderRecord, BuilderNow
<1>5. Pending' = {}
  BY <1>4 DEF Pending, Giving
<1>6. BuilderFits'
  BY <1>1, <1>2, <1>4 DEF BuilderFits, InReview, Giving, ShouldReview
<1>7. SessionDone'
  BY <1>1, <1>4, ReadsKeeps DEF BuilderInv, SessionDone, Recorded, BuilderReads
<1>8. ASSUME deaths' = 0, raced = {}, ShouldReview(session) PROVE EnteredIn(session.review.reviewed)
  BY <1>1, <1>8 DEF BuilderInv, OnceFits, Knows, Giving
<1>9. Honest(session.review, {})
  BY DEF BuilderInv, SessionHonest
<1>10. PICK b \in Builders : b = builder'
  BY <1>4
<1>11. PICK q \in Sessions : q = session'
  BY <1>1, BuilderNow
<1> QED
  BY <1>1, <1>2, <1>4, <1>5, <1>6, <1>7, <1>8, <1>9, <1>10, <1>11, ReadsKeepsInv
    DEF Giving, InReview

LEMMA RuntimeBlockedKeeps ==
  ASSUME LegacyTypeOK, BuilderInv, Recorded, RuntimeBlocked
  PROVE  BuilderWrites /\ BuilderInv'
<1>1. /\ builder.pc = "mark" /\ builder' = RestingBuilder /\ BuilderReads /\ deaths' = deaths
  BY BuilderNow, RegisterNumbers DEF RuntimeBlocked, BuilderAt, BuilderReads, counts
<1>2. session' = SessionOf(session.saved, session.review, "other", "run")
  <2>1. session = SessionOf(session.saved, session.review, session.last, session.next)
    BY BuilderNow
  <2> QED
    BY <2>1 DEF RuntimeBlocked, SessionOf
<1>3. /\ session' \in Sessions /\ session'.saved = session.saved
      /\ session'.review = session.review /\ session'.last = "other" /\ session'.next = "run"
  <2>1. "other" \in Lasts /\ "run" \in Nexts
    BY DEF Lasts, Nexts
  <2> QED
    BY <1>2, <2>1, BuilderNow, SessionRecord
<1>4. Pending' = {} /\ builder' \in Builders /\ builder'.pc = "idle" /\ builder'.review = NoCheckpoint
  BY <1>1, RestingFacts DEF Pending, Giving
<1>6. BuilderFits'
  BY <1>4 DEF BuilderFits, InReview, Giving
<1>7. SessionDone'
  <2>1. CASE AllReviewed
    BY <1>1, <2>1, ReadsKeeps DEF SessionDone, BuilderReads
  <2>2. CASE session.saved \/ missed
    BY <1>3, <1>4, <2>2 DEF SessionDone, Recorded
  <2>3. CASE session.last = "brief_captured" /\ ~session.saved
    <3>1. builder.must
      BY <1>1, <2>3 DEF BuilderInv, BuilderFits, ShouldReview
    <3>2. missed'
      BY <1>1, <1>3, <1>4, <2>3, <3>1 DEF Recorded, Misses
    <3> QED
      BY <1>4, <3>2 DEF SessionDone
  <2> QED
    BY <1>1, <2>1, <2>2, <2>3 DEF BuilderInv, SessionDone
<1>8. ASSUME deaths' = 0, raced = {}, session.saved PROVE EnteredIn(session.review.reviewed)
  BY <1>1, <1>8 DEF BuilderInv, OnceFits, Knows, Giving, ShouldReview
<1>9. Honest(session.review, {}) /\ Honest(NoCheckpoint, {})
  BY NothingHonest DEF BuilderInv, SessionHonest
<1>10. PICK b \in Builders : b = builder'
  BY <1>4
<1>11. PICK q \in Sessions : q = session'
  BY <1>3
<1> QED
  BY <1>1, <1>3, <1>4, <1>6, <1>7, <1>8, <1>9, <1>10, <1>11, ReadsKeepsInv
    DEF Giving, InReview, ShouldReview

LEMMA PauseKeeps ==
  ASSUME LegacyTypeOK, BuilderInv, Recorded, Pause
  PROVE  BuilderWrites /\ BuilderInv'
<1>1. /\ builder.pc = "ask" /\ builder' = RestingBuilder /\ BuilderReads /\ deaths' = deaths
      /\ session' = session /\ session.saved
  BY BuilderNow, RegisterNumbers
    DEF Pause, BuilderAt, BuilderReads, counts, stored, BuilderInv, BuilderFits
<1>4. Pending' = {} /\ builder' \in Builders /\ builder'.pc = "idle" /\ builder'.review = NoCheckpoint
  BY <1>1, RestingFacts DEF Pending, Giving
<1>6. BuilderFits'
  BY <1>4 DEF BuilderFits, InReview, Giving
<1>7. SessionDone'
  BY <1>1, <1>4 DEF SessionDone
<1>8. ASSUME deaths' = 0, raced = {} PROVE EnteredIn(session.review.reviewed)
  BY <1>1, <1>8 DEF BuilderInv, OnceFits, Knows, Giving, ShouldReview
<1>9. Honest(session.review, {}) /\ Honest(NoCheckpoint, {})
  BY NothingHonest DEF BuilderInv, SessionHonest
<1>10. PICK b \in Builders : b = builder'
  BY <1>4
<1>11. PICK q \in Sessions : q = session'
  BY <1>1, BuilderNow
<1> QED
  BY <1>1, <1>4, <1>6, <1>7, <1>8, <1>9, <1>10, <1>11, ReadsKeepsInv
    DEF Giving, InReview

LEMMA BuilderDiesKeeps ==
  ASSUME LegacyTypeOK, BuilderInv, Recorded, BuilderDies
  PROVE  BuilderWrites /\ BuilderInv'
<1>1. /\ builder' = RestingBuilder /\ session' = session /\ deaths' \in 0..MaxDeaths
      /\ deaths' # 0 /\ deaths <= deaths' /\ runs' = runs
      /\ entries' = entries /\ users' = users /\ prl' = prl /\ issued' = issued
      /\ commands' = commands
  <2>1. /\ deaths < MaxDeaths /\ deaths' = deaths + 1 /\ builder' = RestingBuilder
        /\ session' = session /\ entries' = entries /\ users' = users /\ prl' = prl
        /\ issued' = issued /\ commands' = commands /\ runs' = runs
    BY DEF BuilderDies, Dies, stored
  <2> QED
    BY <2>1, BuilderNow, RegisterNumbers
<1>2. BuilderReads
  BY <1>1, BuilderNow DEF BuilderReads
<1>4. Pending' = {} /\ builder' \in Builders /\ builder'.pc = "idle" /\ builder'.review = NoCheckpoint
  BY <1>1, RestingFacts DEF Pending, Giving
<1>6. BuilderFits'
  BY <1>4 DEF BuilderFits, InReview, Giving
<1>7. SessionDone'
  <2>1. CASE AllReviewed
    BY <1>1, <2>1, ReadsKeeps DEF SessionDone
  <2>2. CASE session.saved \/ session.last = "brief_captured" \/ missed
    BY <1>1, <1>4, <2>2 DEF SessionDone, Recorded
  <2>3. CASE builder.pc = "ask_save" /\ ~(session.saved \/ session.last = "brief_captured")
    <3>1. builder.must
      BY <2>3 DEF BuilderInv, BuilderFits, InReview
    <3>2. missed'
      BY <1>1, <1>4, <2>3, <3>1 DEF Recorded, Misses
    <3> QED
      BY <1>4, <3>2 DEF SessionDone
  <2> QED
    BY <2>1, <2>2, <2>3 DEF BuilderInv, SessionDone
<1>9. Honest(session.review, {}) /\ Honest(NoCheckpoint, {})
  BY NothingHonest DEF BuilderInv, SessionHonest
<1>10. PICK b \in Builders : b = builder'
  BY <1>4
<1>11. PICK q \in Sessions : q = session'
  BY <1>1, BuilderNow
<1> QED
  BY <1>1, <1>2, <1>4, <1>6, <1>7, <1>9, <1>10, <1>11, ReadsKeepsInv

\* a step into the review, or over it
LEMMA ProceedKeeps ==
  ASSUME LegacyTypeOK, BuilderInv, Recorded, BuilderReads, deaths' = deaths,
         NEW b \in Builders, b.must, Honest(b.review, {}), Proceed(b),
         session' \in Sessions, Honest(session'.review, {}),
         deaths = 0 /\ raced = {} =>
           /\ ShouldReview(session') => EnteredIn(session'.review.reviewed)
           /\ EnteredIn(b.review.reviewed)
  PROVE  BuilderWrites /\ BuilderInv'
<1>1. /\ builder' \in Builders /\ builder'.review = b.review /\ builder'.must = b.must
      /\ \/ builder'.pc = "finish" /\ AllReviewed
         \/ /\ builder'.pc = "ask_save" /\ builder'.stop \in Stops(b.review)
            /\ Passed(builder'.stop)
  BY Proceeds
<1>2. Pending' = {} /\ builder'.pc \in {"finish", "ask_save"}
  BY <1>1 DEF Pending, Giving
<1>3. BuilderFits'
  <2>1. b.review \in Checkpoints
    BY BuilderIs
  <2>2. builder'.pc = "ask_save" => StopFits(builder'.stop, builder'.review)
    BY <1>1, <2>1, StopIs DEF StopFits
  <2> QED
    BY <1>1, <1>2, <2>2 DEF BuilderFits, Giving
<1>4. SessionDone'
  <2>1. CASE builder'.pc = "finish"
    BY <1>1, <2>1, ReadsKeeps DEF SessionDone, BuilderReads
  <2>2. CASE builder'.pc = "ask_save"
    BY <2>2 DEF SessionDone
  <2> QED
    BY <1>2, <2>1, <2>2
<1>5. PICK n \in Builders : n = builder'
  BY <1>1
<1>6. PICK q \in Sessions : q = session'
  OBVIOUS
<1>7. deaths' = 0 /\ raced = {} =>
        /\ n.pc \notin Giving \cup {"advance"} /\ ShouldReview(q) => EnteredIn(q.review.reviewed)
        /\ n.pc \in InReview \/ (n.pc = "mark" /\ n.must) => EnteredIn(n.review.reviewed)
        /\ n.pc = "register" => ~Entered(n.stop)
  <2>1. n.pc # "register" /\ n.review = b.review
    BY <1>1, <1>2, <1>5
  <2>2. deaths = 0 /\ raced = {} =>
          (ShouldReview(q) => EnteredIn(q.review.reviewed)) /\ EnteredIn(b.review.reviewed)
    BY <1>6
  <2> QED
    BY <2>1, <2>2
<1>8. n.pc = "ask_save" => Passed(n.stop)
  BY <1>1, <1>5
<1>9. PICK S : S = Pending'
  OBVIOUS
<1>10. Honest(q.review, {}) /\ Honest(n.review, S)
  BY <1>1, <1>2, <1>5, <1>6, <1>9
<1> QED
  BY <1>3, <1>4, <1>5, <1>6, <1>7, <1>8, <1>9, <1>10, ReadsKeepsInv

LEMMA MarkRunningKeeps ==
  ASSUME LegacyTypeOK, BuilderInv, Recorded, MarkRunning
  PROVE  BuilderWrites /\ BuilderInv'
<1>1. /\ builder.pc = "mark" /\ BuilderReads /\ deaths' = deaths
      /\ (builder.must => Proceed(builder))
      /\ (~builder.must => builder' = [builder EXCEPT !.pc = "launch"])
  BY BuilderNow, RegisterNumbers DEF MarkRunning, BuilderAt, BuilderReads, counts
<1>2. session' = SessionOf(session.saved, session.review, "execution_started", "review_evidence")
  <2>1. session = SessionOf(session.saved, session.review, session.last, session.next)
    BY BuilderNow
  <2> QED
    BY <2>1 DEF MarkRunning, SessionOf
<1>3. /\ session' \in Sessions /\ session'.saved = session.saved
      /\ session'.review = session.review /\ session'.last = "execution_started"
      /\ session'.next = "review_evidence"
  <2>1. "execution_started" \in Lasts /\ "review_evidence" \in Nexts
    BY DEF Lasts, Nexts
  <2> QED
    BY <1>2, <2>1, BuilderNow, SessionRecord
<1>4. Honest(session.review, {}) /\ Honest(builder.review, {})
  BY <1>1 DEF BuilderInv, SessionHonest, BuilderHonest, Pending, Giving
<1>5. builder.must <=> ShouldReview(session)
  BY <1>1 DEF BuilderInv, BuilderFits
<1>6. ShouldReview(session') <=> session.saved
  BY <1>3 DEF ShouldReview
<1>7. session.saved => ShouldReview(session)
  BY DEF ShouldReview
<1>8. CASE builder.must
  <2>1. deaths = 0 /\ raced = {} =>
          /\ ShouldReview(session') => EnteredIn(session'.review.reviewed)
          /\ EnteredIn(builder.review.reviewed)
    BY <1>1, <1>3, <1>6, <1>7, <1>8 DEF BuilderInv, OnceFits, Knows, Giving
  <2>2. PICK b \in Builders : b = builder
    BY BuilderNow
  <2> QED
    BY <1>1, <1>3, <1>4, <1>8, <2>1, <2>2, ProceedKeeps
<1>9. CASE ~builder.must
  <2>1. builder' = RecordOf("launch", builder.resumed, builder.must, builder.review,
                            builder.stop, builder.entry)
    <3>1. builder = RecordOf(builder.pc, builder.resumed, builder.must, builder.review,
                             builder.stop, builder.entry)
      BY BuilderNow
    <3> QED
      BY <1>1, <1>9, <3>1 DEF RecordOf
  <2>2. /\ builder' \in Builders /\ builder'.pc = "launch" /\ builder'.review = builder.review
        /\ builder'.must = builder.must
    <3>1. "launch" \in BuilderLabels
      BY DEF BuilderLabels
    <3> QED
      BY <2>1, <3>1, BuilderNow, BuilderRecord
  <2>3. Pending' = {} /\ BuilderFits'
    BY <1>9, <2>2 DEF Pending, Giving, BuilderFits, InReview
  <2>4. SessionDone'
    <3>1. AllReviewed \/ missed
      BY <1>1, <1>5, <1>9 DEF BuilderInv, SessionDone, ShouldReview
    <3>2. AllReviewed => AllReviewed'
      BY <1>1, ReadsKeeps DEF BuilderReads
    <3> QED
      BY <2>2, <3>1, <3>2 DEF SessionDone, Recorded
  <2>5. PICK b \in Builders : b = builder'
    BY <2>2
  <2>6. PICK q \in Sessions : q = session'
    BY <1>3
  <2>7. ~ShouldReview(q)
    BY <1>5, <1>6, <1>7, <1>9, <2>6
  <2>8. b.pc \notin InReview /\ b.pc # "mark" /\ b.pc # "register" /\ b.pc # "ask_save"
    BY <2>2, <2>5 DEF InReview, Giving
  <2> QED
    BY <1>1, <1>3, <1>4, <2>2, <2>3, <2>4, <2>5, <2>6, <2>7, <2>8, ReadsKeepsInv
<1> QED
  BY <1>8, <1>9

LEMMA SaveBeforeAskingKeeps ==
  ASSUME LegacyTypeOK, BuilderInv, Recorded, SaveBeforeAsking
  PROVE  BuilderWrites /\ BuilderInv'
<1>1. /\ builder.pc = "ask_save" /\ BuilderReads /\ deaths' = deaths
  BY BuilderNow, RegisterNumbers DEF SaveBeforeAsking, BuilderAt, BuilderReads, counts
<1>2. PICK r : r = [builder.review EXCEPT !.at = Position(builder.stop)]
  OBVIOUS
<1>3. /\ StopFits(builder.stop, builder.review) /\ Passed(builder.stop) /\ builder.must
      /\ Honest(builder.review, {}) /\ builder.stop \in StopRange
  BY <1>1, BuilderNow
    DEF BuilderInv, BuilderFits, StopPast, BuilderHonest, Pending, InReview, Giving
<1>4. Position(builder.stop) \in (1..(Len(Groups) + 1)) \X Nat
  BY <1>3, GroupNumbers, CandidateFits DEF Position, StopFits
<1>5. r \in Checkpoints /\ r.at = Position(builder.stop) /\ r.reviewed = builder.review.reviewed
      /\ r.ids = builder.review.ids
  BY <1>2, <1>4, BuilderNow DEF Checkpoints
<1>6. Honest(r, {})
  BY <1>3, <1>5 DEF Honest, Passed
<1>7. /\ session' = SessionOf(TRUE, r, "review_in_progress", "review_brownfield")
      /\ builder' = RecordOf("ask", builder.resumed, builder.must, r, builder.stop, builder.entry)
  <2>1. /\ session = SessionOf(session.saved, session.review, session.last, session.next)
        /\ builder = RecordOf(builder.pc, builder.resumed, builder.must, builder.review,
                              builder.stop, builder.entry)
    BY BuilderNow
  <2>2. /\ session' = [session EXCEPT !.saved = TRUE, !.review = r,
                         !.last = "review_in_progress", !.next = "review_brownfield"]
        /\ builder' = [builder EXCEPT !.pc = "ask", !.review = r]
    BY <1>2 DEF SaveBeforeAsking, SaveCheckpoint
  <2> QED
    BY <2>1, <2>2 DEF SessionOf, RecordOf
<1>8. /\ session' \in Sessions /\ session'.saved /\ session'.review = r
  <2>1. "review_in_progress" \in Lasts /\ "review_brownfield" \in Nexts
    BY DEF Lasts, Nexts
  <2>2. PICK yes \in BOOLEAN : yes = TRUE
    OBVIOUS
  <2>3. session' = SessionOf(yes, r, "review_in_progress", "review_brownfield")
    BY <1>7, <2>2
  <2>4. session' \in Sessions /\ session'.saved = yes /\ session'.review = r
    BY <1>5, <2>1, <2>3, SessionRecord
  <2> QED
    BY <2>2, <2>4
<1>9. /\ builder' \in Builders /\ builder'.pc = "ask" /\ builder'.review = r
      /\ builder'.stop = builder.stop /\ builder'.must = builder.must
  <2>1. "ask" \in BuilderLabels
    BY DEF BuilderLabels
  <2> QED
    BY <1>5, <1>7, <2>1, BuilderNow, BuilderRecord
<1>10. Pending' = {} /\ BuilderFits'
  BY <1>3, <1>5, <1>8, <1>9 DEF Pending, Giving, BuilderFits, InReview, StopFits
<1>11. SessionDone'
  BY <1>8, <1>9 DEF SessionDone
<1>12. deaths' = 0 /\ raced = {} => EnteredIn(r.reviewed)
  BY <1>1, <1>5 DEF BuilderInv, OnceFits, Knows, InReview
<1>13. PICK b \in Builders, q \in Sessions : b = builder' /\ q = session'
  BY <1>8, <1>9
<1>14. b.pc # "register" /\ b.pc # "ask_save" /\ b.review = r /\ q.review = r
  BY <1>8, <1>9, <1>13
<1> QED
  BY <1>1, <1>6, <1>10, <1>11, <1>12, <1>13, <1>14, ReadsKeepsInv

LEMMA FinishReviewKeeps ==
  ASSUME LegacyTypeOK, BuilderInv, Recorded, FinishReview
  PROVE  BuilderWrites /\ BuilderInv'
<1>1. builder.pc = "finish" /\ BuilderReads /\ deaths' = deaths
  BY BuilderNow, RegisterNumbers DEF FinishReview, BuilderAt, BuilderReads, counts
<1>2. /\ session' \in Sessions /\ ~session'.saved /\ session'.review = NoCheckpoint
      /\ session'.last = "review_completed" /\ session'.next = "review_evidence"
  <2>1. "review_completed" \in Lasts /\ "review_evidence" \in Nexts
    BY DEF Lasts, Nexts
  <2>2. PICK no \in BOOLEAN : no = FALSE
    OBVIOUS
  <2>3. session' = SessionOf(no, NoCheckpoint, "review_completed", "review_evidence")
    BY <2>2 DEF FinishReview, SessionOf
  <2> QED
    BY <2>1, <2>2, <2>3, RestingFacts, SessionRecord
<1>3. builder' = RecordOf("launch", builder.resumed, builder.must, builder.review,
                          builder.stop, builder.entry)
  <2>1. builder = RecordOf(builder.pc, builder.resumed, builder.must, builder.review,
                           builder.stop, builder.entry)
    BY BuilderNow
  <2>2. builder' = [builder EXCEPT !.pc = "launch"]
    BY DEF FinishReview
  <2> QED
    BY <2>1, <2>2 DEF RecordOf
<1>4. /\ builder' \in Builders /\ builder'.pc = "launch" /\ builder'.review = builder.review
  <2>1. "launch" \in BuilderLabels
    BY DEF BuilderLabels
  <2> QED
    BY <1>3, <2>1, BuilderNow, BuilderRecord
<1>5. Pending' = {} /\ BuilderFits'
  BY <1>4 DEF Pending, Giving, BuilderFits, InReview
<1>6. SessionDone'
  <2>1. AllReviewed
    BY <1>1 DEF BuilderInv, SessionDone
  <2> QED
    BY <1>1, <2>1, ReadsKeeps DEF SessionDone, BuilderReads
<1>7. Honest(NoCheckpoint, {}) /\ Honest(builder.review, {})
  BY <1>1, NothingHonest DEF BuilderInv, BuilderHonest, Pending, Giving
<1>8. PICK b \in Builders, q \in Sessions : b = builder' /\ q = session'
  BY <1>2, <1>4
<1>9. /\ ~ShouldReview(q) /\ b.pc \notin InReview /\ b.pc # "mark" /\ b.pc # "register"
      /\ b.pc # "ask_save"
  BY <1>2, <1>4, <1>8 DEF ShouldReview, InReview, Giving
<1> QED
  BY <1>1, <1>2, <1>4, <1>5, <1>6, <1>7, <1>8, <1>9, ReadsKeepsInv

LEMMA LaunchKeeps ==
  ASSUME LegacyTypeOK, BuilderInv, Recorded, Launch
  PROVE  BuilderWrites /\ BuilderInv'
<1>1. /\ builder.pc = "launch" /\ builder' = RestingBuilder /\ BuilderReads /\ deaths' = deaths
  BY BuilderNow, RegisterNumbers DEF Launch, BuilderAt, BuilderReads, counts
<1>2. /\ session' \in Sessions /\ session'.saved = session.saved
      /\ session'.review = session.review
      /\ session'.last \in {session.last, "other"} /\ session'.next = session.next
  <2>1. CASE builder.resumed
    BY <2>1, BuilderNow DEF Launch
  <2>2. CASE ~builder.resumed
    <3>1. session = SessionOf(session.saved, session.review, session.last, session.next)
      BY BuilderNow
    <3>2. session' = [session EXCEPT !.last = "other"]
      BY <2>2 DEF Launch
    <3>3. session' = SessionOf(session.saved, session.review, "other", session.next)
      BY <3>1, <3>2 DEF SessionOf
    <3>4. "other" \in Lasts
      BY DEF Lasts
    <3> QED
      BY <3>3, <3>4, BuilderNow, SessionRecord
  <2> QED
    BY <2>1, <2>2, BuilderNow
<1>3. Pending' = {} /\ builder' \in Builders /\ builder'.pc = "idle" /\ builder'.review = NoCheckpoint
  BY <1>1, RestingFacts DEF Pending, Giving
<1>4. BuilderFits'
  BY <1>3 DEF BuilderFits, InReview, Giving
<1>5. SessionDone'
  <2>1. AllReviewed \/ missed
    BY <1>1 DEF BuilderInv, SessionDone
  <2>2. AllReviewed => AllReviewed'
    BY <1>1, ReadsKeeps DEF BuilderReads
  <2> QED
    BY <1>3, <2>1, <2>2 DEF SessionDone, Recorded
<1>6. ASSUME deaths' = 0, raced = {}, ShouldReview(session') PROVE EnteredIn(session.review.reviewed)
  BY <1>1, <1>2, <1>6 DEF BuilderInv, OnceFits, Knows, Giving, ShouldReview
<1>7. Honest(session.review, {}) /\ Honest(NoCheckpoint, {})
  BY NothingHonest DEF BuilderInv, SessionHonest
<1>8. PICK b \in Builders, q \in Sessions : b = builder' /\ q = session'
  BY <1>2, <1>3
<1>9. b.pc \notin InReview /\ b.pc # "mark" /\ b.pc # "register" /\ b.pc # "ask_save"
  BY <1>3, <1>8 DEF InReview, Giving
<1>10. q.review = session.review /\ b.review = NoCheckpoint
  BY <1>2, <1>3, <1>8
<1>11. deaths' = 0 /\ raced = {} /\ ShouldReview(q) => EnteredIn(q.review.reviewed)
  BY <1>6, <1>8, <1>10
<1> QED
  BY <1>1, <1>3, <1>4, <1>5, <1>7, <1>8, <1>9, <1>10, <1>11, ReadsKeepsInv

LEMMA UserAnswerKeeps ==
  ASSUME LegacyTypeOK, BuilderInv, Recorded, Answer
  PROVE  BuilderWrites /\ BuilderInv'
<1>1. /\ builder.pc = "ask" /\ BuilderReads /\ deaths' = deaths /\ session' = session
  BY BuilderNow, RegisterNumbers DEF Answer, BuilderAt, BuilderReads, counts, stored
<1>2. /\ StopFits(builder.stop, builder.review) /\ builder.must /\ session.saved
      /\ builder.review.at = Position(builder.stop)
      /\ Honest(builder.review, {}) /\ Honest(session.review, {})
  BY <1>1 DEF BuilderInv, BuilderFits, BuilderHonest, SessionHonest, Pending, InReview, Giving
<1>3. ASSUME deaths = 0, raced = {}
      PROVE  EnteredIn(session.review.reviewed) /\ EnteredIn(builder.review.reviewed)
  BY <1>1, <1>2, <1>3 DEF BuilderInv, OnceFits, Knows, InReview, Giving, ShouldReview
<1>4. CASE builder.stop[2] = 0
  <2>1. PICK r : r = [builder.review EXCEPT !.asked = @ \cup {builder.stop[1]}]
    OBVIOUS
  <2>2. /\ r \in Checkpoints /\ r.at = builder.review.at
        /\ r.reviewed = builder.review.reviewed /\ r.ids = builder.review.ids
    <3>1. builder.stop[1] \in DOMAIN Groups
      BY <1>2 DEF StopFits
    <3> QED
      BY <2>1, <3>1, BuilderNow DEF Checkpoints
  <2>3. Honest(r, {})
    BY <1>2, <2>2 DEF Honest
  <2>4. PICK b : b = [builder EXCEPT !.review.asked = @ \cup {builder.stop[1]}]
    OBVIOUS
  <2>5. b = RecordOf(builder.pc, builder.resumed, builder.must, r, builder.stop, builder.entry)
    <3>1. builder = RecordOf(builder.pc, builder.resumed, builder.must, builder.review,
                             builder.stop, builder.entry)
      BY BuilderNow
    <3>2. b = [builder EXCEPT !.review = r]
      BY <2>1, <2>4
    <3> QED
      BY <3>1, <3>2 DEF RecordOf
  <2>6. b \in Builders /\ b.review = r /\ b.must = builder.must
    <3>1. "ask" \in BuilderLabels
      BY DEF BuilderLabels
    <3> QED
      BY <1>1, <2>2, <2>5, <3>1, BuilderNow, BuilderRecord
  <2>7. Proceed(b)
    BY <1>4, <2>4 DEF Answer
  <2> QED
    BY <1>1, <1>2, <1>3, <2>2, <2>3, <2>6, <2>7, BuilderNow, ProceedKeeps
<1>5. CASE builder.stop[2] # 0
  <2>1. PICK r : r = [builder.review EXCEPT !.reviewed = @ \cup {builder.stop}]
    OBVIOUS
  <2>2. builder.stop \in Candidates \ builder.review.reviewed /\ builder.review.at = builder.stop
    BY <1>2, <1>5 DEF StopFits, Position
  <2>3. /\ r \in Checkpoints /\ r.at = builder.stop
        /\ r.reviewed = builder.review.reviewed \cup {builder.stop}
        /\ r.ids = builder.review.ids
    BY <2>1, <2>2, BuilderNow DEF Checkpoints
  <2>4. Honest(r, {builder.stop})
    BY <1>2, <2>2, <2>3 DEF Honest
  <2>5. builder' = RecordOf("register", builder.resumed, builder.must, r, builder.stop, builder.entry)
    <3>1. builder = RecordOf(builder.pc, builder.resumed, builder.must, builder.review,
                             builder.stop, builder.entry)
      BY BuilderNow
    <3>2. builder' = [builder EXCEPT !.pc = "register", !.review = r]
      BY <1>5, <2>1 DEF Answer
    <3> QED
      BY <3>1, <3>2 DEF RecordOf
  <2>6. /\ builder' \in Builders /\ builder'.pc = "register" /\ builder'.review = r
        /\ builder'.must = builder.must /\ builder'.stop = builder.stop
    <3>1. "register" \in BuilderLabels
      BY DEF BuilderLabels
    <3> QED
      BY <2>3, <2>5, <3>1, BuilderNow, BuilderRecord
  <2>7. Pending' = {builder.stop}
    BY <2>6 DEF Pending, Giving
  <2>8. BuilderFits'
    BY <1>1, <1>2, <2>2, <2>3, <2>6 DEF BuilderFits, InReview, Giving
  <2>9. SessionDone'
    BY <1>1, <1>2, <2>6 DEF SessionDone
  <2>10. deaths = 0 /\ raced = {} => EnteredIn(r.reviewed) /\ ~Entered(builder.stop)
    BY <1>3, <2>2, <2>3 DEF EnteredIn
  <2>11. PICK b \in Builders, q \in Sessions : b = builder' /\ q = session'
    BY <1>1, <2>6, BuilderNow
  <2>12. /\ b.pc \in Giving /\ b.pc # "ask_save" /\ b.review = r /\ b.stop = builder.stop
         /\ q.review = session.review
    BY <1>1, <2>6, <2>11 DEF Giving
  <2> QED
    BY <1>1, <1>2, <2>4, <2>7, <2>8, <2>9, <2>10, <2>11, <2>12, ReadsKeepsInv
<1> QED
  BY <1>4, <1>5

LEMMA ReviewCandidateKeeps ==
  ASSUME LegacyTypeOK, BuilderInv, Recorded, ReviewCandidate
  PROVE  BuilderWrites /\ BuilderInv'
<1>1. /\ builder.pc = "review" /\ BuilderReads /\ deaths' = deaths /\ session' = session
  BY BuilderNow, RegisterNumbers DEF ReviewCandidate, BuilderAt, BuilderReads, counts, stored
<1>2. /\ BuilderFits /\ builder.must /\ session.saved
      /\ Honest(builder.review, {builder.stop}) /\ Honest(session.review, {})
  BY <1>1 DEF BuilderInv, BuilderFits, BuilderHonest, SessionHonest, Pending, InReview, Giving
<1>3. CASE ~Reviewable(builder.entry)
  <2>1. builder' = RestingBuilder
    BY <1>3 DEF ReviewCandidate
  <2>2. Pending' = {} /\ builder' \in Builders /\ builder'.pc = "idle" /\ builder'.review = NoCheckpoint
    BY <2>1, RestingFacts DEF Pending, Giving
  <2>3. BuilderFits' /\ SessionDone'
    BY <1>1, <1>2, <2>2 DEF BuilderFits, InReview, Giving, SessionDone
  <2>4. raced # {}
    BY <1>1, <1>2, <1>3 DEF BuilderFits, Reviewable
  <2>5. PICK b \in Builders, q \in Sessions : b = builder' /\ q = session'
    BY <1>1, <2>2, BuilderNow
  <2>6. b.review = NoCheckpoint /\ b.pc # "ask_save" /\ q.review = session.review
    BY <1>1, <2>2, <2>5
  <2> QED
    BY <1>1, <1>2, <2>2, <2>3, <2>4, <2>5, <2>6, NothingHonest, ReadsKeepsInv
<1>4. CASE Reviewable(builder.entry)
  <2>1. builder' = RecordOf("verdict", builder.resumed, builder.must, builder.review,
                            builder.stop, builder.entry)
    <3>1. builder = RecordOf(builder.pc, builder.resumed, builder.must, builder.review,
                             builder.stop, builder.entry)
      BY BuilderNow
    <3>2. builder' = [builder EXCEPT !.pc = "verdict"]
      BY <1>4 DEF ReviewCandidate
    <3> QED
      BY <3>1, <3>2 DEF RecordOf
  <2>2. /\ builder' \in Builders /\ builder'.pc = "verdict" /\ builder'.review = builder.review
        /\ builder'.must = builder.must /\ builder'.stop = builder.stop
        /\ builder'.entry = builder.entry
    <3>1. "verdict" \in BuilderLabels
      BY DEF BuilderLabels
    <3> QED
      BY <2>1, <3>1, BuilderNow, BuilderRecord
  <2>3. Pending' = {builder.stop}
    BY <2>2 DEF Pending, Giving
  <2>4. BuilderFits'
    BY <1>1, <1>2, <2>2 DEF BuilderFits, InReview, Giving, BuilderReads, Recorded
  <2>5. SessionDone'
    BY <1>1, <1>2, <2>2 DEF SessionDone
  <2>6. deaths = 0 /\ raced = {} => EnteredIn(builder.review.reviewed)
    BY <1>1 DEF BuilderInv, OnceFits, Knows, InReview, Giving
  <2>7. PICK b \in Builders, q \in Sessions : b = builder' /\ q = session'
    BY <1>1, <2>2, BuilderNow
  <2>8. /\ b.pc \in Giving /\ b.pc # "ask_save" /\ b.pc # "register"
        /\ b.review = builder.review /\ q.review = session.review
    BY <1>1, <2>2, <2>7 DEF Giving
  <2> QED
    BY <1>1, <1>2, <2>3, <2>4, <2>5, <2>6, <2>7, <2>8, ReadsKeepsInv
<1> QED
  BY <1>3, <1>4

LEMMA AdvanceReviewKeeps ==
  ASSUME LegacyTypeOK, BuilderInv, Recorded, AdvanceReview
  PROVE  BuilderWrites /\ BuilderInv'
<1>1. /\ builder.pc = "advance" /\ BuilderReads /\ deaths' = deaths
  BY BuilderNow, RegisterNumbers DEF AdvanceReview, BuilderAt, BuilderReads, counts
<1>2. PICK r : r = [builder.review EXCEPT !.at = After(builder.stop)]
  OBVIOUS
<1>3. /\ builder.stop \in Candidates /\ builder.stop \in builder.review.reviewed
      /\ builder.review.at = builder.stop /\ builder.must /\ Honest(builder.review, {})
  BY <1>1 DEF BuilderInv, BuilderFits, BuilderHonest, Pending, InReview, Giving
<1>4. /\ r \in Checkpoints /\ r.at = After(builder.stop) /\ r.reviewed = builder.review.reviewed
      /\ r.ids = builder.review.ids
  BY <1>2, <1>3, AfterPassed, BuilderNow DEF Checkpoints
<1>5. Honest(r, {})
  <2>1. \A c \in Candidates : Before(c, r.at) => Reviewed(c)
    BY <1>3, <1>4, AfterPassed DEF Honest
  <2> QED
    BY <1>3, <1>4, <2>1 DEF Honest
<1>6. session' = SessionOf(TRUE, r, "review_in_progress", "review_brownfield")
  <2>1. session = SessionOf(session.saved, session.review, session.last, session.next)
    BY BuilderNow
  <2>2. session' = [session EXCEPT !.saved = TRUE, !.review = r,
                      !.last = "review_in_progress", !.next = "review_brownfield"]
    BY <1>2 DEF AdvanceReview, SaveCheckpoint
  <2> QED
    BY <2>1, <2>2 DEF SessionOf
<1>7. session' \in Sessions /\ session'.review = r
  <2>1. "review_in_progress" \in Lasts /\ "review_brownfield" \in Nexts
    BY DEF Lasts, Nexts
  <2>2. PICK yes \in BOOLEAN : yes = TRUE
    OBVIOUS
  <2>3. session' = SessionOf(yes, r, "review_in_progress", "review_brownfield")
    BY <1>6, <2>2
  <2> QED
    BY <1>4, <2>1, <2>3, SessionRecord
<1>8. PICK b : b = [builder EXCEPT !.review = r]
  OBVIOUS
<1>9. b \in Builders /\ b.review = r /\ b.must = builder.must
  <2>1. b = RecordOf("advance", builder.resumed, builder.must, r, builder.stop, builder.entry)
    <3>1. builder = RecordOf(builder.pc, builder.resumed, builder.must, builder.review,
                             builder.stop, builder.entry)
      BY BuilderNow
    <3> QED
      BY <1>1, <1>8, <3>1 DEF RecordOf
  <2>2. "advance" \in BuilderLabels
    BY DEF BuilderLabels
  <2> QED
    BY <1>4, <2>1, <2>2, BuilderNow, BuilderRecord
<1>10. Proceed(b)
  BY <1>2, <1>8 DEF AdvanceReview
<1>11. deaths = 0 /\ raced = {} => EnteredIn(r.reviewed)
  BY <1>1, <1>4 DEF BuilderInv, OnceFits, Knows, InReview
<1> QED
  BY <1>1, <1>3, <1>5, <1>7, <1>9, <1>10, <1>11, ProceedKeeps

LEMMA RegisterCandidateKeeps ==
  ASSUME LegacyTypeOK, BuilderInv, Recorded, RegisterCandidate
  PROVE  BuilderWrites /\ BuilderInv'
<1> DEFINE c == builder.stop
<1>1. /\ builder.pc = "register" /\ session' = session /\ users' = users /\ prl' = prl
      /\ issued' = issued /\ commands' = commands /\ runs' = runs /\ deaths' = deaths
      /\ Len(entries) < MaxEntries /\ entries' = Append(entries, NewEntry(c))
  BY DEF RegisterCandidate, BuilderAt, SaveEntry, counts
<1>2. /\ c \in Candidates /\ c \in builder.review.reviewed /\ builder.review.at = c
      /\ session.saved /\ builder.must
      /\ Honest(builder.review, {c}) /\ Honest(session.review, {})
  BY <1>1 DEF BuilderInv, BuilderFits, BuilderHonest, SessionHonest, Pending, InReview, Giving
<1>3. entries \in Seq(LegacyEntries) /\ Len(entries) \in Nat
  BY EntryNumbers DEF LegacyTypeOK
<1>4. PICK n : n = Len(entries')
  OBVIOUS
<1>5. /\ Grew(entries, entries') /\ OnlyAt(entries, entries', {}) /\ n = Len(entries) + 1
      /\ entries'[n] = NewEntry(c)
  BY <1>1, <1>2, <1>3, <1>4, AddedGrew
<1>6. /\ n \in DOMAIN entries' /\ n \in 0..MaxEntries /\ entries'[n].about = c
      /\ entries'[n].disposition = "none" /\ DOMAIN entries' = 1..n
      /\ DOMAIN entries = 1..Len(entries)
      /\ \A e \in DOMAIN entries : entries'[e] = entries[e]
  <2>1. DOMAIN entries' = 1..n
    BY <1>4, <1>5, GrewFacts
  <2>2. n <= MaxEntries
    BY <1>4, <1>5 DEF Grew
  <2> QED
    BY <1>3, <1>5, <2>1, <2>2, EntryNumbers, RegisterNumbers DEF OnlyAt, NewEntry
<1>7. builder' = RecordOf("review", builder.resumed, builder.must, builder.review, c, n)
  <2>1. builder = RecordOf(builder.pc, builder.resumed, builder.must, builder.review,
                           builder.stop, builder.entry)
    BY BuilderNow
  <2>2. builder' = [builder EXCEPT !.pc = "review", !.entry = n]
    BY <1>4 DEF RegisterCandidate
  <2> QED
    BY <2>1, <2>2 DEF RecordOf
<1>8. /\ builder' \in Builders /\ builder'.pc = "review" /\ builder'.review = builder.review
      /\ builder'.must = builder.must /\ builder'.stop = c /\ builder'.entry = n
  <2>1. "review" \in BuilderLabels
    BY DEF BuilderLabels
  <2> QED
    BY <1>6, <1>7, <2>1, BuilderNow, BuilderRecord
<1>9. BuilderWrites
  BY <1>1, <1>5, <1>6, <1>8, BuilderNow DEF BuilderWrites, OnlyAt
<1>10. SessionHonest' /\ BuilderHonest'
  <2>1. PICK q, r, S : q = session.review /\ r = builder.review /\ S = {c}
    OBVIOUS
  <2>2. Honest(q, {})' /\ Honest(r, S)'
    BY <1>2, <1>5, <2>1, ReviewedStays
  <2>3. S = Pending'
    BY <1>8, <2>1 DEF Pending, Giving
  <2> QED
    BY <1>1, <1>8, <2>1, <2>2, <2>3 DEF SessionHonest, BuilderHonest, Honest
<1>11. BuilderFits'
  BY <1>1, <1>2, <1>6, <1>8 DEF BuilderFits, InReview, Giving
<1>12. SessionDone' /\ StopPast'
  BY <1>1, <1>2, <1>8 DEF SessionDone, StopPast
<1>13. OnceFits'
  <2> SUFFICES ASSUME deaths' = 0, raced' = {} PROVE OneEntryEach' /\ Knows'
    BY DEF OnceFits
  <2>1. OneEntryEach /\ ~Entered(c) /\ EnteredIn(builder.review.reviewed)
    BY <1>1 DEF BuilderInv, OnceFits, Knows, Recorded, InReview, Giving
  <2>2. ASSUME NEW d \in Candidates, NEW i \in DOMAIN entries', NEW j \in DOMAIN entries',
               entries'[i].about = d, entries'[j].about = d
        PROVE  i = j
    <3>1. /\ i = n \/ (i \in DOMAIN entries /\ entries[i].about = d)
          /\ j = n \/ (j \in DOMAIN entries /\ entries[j].about = d)
      BY <1>3, <1>5, <1>6, <2>2
    <3>2. i = n \/ j = n => d = c
      BY <1>6, <2>2
    <3> QED
      BY <2>1, <3>1, <3>2 DEF OneEntryEach, Entered
  <2>3. OneEntryEach'
    BY <2>2 DEF OneEntryEach
  <2>4. PICK s : s = builder.review.reviewed
    OBVIOUS
  <2>5. EnteredIn(s)'
    <3>1. ASSUME NEW d \in Candidates, NEW i \in DOMAIN entries', entries'[i].about = d
          PROVE  d \in s
      <4>1. d = c \/ Entered(d)
        BY <1>3, <1>5, <1>6, <3>1 DEF Entered
      <4> QED
        BY <1>2, <2>1, <2>4, <4>1 DEF EnteredIn
    <3> QED
      BY <3>1 DEF EnteredIn, Entered
  <2>6. Knows'
    BY <1>8, <2>4, <2>5 DEF Knows, Giving, InReview, EnteredIn, Entered
  <2> QED
    BY <2>3, <2>6
<1> QED
  BY <1>9, <1>10, <1>11, <1>12, <1>13 DEF BuilderInv

LEMMA VerdictOfCandidateKeeps ==
  ASSUME LegacyTypeOK, BuilderInv, Recorded, NEW d \in Dispositions, VerdictOfCandidate(d)
  PROVE  BuilderWrites /\ BuilderInv'
<1>1. /\ builder.pc = "verdict" /\ session' = session /\ users' = users /\ prl' = prl
      /\ issued' = issued /\ commands' = commands /\ runs' = runs /\ deaths' = deaths
      /\ entries' = Disposed(entries, builder.entry, d)
  BY DEF VerdictOfCandidate, BuilderAt, UpdateDisposition, Disposed, counts
<1>2. /\ builder.stop \in Candidates /\ builder.stop \in builder.review.reviewed
      /\ builder.review.at = builder.stop /\ session.saved /\ builder.must
      /\ builder.entry \in DOMAIN entries /\ entries[builder.entry].about = builder.stop
      /\ Honest(builder.review, {builder.stop}) /\ Honest(session.review, {})
  BY <1>1 DEF BuilderInv, BuilderFits, BuilderHonest, SessionHonest, Pending, InReview, Giving
<1>3. entries \in Seq(LegacyEntries) /\ Len(entries) <= MaxEntries
  BY DEF LegacyTypeOK
<1>4. PICK e \in DOMAIN entries : e = builder.entry
  BY <1>2
<1>5. /\ Grew(entries, entries') /\ OnlyAt(entries, entries', {e}) /\ Len(entries') = Len(entries)
      /\ entries'[e].disposition = d
      /\ \A i \in 1..Len(entries) : entries'[i].promoted = entries[i].promoted
  <2>1. entries' = Disposed(entries, e, d)
    BY <1>1, <1>4
  <2>2. Grew(entries, entries') /\ OnlyAt(entries, entries', {e}) /\ Len(entries') = Len(entries)
    BY <1>3, <2>1, DisposedGrew
  <2>3. /\ entries'[e].disposition = d
        /\ \A i \in 1..Len(entries) : entries'[i].promoted = entries[i].promoted
    <3>1. e \in 1..Len(entries) /\ \A i \in 1..Len(entries) : entries[i] \in LegacyEntries
      BY <1>4, EntryNumbers
    <3>2. entries' = [entries EXCEPT ![e].disposition = d]
      BY <2>1 DEF Disposed
    <3> QED
      BY <1>3, <3>1, <3>2 DEF LegacyEntries
  <2> QED
    BY <2>2, <2>3
<1>6. /\ DOMAIN entries' = DOMAIN entries /\ DOMAIN entries = 1..Len(entries)
      /\ \A i \in DOMAIN entries : entries'[i].about = entries[i].about
      /\ d # "none" /\ e \in 1..MaxEntries
  <2>1. Len(entries) \in Nat
    BY EntryNumbers
  <2> QED
    BY <1>3, <1>5, <2>1, GrewFacts, RegisterNumbers
<1>7. PICK r : r = [builder.review EXCEPT !.ids = @ \cup {e}]
  OBVIOUS
<1>8. /\ r \in Checkpoints /\ r.at = builder.review.at /\ r.reviewed = builder.review.reviewed
      /\ r.ids = builder.review.ids \cup {e}
  BY <1>6, <1>7, BuilderNow DEF Checkpoints
<1>9. builder' = RecordOf("advance", builder.resumed, builder.must, r, builder.stop, 0)
  <2>1. builder = RecordOf(builder.pc, builder.resumed, builder.must, builder.review,
                           builder.stop, builder.entry)
    BY BuilderNow
  <2>2. builder' = [builder EXCEPT !.pc = "advance", !.entry = 0, !.review = r]
    BY <1>4, <1>7 DEF VerdictOfCandidate
  <2> QED
    BY <2>1, <2>2 DEF RecordOf
<1>10. /\ builder' \in Builders /\ builder'.pc = "advance" /\ builder'.review = r
       /\ builder'.must = builder.must /\ builder'.stop = builder.stop
  <2>1. "advance" \in BuilderLabels /\ 0 \in 0..MaxEntries
    BY RegisterNumbers DEF BuilderLabels
  <2> QED
    BY <1>8, <1>9, <2>1, BuilderNow, BuilderRecord
<1>11. BuilderWrites
  BY <1>1, <1>4, <1>5, <1>6, <1>10, BuilderNow DEF BuilderWrites
<1>12. SessionHonest'
  <2>1. PICK q : q = session.review
    OBVIOUS
  <2>2. Honest(q, {})'
    BY <1>2, <1>5, <2>1, ReviewedStays
  <2> QED
    BY <1>1, <2>1, <2>2 DEF SessionHonest, Honest
<1>13. BuilderHonest'
  <2>1. PICK q, S : q = builder.review /\ S = {builder.stop}
    OBVIOUS
  <2>2. Honest(q, S)'
    BY <1>2, <1>5, <2>1, ReviewedStays
  <2>3. PICK c : c = builder.stop
    OBVIOUS
  <2>4. Reviewed(c)'
    BY <1>2, <1>4, <1>5, <1>6, <2>3 DEF Reviewed
  <2>5. Honest(r, {})'
    BY <1>4, <1>5, <1>6, <1>8, <2>1, <2>2, <2>3, <2>4 DEF Honest
  <2>6. Pending' = {}
    BY <1>10 DEF Pending, Giving
  <2> QED
    BY <1>10, <2>5, <2>6 DEF BuilderHonest, Honest
<1>14. BuilderFits'
  BY <1>1, <1>2, <1>8, <1>10 DEF BuilderFits, InReview, Giving
<1>15. SessionDone' /\ StopPast'
  BY <1>1, <1>2, <1>10 DEF SessionDone, StopPast
<1>16. OnceFits'
  <2> SUFFICES ASSUME deaths' = 0, raced' = {} PROVE OneEntryEach' /\ Knows'
    BY DEF OnceFits
  <2>1. OneEntryEach /\ EnteredIn(builder.review.reviewed)
    BY <1>1 DEF BuilderInv, OnceFits, Knows, Recorded, InReview, Giving
  <2>2. OneEntryEach'
    BY <1>6, <2>1 DEF OneEntryEach
  <2>3. PICK s : s = builder.review.reviewed
    OBVIOUS
  <2>4. EnteredIn(s)'
    BY <1>6, <2>1, <2>3 DEF EnteredIn, Entered
  <2>5. Knows'
    BY <1>8, <1>10, <2>3, <2>4 DEF Knows, Giving, InReview, EnteredIn, Entered
  <2> QED
    BY <2>2, <2>5
<1> QED
  BY <1>11, <1>12, <1>13, <1>14, <1>15, <1>16 DEF BuilderInv

LEMMA BuilderKeepsInv ==
  ASSUME LegacyInv, BuilderStep \/ BuilderDies, Recorded
  PROVE  BuilderWrites /\ LegacyInv'
<1> USE DEF LegacyInv
<1>1. BuilderWrites /\ BuilderInv'
  <2>1. CASE BeginBuild
    BY <2>1, BeginBuildKeeps
  <2>2. CASE RuntimeBlocked
    BY <2>2, RuntimeBlockedKeeps
  <2>3. CASE MarkRunning
    BY <2>3, MarkRunningKeeps
  <2>4. CASE SaveBeforeAsking
    BY <2>4, SaveBeforeAskingKeeps
  <2>5. CASE Answer
    BY <2>5, UserAnswerKeeps
  <2>6. CASE Pause
    BY <2>6, PauseKeeps
  <2>7. CASE RegisterCandidate
    BY <2>7, RegisterCandidateKeeps
  <2>8. CASE ReviewCandidate
    BY <2>8, ReviewCandidateKeeps
  <2>9. CASE AdvanceReview
    BY <2>9, AdvanceReviewKeeps
  <2>10. CASE FinishReview
    BY <2>10, FinishReviewKeeps
  <2>11. CASE Launch
    BY <2>11, LaunchKeeps
  <2>12. CASE \E d \in Dispositions : VerdictOfCandidate(d)
    BY <2>12, VerdictOfCandidateKeeps
  <2>13. CASE BuilderDies
    BY <2>13, BuilderDiesKeeps
  <2> QED
    BY <2>1, <2>2, <2>3, <2>4, <2>5, <2>6, <2>7, <2>8, <2>9, <2>10, <2>11, <2>12, <2>13
      DEF BuilderStep
<1> QED
  BY <1>1, BuilderKeepsUsers

LEMMA LegacyStarts == LegacyInit => LegacyInv
<1> SUFFICES ASSUME LegacyInit PROVE LegacyInv
  OBVIOUS
<1> USE DEF LegacyInit
<1>1. DOMAIN entries = {} /\ Len(entries) = 0 /\ entries \in Seq(LegacyEntries)
  <2>1. Len(entries) = 0 /\ entries \in Seq(LegacyEntries)
    BY EmptySeq
  <2> QED
    BY <2>1, LenProperties
<1>2. session \in Sessions /\ session.review = NoCheckpoint
  BY RestingFacts DEF Sessions
<1>3. LegacyTypeOK
  <2>1. NoCommand \in UserRecords(0, 0)
    BY DEF NoCommand, UserRecords
  <2>2. users \in [Users -> UserRecords(0, 0)]
    BY <2>1
  <2> QED
    <3>1. /\ users \in [Users -> [pc : {"idle", "verdict", "mark", "save_item", "retire"},
                               entry : 0..Len(entries), item : 0..issued]]
          /\ builder \in Builders
      BY <1>1, <2>2, RestingFacts DEF UserRecords
    <3>2. Len(entries) <= MaxEntries /\ issued \in 0..commands /\ commands \in 0..MaxCommands
          /\ runs \in 0..MaxRuns /\ deaths \in 0..MaxDeaths
      BY <1>1, RegisterNumbers
    <3> QED
      BY <1>1, <1>2, <3>1, <3>2 DEF LegacyTypeOK
<1>4. UsersInv
  BY <1>1 DEF UsersInv, UserFits, Met, ItemsFit, NoCommand
<1>5. SessionHonest /\ BuilderHonest
  BY <1>2, NothingHonest, RestingFacts DEF SessionHonest, BuilderHonest
<1>6. builder.pc = "idle" /\ session.last = "brief_captured"
  BY RestingFacts
<1>7. BuilderFits /\ StopPast /\ SessionDone
  BY <1>6 DEF BuilderFits, StopPast, SessionDone, InReview, Giving
<1>8. OnceFits
  <2>1. \A c : ~Entered(c)
    BY <1>1 DEF Entered
  <2> QED
    BY <1>1, <1>6, <2>1 DEF OnceFits, OneEntryEach, Knows, EnteredIn
<1> QED
  BY <1>3, <1>4, <1>5, <1>7, <1>8 DEF LegacyInv, BuilderInv

LEMMA LegacyKeeps ==
  ASSUME LegacyInv, [LegacyNext]_legacyVars
  PROVE  LegacyInv'
<1>1. ASSUME NEW u \in Users, UserActs(u), Recorded PROVE LegacyInv'
  BY <1>1, UserKeepsUsers, UserKeepsBuilder DEF LegacyInv
<1>2. CASE LegacyNext
  <2>1. Recorded
    BY <1>2 DEF LegacyNext, Recorded
  <2>2. CASE BuilderStep \/ BuilderDies
    BY <2>1, <2>2, BuilderKeepsInv
  <2>3. CASE \E u \in Users : UserStep(u) \/ UserDies(u)
    BY <1>1, <2>1, <2>3 DEF UserActs
  <2> QED
    BY <1>2, <2>2, <2>3 DEF LegacyNext
<1>3. CASE UNCHANGED legacyVars
  <2>1. LegacyTypeOK' /\ UsersInv'
    BY <1>3 DEF legacyVars, stored, counts, LegacyInv, LegacyTypeOK, UsersInv, UserFits, Met, ItemsFit
  <2>2. BuilderInv'
    BY <1>3 DEF legacyVars, stored, counts, LegacyInv, BuilderInv, SessionHonest, BuilderHonest,
      Pending, Honest, Reviewed, BuilderFits, ShouldReview, StopPast, Passed, SessionDone,
      AllReviewed, OnceFits, OneEntryEach, Knows, EnteredIn, Entered
  <2> QED
    BY <2>1, <2>2 DEF LegacyInv
<1> QED
  BY <1>2, <1>3

LEMMA LegacyGives == LegacyInv => LegacySound
<1> SUFFICES ASSUME LegacyInv PROVE LegacySound
  OBVIOUS
<1>1. RegisterSound
  <2>1. ItemsFit
    BY DEF LegacyInv, UsersInv
  <2> QED
    BY <2>1 DEF RegisterSound, TruthIsReviewed, PromotionWhole, ItemsFit
<1>2. CheckpointHonest
  BY DEF LegacyInv, BuilderInv, SessionHonest, Honest, CheckpointHonest
<1>3. LaunchReviewed
  BY DEF LegacyInv, BuilderInv, SessionDone, AllReviewed, LaunchReviewed
<1>4. AskedOnce
  <2> SUFFICES ASSUME deaths = 0, raced = {}, NEW c \in Candidates
               PROVE  Cardinality({e \in DOMAIN entries :
                        entries[e].about = c /\ entries[e].disposition # "none"}) <= 1
    BY DEF AskedOnce
  <2> DEFINE W == {e \in DOMAIN entries : entries[e].about = c /\ entries[e].disposition # "none"}
  <2>1. \A i, j \in W : i = j
    BY DEF LegacyInv, BuilderInv, OnceFits, OneEntryEach
  <2>2. W = {} \/ \E i \in W : W = {i}
    BY <2>1
  <2> HIDE DEF W
  <2>3. Cardinality(W) <= 1
    BY <2>2, FS_EmptySet, FS_Singleton
  <2> QED
    BY <2>3 DEF W
<1> QED
  BY <1>1, <1>2, <1>3, <1>4 DEF LegacyInv, LegacySound, ReviewHonest

(* Nothing becomes product truth unreviewed, a promotion is one            *)
(* back-reference and one item, a checkpoint claims only what the register *)
(* holds, an agent is launched after every candidate was reviewed, and no  *)
(* candidate is asked twice (LegacySound), for any number of users, groups *)
(* and entries, whoever dies.                                              *)
THEOREM LegacyIsSound == LegacySpec => []LegacySound
<1>1. LegacyInv /\ [LegacyNext]_legacyVars => LegacyInv'
  BY LegacyKeeps
<1> QED
  BY <1>1, LegacyStarts, LegacyGives, PTL DEF LegacySpec

SettlesAt(e) ==
  LET old == entries[e] new == entries'[e]
  IN  /\ old.promoted > 0 => new.promoted > 0
      /\ e \notin raced' =>
           /\ old.promoted > 0 => new = old
           /\ old.disposition # "none" => new.disposition \in {old.disposition, "retire"}

LEMMA StepSettles ==
  ASSUME LegacyInv, LegacyNext
  PROVE  \A e \in DOMAIN entries : SettlesAt(e)
<1> SUFFICES ASSUME NEW e \in DOMAIN entries PROVE SettlesAt(e)
  OBVIOUS
<1>1. Recorded /\ raced \subseteq raced'
  BY DEF LegacyNext, Recorded
<1>2. /\ Len(entries) \in Nat /\ DOMAIN entries = 1..Len(entries)
      /\ entries[e].promoted \in Nat /\ entries[e] \in LegacyEntries
      /\ entries[e].promoted > 0 => entries[e].disposition # "none"
  BY EntryNumbers, RegisterNumbers DEF LegacyInv, UsersInv, ItemsFit
<1>3. CASE entries'[e] = entries[e]
  BY <1>3 DEF SettlesAt
<1>4. ASSUME BuilderStep \/ BuilderDies, entries'[e] # entries[e]
      PROVE  SettlesAt(e)
  <2>1. Grew(entries, entries') /\ e = builder.entry
    BY <1>1, <1>2, <1>4, BuilderKeepsInv DEF BuilderWrites, OnlyAt
  <2>2. entries[e].disposition = "none" \/ e \in raced
    <3>1. CASE builder.pc = "verdict"
      BY <2>1, <3>1 DEF LegacyInv, BuilderInv, BuilderFits
    <3>2. CASE builder.pc = "register"
      <4>1. entries \in Seq(LegacyEntries) /\ builder.stop \in Candidates /\ Len(entries) < MaxEntries
            /\ entries' = Append(entries, NewEntry(builder.stop))
        BY <1>4, <3>2 DEF LegacyInv, LegacyTypeOK, BuilderInv, BuilderFits, Giving, BuilderStep,
          BuilderDies, Dies, stored, RegisterCandidate, SaveEntry, BeginBuild, RuntimeBlocked, MarkRunning,
          SaveBeforeAsking, Answer, Pause, ReviewCandidate, AdvanceReview, FinishReview, Launch,
          VerdictOfCandidate, BuilderAt
      <4>2. OnlyAt(entries, entries', {})
        BY <4>1, AddedGrew
      <4> QED
        BY <1>2, <1>4, <4>2 DEF OnlyAt
    <3>3. CASE builder.pc \notin {"verdict", "register"}
      BY <1>4, <3>3 DEF BuilderStep, BuilderDies, Dies, stored, RegisterCandidate, BeginBuild,
        RuntimeBlocked, MarkRunning, SaveBeforeAsking, Answer, Pause, ReviewCandidate, AdvanceReview,
        FinishReview, Launch, VerdictOfCandidate, BuilderAt
    <3> QED
      BY <3>1, <3>2, <3>3
  <2>3. entries[e].promoted > 0 => entries'[e].promoted > 0
    BY <1>2, <2>1 DEF Grew
  <2> QED
    BY <1>1, <1>2, <2>2, <2>3 DEF SettlesAt
<1>5. ASSUME NEW u \in Users, UserActs(u), entries'[e] # entries[e]
      PROVE  SettlesAt(e)
  <2>1. /\ Grew(entries, entries') /\ e = users[u].entry /\ UserFits(u)
        /\ entries[e].promoted > 0 => entries'[e].promoted > 0
    BY <1>1, <1>2, <1>5, UserKeepsUsers DEF LegacyInv, UsersInv, UserEffect, OnlyAt, Grew
  <2>2. entries' # entries
    BY <1>5
  <2>3. ASSUME NEW d \in Dispositions, Verdict(u, d) PROVE SettlesAt(e)
    <3>1. entries[e].disposition = "none" \/ e \in raced
      BY <2>1, <2>3 DEF Verdict, UserFits
    <3> QED
      BY <1>1, <1>2, <2>1, <3>1 DEF SettlesAt
  <2>4. CASE Retire(u)
    <3>1. entries[e].promoted = 0 \/ e \in raced
      BY <2>1, <2>4 DEF Retire, UserFits
    <3>2. entries'[e].disposition = "retire"
      <4>1. entries' = [entries EXCEPT ![e].disposition = "retire"]
        BY <2>1, <2>4 DEF Retire, UpdateDisposition
      <4> QED
        BY <1>2, <4>1 DEF LegacyEntries
    <3> QED
      BY <1>1, <1>2, <2>1, <3>1, <3>2 DEF SettlesAt
  <2>5. CASE Mark(u)
    <3>1. /\ entries[e].promoted = 0 \/ e \in raced
          /\ entries' = [entries EXCEPT ![e].promoted = users[u].item]
      BY <2>1, <2>5 DEF Mark, MarkPromoted, UserFits
    <3>2. entries'[e].disposition = entries[e].disposition
      BY <1>2, <3>1 DEF LegacyEntries
    <3> QED
      BY <1>1, <1>2, <2>1, <3>1, <3>2 DEF SettlesAt
  <2>6. CASE Register(u)
    <3>1. /\ entries \in Seq(LegacyEntries) /\ Len(entries) < MaxEntries
          /\ entries' = Append(entries, NewEntry(Other))
      BY <2>6 DEF Register, SaveEntry, LegacyInv, LegacyTypeOK
    <3>2. OnlyAt(entries, entries', {})
      BY <3>1, AddedGrew
    <3> QED
      BY <1>2, <1>5, <3>2 DEF OnlyAt
  <2> QED
    BY <1>5, <2>2, <2>3, <2>4, <2>5, <2>6 DEF UserActs, UserStep, UserDies, Dies, stored, Review,
      Promote, Discard, ReadsEntry, SaveItem
<1> QED
  BY <1>3, <1>4, <1>5 DEF LegacyNext, UserActs

(* A promotion is never undone, and an entry on which no two commands      *)
(* overlapped is settled once it is promoted (Settled).                    *)
THEOREM LegacySettles == LegacySpec => Settled
<1>1. LegacyInv /\ [LegacyNext]_legacyVars => LegacyInv'
  BY LegacyKeeps
<1>2. LegacyInv /\ [LegacyNext]_legacyVars => [\A e \in DOMAIN entries : SettlesAt(e)]_legacyVars
  BY StepSettles
<1>3. LegacySpec => [][\A e \in DOMAIN entries : SettlesAt(e)]_legacyVars
  BY <1>1, <1>2, LegacyStarts, PTL DEF LegacySpec
<1> QED
  BY <1>3 DEF Settled, SettlesAt

-----------------------------------------------------------------------------
(* The build order.  The rounds of Kahn's algorithm output each row once,  *)
(* behind those it needs; what is left needs one another.                  *)

KahnStates == [queue : Seq(planned), degree : [planned -> Int], out : Seq(planned)]

AwaitedBy(k, m) == {n \in planned \ ToSet(k.out) : n.id \in m.needs}

KahnFits(k) ==
  /\ k \in KahnStates
  /\ IsInjective(k.out) /\ IsInjective(k.queue) /\ ToSet(k.out) \cap ToSet(k.queue) = {}
  /\ \A m \in planned : k.degree[m] = Cardinality(AwaitedBy(k, m))
  /\ \A m \in planned : k.degree[m] = 0 <=> m \in ToSet(k.out) \cup ToSet(k.queue)
  /\ \A i \in DOMAIN k.out, n \in planned :
       n.id \in k.out[i].needs => \E j \in DOMAIN k.out : j < i /\ k.out[j] = n

LEMMA SeqSet ==
  ASSUME NEW S, NEW s \in Seq(S)
  PROVE  /\ ToSet(s) \subseteq S /\ DOMAIN s = 1..Len(s) /\ Len(s) \in Nat
         /\ s = <<>> <=> ToSet(s) = {}
<1>1. DOMAIN s = 1..Len(s) /\ Len(s) \in Nat /\ \A i \in 1..Len(s) : s[i] \in S
  OBVIOUS
<1>2. s = <<>> <=> Len(s) = 0
  BY EmptySeq
<1>3. s # <<>> => s[1] \in ToSet(s)
  BY <1>1, <1>2 DEF ToSet
<1>4. ToSet(s) \subseteq S
  BY <1>1 DEF ToSet
<1>5. s = <<>> => ToSet(s) = {}
  BY <1>1, <1>2 DEF ToSet
<1> QED
  BY <1>1, <1>3, <1>4, <1>5

LEMMA Appended ==
  ASSUME NEW S, NEW s \in Seq(S), NEW x \in S
  PROVE  /\ Append(s, x) \in Seq(S) /\ Len(Append(s, x)) = Len(s) + 1
         /\ DOMAIN Append(s, x) = 1..(Len(s) + 1)
         /\ \A i \in 1..Len(s) : Append(s, x)[i] = s[i]
         /\ Append(s, x)[Len(s) + 1] = x
         /\ ToSet(Append(s, x)) = ToSet(s) \cup {x}
         /\ IsInjective(s) /\ x \notin ToSet(s) => IsInjective(Append(s, x))
<1>1. PICK r : r = Append(s, x)
  OBVIOUS
<1>2. /\ r \in Seq(S) /\ DOMAIN r = 1..(Len(s) + 1) /\ Len(r) = Len(s) + 1 /\ Len(s) \in Nat
      /\ DOMAIN s = 1..Len(s)
      /\ \A i \in 1..Len(s) : r[i] = s[i]
      /\ r[Len(s) + 1] = x
  BY <1>1
<1>3. ToSet(r) = ToSet(s) \cup {x}
  BY <1>2 DEF ToSet
<1>4. ASSUME IsInjective(s), x \notin ToSet(s) PROVE IsInjective(r)
  BY <1>2, <1>4 DEF IsInjective, ToSet
<1> QED
  BY <1>1, <1>2, <1>3, <1>4

(* A queue without its head, and with others behind it.                    *)
LEMMA QueueMoves ==
  ASSUME NEW S, NEW q \in Seq(S), q # <<>>, IsInjective(q), NEW more \in Seq(S),
         IsInjective(more), ToSet(more) \cap ToSet(q) = {}
  PROVE  /\ Tail(q) \o more \in Seq(S) /\ IsInjective(Tail(q) \o more)
         /\ ToSet(Tail(q) \o more) = (ToSet(q) \ {Head(q)}) \cup ToSet(more)
         /\ Head(q) \in ToSet(q)
<1>1. PICK r : r = Tail(q) \o more
  OBVIOUS
<1>2. /\ r \in Seq(S) /\ Len(q) >= 1 /\ Len(r) = Len(q) - 1 + Len(more)
      /\ \A i \in 1..Len(r) :
           IF i <= Len(q) - 1 THEN r[i] = q[i + 1]
           ELSE /\ i - (Len(q) - 1) \in 1..Len(more)
                /\ r[i] = more[i - (Len(q) - 1)]
  BY <1>1, Requeued
<1>3. /\ DOMAIN q = 1..Len(q) /\ DOMAIN more = 1..Len(more) /\ DOMAIN r = 1..Len(r)
      /\ Len(q) \in Nat /\ Len(more) \in Nat /\ Head(q) = q[1]
  BY <1>2
<1>4. Head(q) \in ToSet(q)
  <2>1. 1 \in DOMAIN q /\ Head(q) = q[1]
    BY <1>2, <1>3
  <2> QED
    BY <2>1 DEF ToSet
<1>5. ASSUME NEW i \in 1..Len(r)
      PROVE  \/ i <= Len(q) - 1 /\ i + 1 \in 2..Len(q) /\ r[i] = q[i + 1] /\ r[i] \in ToSet(q)
             \/ /\ i > Len(q) - 1 /\ i - (Len(q) - 1) \in 1..Len(more)
                /\ r[i] = more[i - (Len(q) - 1)] /\ r[i] \in ToSet(more)
  <2>1. \A x \in DOMAIN q : q[x] \in ToSet(q)
    BY DEF ToSet
  <2>2. \A x \in DOMAIN more : more[x] \in ToSet(more)
    BY DEF ToSet
  <2>3. CASE i <= Len(q) - 1
    <3>1. i + 1 \in 2..Len(q) /\ i + 1 \in DOMAIN q /\ r[i] = q[i + 1]
      BY <1>2, <1>3, <2>3
    <3> QED
      BY <2>1, <2>3, <3>1
  <2>4. CASE ~(i <= Len(q) - 1)
    <3>1. PICK x : x = i - (Len(q) - 1)
      OBVIOUS
    <3>2. x \in 1..Len(more) /\ r[i] = more[x] /\ i > Len(q) - 1
      BY <1>2, <1>3, <2>4, <3>1
    <3>3. r[i] \in ToSet(more)
      BY <1>3, <2>2, <3>2
    <3> QED
      BY <3>1, <3>2, <3>3
  <2> QED
    BY <2>3, <2>4
<1>6. IsInjective(r)
  <2> SUFFICES ASSUME NEW i \in 1..Len(r), NEW j \in 1..Len(r), r[i] = r[j] PROVE i = j
    BY <1>3 DEF IsInjective
  <2>1. CASE i <= Len(q) - 1 /\ j <= Len(q) - 1
    <3>1. q[i + 1] = q[j + 1] /\ i + 1 \in DOMAIN q /\ j + 1 \in DOMAIN q
      BY <1>3, <1>5, <2>1
    <3> QED
      BY <1>3, <3>1 DEF IsInjective
  <2>2. CASE i > Len(q) - 1 /\ j > Len(q) - 1
    <3>1. PICK a \in DOMAIN more, b \in DOMAIN more :
            a = i - (Len(q) - 1) /\ b = j - (Len(q) - 1) /\ more[a] = more[b]
      BY <1>3, <1>5, <2>2
    <3>2. a = b
      BY <3>1 DEF IsInjective
    <3> QED
      BY <1>3, <3>1, <3>2
  <2>3. CASE (i <= Len(q) - 1 /\ j > Len(q) - 1) \/ (j <= Len(q) - 1 /\ i > Len(q) - 1)
    <3>1. \/ r[i] \in ToSet(q) /\ r[j] \in ToSet(more)
          \/ r[j] \in ToSet(q) /\ r[i] \in ToSet(more)
      BY <1>3, <1>5, <2>3
    <3> QED
      BY <3>1
  <2> QED
    BY <1>3, <2>1, <2>2, <2>3
<1>7. ToSet(r) \subseteq (ToSet(q) \ {Head(q)}) \cup ToSet(more)
  <2> SUFFICES ASSUME NEW i \in 1..Len(r) PROVE r[i] \in (ToSet(q) \ {Head(q)}) \cup ToSet(more)
    BY <1>3 DEF ToSet
  <2>1. CASE i <= Len(q) - 1
    <3>1. r[i] = q[i + 1] /\ r[i] \in ToSet(q) /\ i + 1 \in DOMAIN q /\ 1 \in DOMAIN q /\ i + 1 # 1
      BY <1>3, <1>5, <2>1
    <3> QED
      BY <1>3, <3>1 DEF IsInjective
  <2>2. CASE i > Len(q) - 1
    BY <1>5, <2>2, <1>3
  <2> QED
    BY <1>3, <2>1, <2>2
<1>8. ASSUME NEW i \in 2..Len(q) PROVE q[i] \in ToSet(r)
  <2>1. i - 1 \in 1..Len(r) /\ i - 1 <= Len(q) - 1 /\ (i - 1) + 1 = i
    BY <1>2, <1>3
  <2>2. r[i - 1] = q[i]
    BY <1>2, <2>1
  <2> QED
    BY <1>3, <2>1, <2>2 DEF ToSet
<1>9. ASSUME NEW i \in 1..Len(more) PROVE more[i] \in ToSet(r)
  <2>1. PICK j : j = i + (Len(q) - 1)
    OBVIOUS
  <2>2. j \in 1..Len(r) /\ ~(j <= Len(q) - 1) /\ j - (Len(q) - 1) = i
    BY <1>2, <1>3, <2>1
  <2>3. r[j] = more[i]
    BY <1>2, <2>2
  <2> QED
    BY <1>3, <2>2, <2>3 DEF ToSet
<1>10. (ToSet(q) \ {Head(q)}) \cup ToSet(more) \subseteq ToSet(r)
  <2>1. \A i \in DOMAIN q : q[i] = Head(q) \/ q[i] \in ToSet(r)
    <3> SUFFICES ASSUME NEW i \in 1..Len(q), i # 1 PROVE q[i] \in ToSet(r)
      BY <1>3
    <3> QED
      BY <1>3, <1>8
  <2>2. \A i \in DOMAIN more : more[i] \in ToSet(r)
    BY <1>3, <1>9
  <2>3. ToSet(q) \ {Head(q)} \subseteq ToSet(r)
    BY <2>1 DEF ToSet
  <2>4. ToSet(more) \subseteq ToSet(r)
    BY <2>2 DEF ToSet
  <2> QED
    BY <2>3, <2>4
<1> QED
  BY <1>1, <1>2, <1>4, <1>6, <1>7, <1>10

LEMMA WaitingLess ==
  ASSUME IsFiniteSet(planned), NEW k \in KahnStates, NEW j \in KahnStates, NEW mid \in planned,
         mid \notin ToSet(k.out), ToSet(j.out) = ToSet(k.out) \cup {mid}, NEW m \in planned
  PROVE  /\ Cardinality(AwaitedBy(j, m)) =
              Cardinality(AwaitedBy(k, m)) - IF mid.id \in m.needs THEN 1 ELSE 0
         /\ Cardinality(AwaitedBy(k, m)) \in Nat
         /\ Cardinality(AwaitedBy(k, m)) = 0 <=> AwaitedBy(k, m) = {}
<1>1. IsFiniteSet(AwaitedBy(k, m))
  <2>1. AwaitedBy(k, m) \in SUBSET planned
    BY DEF AwaitedBy
  <2> QED
    BY <2>1, FS_Subset
<1>2. Cardinality(AwaitedBy(k, m)) \in Nat
  BY <1>1, FS_CardinalityType
<1>3. Cardinality(AwaitedBy(k, m)) = 0 <=> AwaitedBy(k, m) = {}
  BY <1>1, FS_EmptySet
<1>4. AwaitedBy(j, m) = AwaitedBy(k, m) \ {mid}
  BY DEF AwaitedBy
<1>5. mid \in AwaitedBy(k, m) <=> mid.id \in m.needs
  BY DEF AwaitedBy
<1>6. Cardinality(AwaitedBy(k, m) \ {mid}) =
        IF mid \in AwaitedBy(k, m) THEN Cardinality(AwaitedBy(k, m)) - 1 ELSE Cardinality(AwaitedBy(k, m))
  BY <1>1, FS_RemoveElement
<1>7. CASE mid.id \in m.needs
  BY <1>2, <1>3, <1>4, <1>5, <1>6, <1>7
<1>8. CASE mid.id \notin m.needs
  BY <1>2, <1>3, <1>4, <1>5, <1>6, <1>8
<1> QED
  BY <1>7, <1>8

LEMMA SubsetToSeq ==
  ASSUME NEW S, IsFiniteSet(S), NEW T \in SUBSET S
  PROVE  /\ SetToSeq(T) \in Seq(S) /\ IsInjective(SetToSeq(T)) /\ ToSet(SetToSeq(T)) = T
<1>1. IsFiniteSet(T)
  BY FS_Subset
<1>2. PICK s : s = SetToSeq(T)
  OBVIOUS
<1>3. /\ s \in Seq(T) /\ IsInjective(s) /\ \A x \in T : \E i \in 1..Len(s) : s[i] = x
  BY <1>1, <1>2, SetToSeqFacts
<1>4. DOMAIN s = 1..Len(s) /\ \A i \in 1..Len(s) : s[i] \in T
  BY <1>3
<1>5. s \in Seq(S)
  BY <1>3
<1>6. ToSet(s) = T
  BY <1>3, <1>4 DEF ToSet
<1> QED
  BY <1>2, <1>3, <1>5, <1>6

LEMMA KahnStarts ==
  ASSUME IsFiniteSet(planned)
  PROVE  KahnFits(KahnStart) /\ KahnStart.out = <<>>
<1> DEFINE ready == {m \in planned : InDegrees[m] = 0}
<1>1. PICK k : k = KahnStart
  OBVIOUS
<1>2. k.queue = SetToSeq(ready) /\ k.degree = InDegrees /\ k.out = <<>>
  BY <1>1 DEF KahnStart
<1>3. k.queue \in Seq(planned) /\ IsInjective(k.queue) /\ ToSet(k.queue) = ready
  <2>1. ready \in SUBSET planned
    OBVIOUS
  <2> HIDE DEF ready
  <2> QED
    BY <1>2, <2>1, SubsetToSeq
<1>4. ToSet(k.out) = {} /\ IsInjective(k.out) /\ k.out \in Seq(planned) /\ DOMAIN k.out = {}
  BY <1>2 DEF ToSet, IsInjective
<1>5. ASSUME NEW m \in planned
      PROVE  k.degree[m] = Cardinality(AwaitedBy(k, m)) /\ k.degree[m] \in Int
  <2>1. AwaitedBy(k, m) = {n \in planned : n.id \in m.needs}
    BY <1>4 DEF AwaitedBy
  <2>2. AwaitedBy(k, m) \in SUBSET planned
    BY DEF AwaitedBy
  <2>3. Cardinality(AwaitedBy(k, m)) \in Nat
    BY <2>2, FS_Subset, FS_CardinalityType
  <2>4. k.degree[m] = Cardinality(AwaitedBy(k, m))
    BY <1>2, <2>1 DEF InDegrees
  <2> QED
    BY <2>3, <2>4
<1>6. k.degree \in [planned -> Int]
  <2>1. k.degree = [m \in planned |-> k.degree[m]]
    BY <1>2 DEF InDegrees
  <2> QED
    BY <1>5, <2>1
<1>7. k \in KahnStates
  BY <1>1, <1>3, <1>4, <1>6 DEF KahnStart, KahnStates
<1>8. \A m \in planned : k.degree[m] = 0 <=> m \in ToSet(k.out) \cup ToSet(k.queue)
  BY <1>2, <1>3, <1>4
<1> QED
  BY <1>1, <1>2, <1>3, <1>4, <1>5, <1>7, <1>8 DEF KahnFits

(* One round.                                                              *)
LEMMA KahnGoesOn ==
  ASSUME IsFiniteSet(planned), NEW k, KahnFits(k), k.queue # <<>>
  PROVE  KahnFits(KahnRound(k)) /\ Len(KahnRound(k).out) = Len(k.out) + 1
<1>1. /\ k \in KahnStates /\ k.queue \in Seq(planned) /\ k.out \in Seq(planned)
      /\ k.degree \in [planned -> Int]
  BY DEF KahnFits, KahnStates
<1>2. PICK mid : mid = Head(k.queue)
  OBVIOUS
<1>3. PICK waits : waits = {m \in planned : mid.id \in m.needs}
  OBVIOUS
<1>4. PICK lowered : lowered = [m \in planned |-> k.degree[m] - IF m \in waits THEN 1 ELSE 0]
  OBVIOUS
<1>5. PICK more : more = {m \in waits : lowered[m] = 0}
  OBVIOUS
<1>6. PICK j : j = KahnRound(k)
  OBVIOUS
<1>7. /\ j = [queue |-> Tail(k.queue) \o SetToSeq(more), degree |-> lowered,
              out |-> Append(k.out, mid)]
  BY <1>2, <1>3, <1>4, <1>5, <1>6 DEF KahnRound
<1>8. mid \in planned /\ mid \in ToSet(k.queue) /\ mid \notin ToSet(k.out)
  <2>1. mid \in ToSet(k.queue)
    BY <1>1, <1>2, SubsetToSeq, QueueMoves, EmptySeq DEF ToSet
  <2> QED
    BY <1>1, <2>1, SeqSet DEF KahnFits
<1>9. more \in SUBSET planned
  BY <1>3, <1>5
<1>10. /\ j.out \in Seq(planned) /\ Len(j.out) = Len(k.out) + 1 /\ DOMAIN j.out = 1..(Len(k.out) + 1)
       /\ \A i \in 1..Len(k.out) : j.out[i] = k.out[i]
       /\ j.out[Len(k.out) + 1] = mid
       /\ ToSet(j.out) = ToSet(k.out) \cup {mid}
       /\ IsInjective(j.out)
  BY <1>1, <1>7, <1>8, Appended DEF KahnFits
<1>11. lowered \in [planned -> Int] /\ j.degree = lowered
  BY <1>1, <1>4, <1>7
<1>12. ASSUME NEW m \in planned
       PROVE  /\ j.degree[m] = k.degree[m] - IF mid.id \in m.needs THEN 1 ELSE 0
              /\ k.degree[m] = Cardinality(AwaitedBy(k, m)) /\ k.degree[m] \in Nat
              /\ k.degree[m] = 0 <=> AwaitedBy(k, m) = {}
  <2>1. j.degree[m] = k.degree[m] - IF mid.id \in m.needs THEN 1 ELSE 0
    BY <1>3, <1>4, <1>11
  <2>2. k.degree[m] = Cardinality(AwaitedBy(k, m))
    BY DEF KahnFits
  <2>3. AwaitedBy(k, m) \in SUBSET planned
    BY DEF AwaitedBy
  <2>4. IsFiniteSet(AwaitedBy(k, m))
    BY <2>3, FS_Subset
  <2>5. Cardinality(AwaitedBy(k, m)) \in Nat /\ (Cardinality(AwaitedBy(k, m)) = 0 <=> AwaitedBy(k, m) = {})
    BY <2>4, FS_CardinalityType, FS_EmptySet
  <2> QED
    BY <2>1, <2>2, <2>5
<1>13. ASSUME NEW m \in waits PROVE m \notin ToSet(k.out) \cup ToSet(k.queue)
  <2>1. m \in planned /\ mid \in AwaitedBy(k, m)
    BY <1>3, <1>8 DEF AwaitedBy
  <2>2. k.degree[m] # 0
    BY <1>12, <2>1
  <2> QED
    BY <2>1, <2>2 DEF KahnFits
<1>14. SetToSeq(more) \in Seq(planned) /\ IsInjective(SetToSeq(more)) /\ ToSet(SetToSeq(more)) = more
  BY <1>9, SubsetToSeq
<1>15. /\ j.queue \in Seq(planned) /\ IsInjective(j.queue)
       /\ ToSet(j.queue) = (ToSet(k.queue) \ {mid}) \cup more
  <2>1. more \cap ToSet(k.queue) = {}
    BY <1>5, <1>13
  <2>2. j.queue = Tail(k.queue) \o SetToSeq(more)
    BY <1>7
  <2>3. IsInjective(k.queue)
    BY DEF KahnFits
  <2>4. PICK q, r : q = k.queue /\ r = SetToSeq(more)
    OBVIOUS
  <2>5. /\ q \in Seq(planned) /\ q # <<>> /\ IsInjective(q) /\ r \in Seq(planned)
        /\ IsInjective(r) /\ ToSet(r) \cap ToSet(q) = {}
    BY <1>1, <1>14, <2>1, <2>3, <2>4
  <2>6. /\ Tail(q) \o r \in Seq(planned) /\ IsInjective(Tail(q) \o r)
        /\ ToSet(Tail(q) \o r) = (ToSet(q) \ {Head(q)}) \cup ToSet(r)
    BY <2>5, QueueMoves
  <2> QED
    BY <1>2, <1>14, <2>2, <2>4, <2>6
<1>16. j \in KahnStates
  BY <1>7, <1>10, <1>11, <1>15 DEF KahnStates
<1>17. ToSet(j.out) \cap ToSet(j.queue) = {}
  <2>1. mid \notin more /\ more \cap ToSet(k.out) = {}
    BY <1>5, <1>8, <1>13
  <2> QED
    BY <1>10, <1>15, <2>1 DEF KahnFits
<1>18. ASSUME NEW m \in planned PROVE j.degree[m] = Cardinality(AwaitedBy(j, m))
  <2>1. Cardinality(AwaitedBy(j, m)) =
          Cardinality(AwaitedBy(k, m)) - IF mid.id \in m.needs THEN 1 ELSE 0
    <3>1. mid \notin ToSet(k.out) /\ ToSet(j.out) = ToSet(k.out) \cup {mid} /\ mid \in planned
      BY <1>8, <1>10
    <3>2. k \in KahnStates /\ j \in KahnStates
      BY <1>1, <1>16
    <3> QED
      BY <3>1, <3>2, WaitingLess
  <2> QED
    BY <1>12, <2>1
<1>19. ASSUME NEW m \in planned
       PROVE  j.degree[m] = 0 <=> m \in ToSet(j.out) \cup ToSet(j.queue)
  <2>1. m \in ToSet(j.out) \cup ToSet(j.queue) <=> m \in ToSet(k.out) \cup ToSet(k.queue) \cup more
    BY <1>8, <1>10, <1>15
  <2>2. CASE m \in waits
    <3>1. m \notin ToSet(k.out) \cup ToSet(k.queue)
      BY <1>13, <2>2
    <3>2. m \in more <=> j.degree[m] = 0
      BY <1>5, <1>11, <2>2
    <3> QED
      BY <2>1, <3>1, <3>2
  <2>3. CASE m \notin waits
    <3>1. m \notin more /\ j.degree[m] = k.degree[m]
      BY <1>3, <1>5, <1>12, <2>3
    <3> QED
      BY <2>1, <3>1 DEF KahnFits
  <2> QED
    BY <2>2, <2>3
<1>20. ASSUME NEW i \in DOMAIN j.out, NEW n \in planned, n.id \in j.out[i].needs
       PROVE  \E x \in DOMAIN j.out : x < i /\ j.out[x] = n
  <2>1. Len(k.out) \in Nat /\ DOMAIN k.out = 1..Len(k.out)
    BY <1>1
  <2>2. CASE i \in 1..Len(k.out)
    <3>1. PICK x \in DOMAIN k.out : x < i /\ k.out[x] = n
      BY <1>10, <1>20, <2>1, <2>2 DEF KahnFits
    <3> QED
      BY <1>10, <2>1, <3>1
  <2>3. CASE i = Len(k.out) + 1
    <3>1. n.id \in mid.needs
      BY <1>10, <1>20, <2>3
    <3>2. k.degree[mid] = 0
      BY <1>8 DEF KahnFits
    <3>3. AwaitedBy(k, mid) = {}
      BY <1>8, <1>12, <3>2
    <3>4. n \in ToSet(k.out)
      BY <1>20, <3>1, <3>3 DEF AwaitedBy
    <3>5. PICK x \in DOMAIN k.out : k.out[x] = n
      BY <3>4 DEF ToSet
    <3> QED
      BY <1>10, <2>1, <2>3, <3>5
  <2> QED
    BY <1>10, <2>1, <2>2, <2>3
<1> QED
  BY <1>6, <1>10, <1>15, <1>16, <1>17, <1>18, <1>19, <1>20 DEF KahnFits

(* A list of different rows is as long as there are rows when it has all.  *)
LEMMA OutputAll ==
  ASSUME NEW S, IsFiniteSet(S), NEW out \in Seq(S), IsInjective(out)
  PROVE  Len(out) = Cardinality(S) <=> ToSet(out) = S
<1>1. PICK n \in Nat : n = Len(out)
  BY LenProperties
<1>2. out \in [1..n -> S] /\ DOMAIN out = 1..n
  BY <1>1
<1>3. out \in Injection(1..n, S)
  BY <1>2 DEF Injection, IsInjective
<1>4. IsFiniteSet(1..n) /\ Cardinality(1..n) = n
  <2>1. n \in Int /\ 1 \in Int
    OBVIOUS
  <2>2. IsFiniteSet(1..n) /\ Cardinality(1..n) = IF 1 > n THEN 0 ELSE n - 1 + 1
    BY <2>1, FS_Interval
  <2> QED
    BY <2>2
<1>5. n = Cardinality(S) <=> out \in Surjection(1..n, S)
  BY <1>3, <1>4, FS_Injection
<1>6. out \in Surjection(1..n, S) <=> ToSet(out) = S
  BY <1>2 DEF Surjection, ToSet
<1> QED
  BY <1>1, <1>5, <1>6

(* What CHOOSE finds for the recursion of Kahn: the rounds, each of which  *)
(* outputs a row as long as one is waiting.                                *)
Rounds(f) ==
  /\ f[0] = KahnStart /\ \A i \in 0..Cardinality(planned) : KahnFits(f[i])
  /\ \A i \in 1..Cardinality(planned) : f[i] = KahnRound(f[i - 1])

LEMMA KahnDefined ==
  ASSUME IsFiniteSet(planned)
  PROVE  \E f : Rounds(f) /\ Kahn = f[Cardinality(planned)]
<1> DEFINE n == Cardinality(planned)
           S == {k \in KahnStates : KahnFits(k)}
           step == [i \in 1..n |-> [k \in S |-> KahnRound(k)]]
           Defines(f) == f = [i \in 0..n |-> IF i = 0 THEN KahnStart ELSE KahnRound(f[i - 1])]
<1>1. n \in Nat
  BY FS_CardinalityType
<1>2. KahnStart \in S
  BY KahnStarts DEF KahnFits
<1>3. ASSUME NEW k \in S PROVE KahnRound(k) \in S
  <2>1. CASE k.queue = <<>>
    BY <2>1 DEF KahnRound
  <2>2. CASE k.queue # <<>>
    <3>1. KahnFits(KahnRound(k))
      BY <2>2, KahnGoesOn
    <3> QED
      BY <3>1 DEF KahnFits
  <2> QED
    BY <2>1, <2>2
<1> HIDE DEF S, n
<1>4. \E f : Defines(f)
  <2>1. step \in StepsOf(n, S)
    BY <1>3 DEF StepsOf
  <2>2. PICK f : Iterates(f, KahnStart, step, n, S)
    <3> HIDE DEF step
    <3> QED
      BY <1>1, <1>2, <2>1, Iteration
  <2>3. /\ f \in [0..n -> S] /\ f[0] = KahnStart
        /\ \A i \in 1..n : f[i] = step[i][f[i - 1]]
    <3> HIDE DEF step
    <3> QED
      BY <2>2 DEF Iterates
  <2>4. ASSUME NEW i \in 1..n PROVE f[i] = KahnRound(f[i - 1])
    <3>1. i - 1 \in 0..n /\ f[i - 1] \in S
      BY <1>1, <2>3
    <3> QED
      BY <2>3, <3>1
  <2>5. ASSUME NEW i \in 0..n
        PROVE  f[i] = IF i = 0 THEN KahnStart ELSE KahnRound(f[i - 1])
    <3>1. CASE i = 0
      BY <2>3, <3>1
    <3>2. CASE i \in 1..n
      BY <2>4, <3>2
    <3> QED
      BY <1>1, <3>1, <3>2
  <2> QED
    BY <2>3, <2>5
<1> DEFINE f == CHOOSE h : Defines(h)
<1>5. Defines(f)
  BY <1>4
<1>6. Kahn = f[n]
  BY DEF Kahn, n
<1> HIDE DEF f
<1>7. f[0] = KahnStart /\ \A i \in 1..n : f[i] = KahnRound(f[i - 1])
  <2>1. f = [i \in 0..n |-> IF i = 0 THEN KahnStart ELSE KahnRound(f[i - 1])]
    BY <1>5
  <2>2. \A i \in 0..n : f[i] = IF i = 0 THEN KahnStart ELSE KahnRound(f[i - 1])
    BY <2>1
  <2> QED
    BY <1>1, <2>2
<1>8. \A i \in 0..n : f[i] \in S
  <2> DEFINE Good == {i \in Nat : i <= n => f[i] \in S}
  <2>1. 0 \in Good
    BY <1>2, <1>7
  <2>2. ASSUME NEW i \in Nat, i \in Good PROVE i + 1 \in Good
    <3>1. SUFFICES ASSUME i + 1 <= n PROVE f[i + 1] \in S
      OBVIOUS
    <3>2. i + 1 \in 1..n /\ (i + 1) - 1 = i /\ f[i] \in S
      BY <1>1, <2>2, <3>1
    <3> QED
      BY <1>3, <1>7, <3>2
  <2>3. \A i \in Nat : i \in Good
    <3> HIDE DEF Good
    <3> QED
      BY <2>1, <2>2, Induction
  <2> QED
    BY <1>1, <2>3
<1>9. Rounds(f)
  BY <1>7, <1>8 DEF Rounds, S, n
<1> QED
  BY <1>6, <1>9 DEF n

(* No more rounds are needed than there are rows.                          *)
LEMMA KahnEnds ==
  ASSUME IsFiniteSet(planned)
  PROVE  KahnFits(Kahn) /\ Kahn.queue = <<>>
<1>1. PICK f : Rounds(f) /\ Kahn = f[Cardinality(planned)]
  BY KahnDefined
<1>2. PICK n \in Nat : n = Cardinality(planned)
  BY FS_CardinalityType
<1> DEFINE Good == {i \in Nat : i <= n => (f[i].queue = <<>> \/ Len(f[i].out) = i)}
<1>3. 0 \in Good
  <2>1. f[0].out = <<>>
    BY <1>1, KahnStarts DEF Rounds
  <2> QED
    BY <2>1
<1>4. ASSUME NEW i \in Nat, i \in Good PROVE i + 1 \in Good
  <2>1. SUFFICES ASSUME i + 1 <= n PROVE f[i + 1].queue = <<>> \/ Len(f[i + 1].out) = i + 1
    OBVIOUS
  <2>2. /\ i \in 0..n /\ i + 1 \in 1..n /\ (i + 1) - 1 = i
        /\ f[i].queue = <<>> \/ Len(f[i].out) = i
    BY <1>4, <2>1
  <2>3. f[i + 1] = KahnRound(f[i]) /\ KahnFits(f[i])
    BY <1>1, <1>2, <2>2 DEF Rounds
  <2>4. CASE f[i].queue = <<>>
    BY <2>3, <2>4 DEF KahnRound
  <2>5. CASE f[i].queue # <<>>
    <3>1. Len(KahnRound(f[i]).out) = Len(f[i].out) + 1
      BY <2>3, <2>5, KahnGoesOn
    <3> QED
      BY <2>2, <2>3, <2>5, <3>1
  <2> QED
    BY <2>4, <2>5
<1>5. n \in Good
  <2>1. \A i \in Nat : i \in Good => i + 1 \in Good
    BY <1>4
  <2> HIDE DEF Good
  <2> QED
    BY <1>3, <2>1, Induction
<1>6. KahnFits(f[n])
  <2>1. n \in 0..n
    OBVIOUS
  <2> QED
    BY <1>1, <1>2, <2>1 DEF Rounds
<1>7. ASSUME f[n].queue # <<>> PROVE FALSE
  <2>1. PICK out : out = f[n].out
    OBVIOUS
  <2>2. /\ out \in Seq(planned) /\ IsInjective(out) /\ Len(out) = n /\ f[n].queue \in Seq(planned)
        /\ ToSet(out) \cap ToSet(f[n].queue) = {}
    BY <1>5, <1>6, <1>7, <2>1 DEF KahnFits, KahnStates
  <2>3. ToSet(out) = planned
    BY <1>2, <2>2, OutputAll
  <2> QED
    BY <1>7, <2>2, <2>3, SeqSet
<1> QED
  BY <1>1, <1>2, <1>6, <1>7

(* The order is complete exactly when the needs of the rows have no cycle, *)
(* and each row is behind those it needs.                                  *)
LEMMA OrderIs ==
  ASSUME IsFiniteSet(planned)
  PROVE  /\ IsComplete(BuildOrder) <=> ~IsCyclic(RowEdges)
         /\ \A i, j \in DOMAIN BuildOrder : BuildOrder[j].id \in BuildOrder[i].needs => j < i
<1>1. PICK k : k = Kahn
  OBVIOUS
<1>2. /\ KahnFits(k) /\ k.queue = <<>>
  BY <1>1, KahnEnds
<1>3. PICK out : out = k.out
  OBVIOUS
<1>4. /\ out \in Seq(planned) /\ IsInjective(out) /\ DOMAIN out = 1..Len(out) /\ Len(out) \in Nat
      /\ ToSet(out) \subseteq planned /\ ToSet(k.queue) = {}
  BY <1>2, <1>3, SeqSet DEF KahnFits, KahnStates, ToSet
<1>5. \A i \in DOMAIN out, n \in planned :
        n.id \in out[i].needs => \E j \in DOMAIN out : j < i /\ out[j] = n
  BY <1>2, <1>3 DEF KahnFits
<1>6. BuildOrder = out
  BY <1>1, <1>3 DEF BuildOrder
<1>7. IsComplete(out) <=> ToSet(out) = planned
  BY <1>4, OutputAll DEF IsComplete
<1>8. ASSUME ToSet(out) = planned, IsCyclic(RowEdges) PROVE FALSE
  <2>1. PICK nodes : /\ nodes \in SUBSET {e[1] : e \in RowEdges} /\ nodes # {}
                     /\ \A x \in nodes : \E y \in nodes : <<x, y>> \in RowEdges
    BY <1>8 DEF IsCyclic
  <2>2. nodes \subseteq planned /\ \A x \in nodes : \E y \in nodes : y.id \in x.needs
    BY <2>1 DEF RowEdges
  <2> DEFINE Spots == {i \in DOMAIN out : out[i] \in nodes}
  <2>3. Spots \subseteq Nat /\ Spots # {}
    BY <1>4, <1>8, <2>1, <2>2 DEF ToSet
  <2>4. PICK i \in Spots : \A j \in Spots : i <= j
    <3> HIDE DEF Spots
    <3> QED
      BY <2>3, LeastNumber
  <2>5. PICK y \in nodes : y.id \in out[i].needs
    BY <2>2, <2>4
  <2>6. PICK j \in DOMAIN out : j < i /\ out[j] = y
    BY <1>5, <2>2, <2>4, <2>5
  <2> QED
    BY <1>4, <2>4, <2>5, <2>6
<1>9. ASSUME ToSet(out) # planned PROVE IsCyclic(RowEdges)
  <2> DEFINE nodes == planned \ ToSet(out)
  <2>1. nodes # {}
    BY <1>4, <1>9
  <2>2. ASSUME NEW x \in nodes PROVE \E y \in nodes : y.id \in x.needs
    <3>1. x \in planned /\ k.degree[x] # 0
      BY <1>2, <1>3, <1>4, <2>2 DEF KahnFits
    <3>2. k.degree[x] = Cardinality(AwaitedBy(k, x))
      BY <1>2, <3>1 DEF KahnFits
    <3>3. AwaitedBy(k, x) # {}
      BY <3>1, <3>2, FS_EmptySet
    <3> QED
      BY <1>3, <3>3 DEF AwaitedBy
  <2>3. \A x \in nodes : \E y \in nodes : <<x, y>> \in RowEdges
    <3> SUFFICES ASSUME NEW x \in nodes PROVE \E y \in nodes : <<x, y>> \in RowEdges
      OBVIOUS
    <3>1. PICK y \in nodes : y.id \in x.needs
      BY <2>2
    <3> QED
      BY <3>1 DEF RowEdges
  <2>4. nodes \subseteq {e[1] : e \in RowEdges}
    <3> SUFFICES ASSUME NEW x \in nodes PROVE \E e \in RowEdges : x = e[1]
      OBVIOUS
    <3>1. PICK y \in nodes : <<x, y>> \in RowEdges
      BY <2>3
    <3> QED
      BY <3>1
  <2> HIDE DEF nodes
  <2> QED
    BY <2>1, <2>3, <2>4 DEF IsCyclic
<1>10. ASSUME NEW i \in DOMAIN out, NEW j \in DOMAIN out, out[j].id \in out[i].needs PROVE j < i
  <2>1. out[j] \in planned
    BY <1>4 DEF ToSet
  <2>2. PICK x \in DOMAIN out : x < i /\ out[x] = out[j]
    BY <1>5, <1>10, <2>1
  <2> QED
    BY <1>4, <2>2 DEF IsInjective
<1> QED
  BY <1>6, <1>7, <1>8, <1>9, <1>10

-----------------------------------------------------------------------------
(* The validation.  A search answers that there is a cycle when the nodes  *)
(* on its stack, each of which depends on one of them or on the node that  *)
(* is visited, close; what it leaves as visited depends on nothing else    *)
(* and has no cycle.                                                       *)

DocStories == [id : Nat \ {0}, after : SUBSET (Nat \ {0})]

Docs == Seq(DocStories)

Answers(d) == (SUBSET IdsOf(d)) \cup {Cycle}

LEMMA DocFacts ==
  ASSUME NEW d \in Docs
  PROVE  /\ IsFiniteSet(IdsOf(d)) /\ Cardinality(IdsOf(d)) \in Nat
         /\ 0 \notin IdsOf(d) /\ Cycle \notin SUBSET IdsOf(d)
         /\ DOMAIN d = 1..Len(d) /\ Len(d) \in Nat
<1>1. PICK n \in Nat : n = Len(d)
  BY LenProperties DEF Docs
<1>2. DOMAIN d = 1..n /\ \A i \in 1..n : d[i] \in DocStories
  BY <1>1 DEF Docs
<1>3. \A i \in 1..n : d[i].id \in Nat \ {0}
  BY <1>2 DEF DocStories
<1>4. 0 \notin IdsOf(d) /\ Cycle \notin SUBSET IdsOf(d)
  BY <1>2, <1>3 DEF IdsOf, Cycle
<1> DEFINE f == [i \in 1..n |-> d[i].id]
<1>5. f \in Surjection(1..n, IdsOf(d))
  BY <1>2 DEF Surjection, IdsOf
<1>6. IsFiniteSet(1..n)
  BY FS_Interval
<1>7. IsFiniteSet(IdsOf(d))
  <2> HIDE DEF f
  <2> QED
    BY <1>5, <1>6, FS_Surjection
<1> QED
  BY <1>1, <1>2, <1>4, <1>7, FS_CardinalityType

LEMMA LastOfFits ==
  ASSUME NEW d \in Docs, NEW id \in IdsOf(d)
  PROVE  \E i \in DOMAIN d :
           /\ LastOf(d, id) = d[i] /\ d[i].id = id
           /\ \A j \in DOMAIN d : d[j].id = id => j <= i
<1> DEFINE I == {i \in 1..Len(d) : d[i].id = id}
<1>1. PICK n \in Nat : n = Len(d) /\ DOMAIN d = 1..n
  BY DocFacts
<1>2. I # {} /\ I \subseteq 1..n
  BY <1>1 DEF IdsOf
<1>3. \E i \in I : \A j \in I : i >= j
  <2> DEFINE T == {n - i : i \in I}
  <2>1. T \subseteq Nat /\ T # {}
    BY <1>2
  <2>2. PICK t \in T : \A u \in T : t <= u
    <3> HIDE DEF T
    <3> QED
      BY <2>1, LeastNumber
  <2>3. PICK i \in I : t = n - i
    OBVIOUS
  <2>4. \A j \in I : n - j \in T
    OBVIOUS
  <2>5. ASSUME NEW j \in I PROVE i >= j
    <3>1. n - i <= n - j
      <4> HIDE DEF T, I
      <4> QED
        BY <2>2, <2>3, <2>4
    <3>2. i \in Nat /\ j \in Nat
      BY <1>2
    <3> HIDE DEF T, I
    <3> QED
      BY <3>1, <3>2
  <2> QED
    BY <2>5
<1>4. PICK i \in I : i = CHOOSE x \in I : \A j \in I : x >= j
  BY <1>3
<1>5. \A j \in I : i >= j
  BY <1>3, <1>4
<1>6. LastOf(d, id) = d[i]
  BY <1>2, <1>4 DEF LastOf, SelectLastInSeq, Max
<1> QED
  BY <1>1, <1>5, <1>6

LEMMA DependsFits ==
  ASSUME NEW d \in Docs, ReferencesKnown(d), NEW id \in IdsOf(d)
  PROVE  /\ DependsOn(d, id) \in SUBSET IdsOf(d)
         /\ SetToSeq(DependsOn(d, id)) \in Seq(IdsOf(d))
         /\ ToSet(SetToSeq(DependsOn(d, id))) = DependsOn(d, id)
<1>1. DependsOn(d, id) \in SUBSET IdsOf(d)
  <2>1. PICK i \in DOMAIN d : LastOf(d, id) = d[i]
    BY LastOfFits
  <2> QED
    BY <2>1 DEF DependsOn, ReferencesKnown
<1> QED
  BY <1>1, DocFacts, SubsetToSeq

EachSteps(d, visit, nodes, stack, before, f) ==
  /\ f \in [0..Len(nodes) -> Answers(d)] /\ f[0] = before
  /\ \A i \in 1..Len(nodes) :
       f[i] = visit[[node |-> nodes[i], stack |-> stack, visited |-> f[i - 1]]]

LEMMA EachDefined ==
  ASSUME NEW d, NEW visit \in [Visits(IdsOf(d)) -> Answers(d)], NEW nodes \in Seq(IdsOf(d)),
         NEW stack \in SUBSET IdsOf(d), NEW before \in Answers(d)
  PROVE  \E f : /\ EachSteps(d, visit, nodes, stack, before, f)
                /\ VisitEach(visit, nodes, stack, before) = f[Len(nodes)]
<1> DEFINE Asked(i, seen) == [node |-> nodes[i], stack |-> stack, visited |-> seen]
           n == Len(nodes)
           S == Answers(d)
           step == [i \in 1..n |-> [seen \in S |-> visit[Asked(i, seen)]]]
           Defines(f) == f = [i \in 0..n |-> IF i = 0 THEN before ELSE visit[Asked(i, f[i - 1])]]
<1>1. n \in Nat
  OBVIOUS
<1>2. ASSUME NEW i \in 1..n, NEW seen \in S PROVE visit[Asked(i, seen)] \in S
  <2>1. Asked(i, seen) \in Visits(IdsOf(d))
    BY DEF Visits, Answers
  <2> QED
    BY <2>1
<1> DEFINE g == CHOOSE h : Defines(h)
<1>3. VisitEach(visit, nodes, stack, before) = g[n]
  BY DEF VisitEach
<1> HIDE DEF S, n, Asked
<1>4. \E f : Defines(f)
  <2>1. step \in StepsOf(n, S)
    BY <1>2 DEF StepsOf
  <2>2. before \in S
    BY DEF S
  <2>3. PICK f : Iterates(f, before, step, n, S)
    <3> HIDE DEF step
    <3> QED
      BY <1>1, <2>1, <2>2, Iteration
  <2>4. /\ f \in [0..n -> S] /\ f[0] = before
        /\ \A i \in 1..n : f[i] = step[i][f[i - 1]]
    <3> HIDE DEF step
    <3> QED
      BY <2>3 DEF Iterates
  <2>5. ASSUME NEW i \in 1..n PROVE f[i] = visit[Asked(i, f[i - 1])]
    <3>1. i - 1 \in 0..n /\ f[i - 1] \in S
      BY <1>1, <2>4
    <3> QED
      BY <2>4, <3>1
  <2>6. ASSUME NEW i \in 0..n
        PROVE  f[i] = IF i = 0 THEN before ELSE visit[Asked(i, f[i - 1])]
    <3>1. CASE i = 0
      BY <2>4, <3>1
    <3>2. CASE i \in 1..n
      BY <2>5, <3>2
    <3> QED
      BY <1>1, <3>1, <3>2
  <2> QED
    BY <2>4, <2>6
<1>5. Defines(g)
  BY <1>4
<1> HIDE DEF g
<1>6. \A i \in 0..n : g[i] = IF i = 0 THEN before ELSE visit[Asked(i, g[i - 1])]
  <2>1. g = [i \in 0..n |-> IF i = 0 THEN before ELSE visit[Asked(i, g[i - 1])]]
    BY <1>5
  <2> QED
    BY <2>1
<1>7. g[0] = before /\ \A i \in 1..n : g[i] = visit[Asked(i, g[i - 1])]
  BY <1>1, <1>6
<1>8. \A i \in 0..n : g[i] \in S
  <2> DEFINE Good == {i \in Nat : i <= n => g[i] \in S}
  <2>1. 0 \in Good
    BY <1>7 DEF S
  <2>2. ASSUME NEW i \in Nat, i \in Good PROVE i + 1 \in Good
    <3>1. SUFFICES ASSUME i + 1 <= n PROVE g[i + 1] \in S
      OBVIOUS
    <3>2. i + 1 \in 1..n /\ (i + 1) - 1 = i /\ g[i] \in S
      BY <1>1, <2>2, <3>1
    <3> QED
      BY <1>2, <1>7, <3>2
  <2>3. \A i \in Nat : i \in Good
    <3> HIDE DEF Good
    <3> QED
      BY <2>1, <2>2, Induction
  <2> QED
    BY <1>1, <2>3
<1>9. g \in [0..n -> S]
  <2>1. g = [i \in 0..n |-> g[i]]
    BY <1>5
  <2> QED
    BY <1>8, <2>1
<1>10. EachSteps(d, visit, nodes, stack, before, g)
  BY <1>7, <1>9 DEF S, n, Asked, EachSteps
<1> QED
  BY <1>3, <1>10 DEF n

(* Nodes that depend on nothing else, without a cycle; and nodes each of   *)
(* which depends on one of them.                                           *)
SettledIn(d, nodes) ==
  /\ nodes \in SUBSET IdsOf(d)
  /\ \A x \in nodes : DependsOn(d, x) \subseteq nodes
  /\ \A some \in SUBSET nodes : some # {} => \E x \in some : DependsOn(d, x) \cap some = {}

Looping(d) ==
  \E nodes \in SUBSET IdsOf(d) :
    nodes # {} /\ \A x \in nodes : DependsOn(d, x) \cap nodes # {}

(* What is asked and answered.                                             *)
Fair(d, stack, before) ==
  IF before = Cycle THEN Looping(d) ELSE SettledIn(d, before) /\ before \cap stack = {}

Leads(d, stack, node) == \A s \in stack : DependsOn(d, s) \cap (stack \cup {node}) # {}

Right(d, stack, before, nodes, answer) ==
  /\ Fair(d, stack, answer)
  /\ answer # Cycle => before # Cycle /\ before \cup nodes \subseteq answer

Answering(d, visit, room) ==
  /\ visit \in [Visits(IdsOf(d)) -> Answers(d)]
  /\ \A v \in Visits(IdsOf(d)) :
       /\ Cardinality(IdsOf(d) \ v.stack) <= room
       /\ Leads(d, v.stack, v.node) /\ Fair(d, v.stack, v.visited)
       => Right(d, v.stack, v.visited, {v.node}, visit[v])

LEMMA EachRight ==
  ASSUME NEW d \in Docs, NEW visit, NEW room \in Nat, Answering(d, visit, room),
         NEW nodes \in Seq(IdsOf(d)), NEW stack \in SUBSET IdsOf(d), NEW before \in Answers(d),
         Cardinality(IdsOf(d) \ stack) <= room,
         \A x \in ToSet(nodes) : Leads(d, stack, x), Fair(d, stack, before)
  PROVE  /\ VisitEach(visit, nodes, stack, before) \in Answers(d)
         /\ Right(d, stack, before, ToSet(nodes), VisitEach(visit, nodes, stack, before))
<1>1. visit \in [Visits(IdsOf(d)) -> Answers(d)]
  BY DEF Answering
<1>2. PICK f : /\ f \in [0..Len(nodes) -> Answers(d)] /\ f[0] = before
               /\ \A i \in 1..Len(nodes) :
                    f[i] = visit[[node |-> nodes[i], stack |-> stack, visited |-> f[i - 1]]]
               /\ VisitEach(visit, nodes, stack, before) = f[Len(nodes)]
  <2>1. PICK f : /\ EachSteps(d, visit, nodes, stack, before, f)
                 /\ VisitEach(visit, nodes, stack, before) = f[Len(nodes)]
    BY <1>1, EachDefined
  <2> QED
    BY <2>1 DEF EachSteps
<1>3. PICK n \in Nat : n = Len(nodes) /\ DOMAIN nodes = 1..n
  OBVIOUS
<1> DEFINE First(m) == {nodes[i] : i \in 1..m}
           Good == {m \in Nat : m <= n => Right(d, stack, before, First(m), f[m])}
<1>4. 0 \in Good
  BY <1>2 DEF Right
<1>5. ASSUME NEW m \in Nat, m \in Good PROVE m + 1 \in Good
  <2>1. SUFFICES ASSUME m + 1 <= n PROVE Right(d, stack, before, First(m + 1), f[m + 1])
    OBVIOUS
  <2>2. /\ m + 1 \in 1..n /\ m \in 0..n /\ (m + 1) - 1 = m
        /\ Right(d, stack, before, First(m), f[m])
    BY <1>5, <2>1
  <2>3. PICK x : x = nodes[m + 1]
    OBVIOUS
  <2>4. x \in IdsOf(d) /\ x \in ToSet(nodes)
    BY <1>3, <2>2, <2>3 DEF ToSet
  <2>5. PICK v : v = [node |-> x, stack |-> stack, visited |-> f[m]]
    OBVIOUS
  <2>6. v \in Visits(IdsOf(d)) /\ v.node = x /\ v.stack = stack /\ v.visited = f[m]
    BY <1>2, <1>3, <2>2, <2>4, <2>5 DEF Visits, Answers
  <2>7. f[m + 1] = visit[v]
    BY <1>2, <1>3, <2>2, <2>3, <2>5
  <2>8. Leads(d, v.stack, v.node) /\ Fair(d, v.stack, v.visited)
    BY <2>2, <2>4, <2>6 DEF Right
  <2>9. Right(d, stack, f[m], {x}, f[m + 1])
    BY <2>6, <2>7, <2>8 DEF Answering
  <2>10. First(m + 1) = First(m) \cup {x}
    <3>1. 1..(m + 1) = (1..m) \cup {m + 1}
      BY <1>5
    <3> QED
      BY <2>3, <3>1
  <2> HIDE DEF First
  <2> QED
    BY <2>2, <2>9, <2>10 DEF Right
<1>6. n \in Good
  <2>1. \A m \in Nat : m \in Good => m + 1 \in Good
    BY <1>5
  <2> HIDE DEF Good
  <2> QED
    BY <1>4, <2>1, Induction
<1>7. First(n) = ToSet(nodes)
  BY <1>3 DEF ToSet
<1>8. f[n] \in Answers(d)
  BY <1>2, <1>3
<1>9. Right(d, stack, before, First(n), f[n])
  BY <1>6
<1> HIDE DEF First
<1>10. VisitEach(visit, nodes, stack, before) = f[n]
  BY <1>2, <1>3
<1> QED
  BY <1>7, <1>8, <1>9, <1>10

LEMMA EnterTyped ==
  ASSUME NEW d \in Docs, ReferencesKnown(d), NEW visit \in [Visits(IdsOf(d)) -> Answers(d)],
         NEW v \in Visits(IdsOf(d))
  PROVE  Enter(d, visit, v) \in Answers(d)
<1>1. v.node \in IdsOf(d) /\ v.stack \in SUBSET IdsOf(d) /\ v.visited \in Answers(d)
  BY DEF Visits, Answers
<1>2. PICK below : below = VisitEach(visit, SetToSeq(DependsOn(d, v.node)), v.stack \cup {v.node},
                                     v.visited)
  OBVIOUS
<1>3. below \in Answers(d)
  <2>1. SetToSeq(DependsOn(d, v.node)) \in Seq(IdsOf(d))
    BY <1>1, DependsFits
  <2>2. PICK nodes \in Seq(IdsOf(d)) : nodes = SetToSeq(DependsOn(d, v.node))
    BY <2>1
  <2>3. PICK stack \in SUBSET IdsOf(d) : stack = v.stack \cup {v.node}
    BY <1>1
  <2>4. \E f : f \in [0..Len(nodes) -> Answers(d)] /\ below = f[Len(nodes)]
    <3>1. v.visited \in Answers(d) /\ below = VisitEach(visit, nodes, stack, v.visited)
      BY <1>1, <1>2, <2>2, <2>3
    <3>2. PICK f : /\ EachSteps(d, visit, nodes, stack, v.visited, f)
                   /\ VisitEach(visit, nodes, stack, v.visited) = f[Len(nodes)]
      BY <3>1, EachDefined
    <3> QED
      BY <3>1, <3>2 DEF EachSteps
  <2>5. Len(nodes) \in 0..Len(nodes)
    BY <2>2
  <2> QED
    BY <2>4, <2>5
<1>4. \/ Enter(d, visit, v) \in {Cycle, v.visited}
      \/ below # Cycle /\ Enter(d, visit, v) = below \cup {v.node}
  BY <1>2 DEF Enter
<1>5. below # Cycle => below \cup {v.node} \in SUBSET IdsOf(d)
  BY <1>1, <1>3 DEF Answers
<1> QED
  BY <1>1, <1>4, <1>5 DEF Answers

LEMMA EnterRight ==
  ASSUME NEW d \in Docs, ReferencesKnown(d), NEW visit, NEW room \in Nat,
         Answering(d, visit, room), NEW v \in Visits(IdsOf(d)),
         Cardinality(IdsOf(d) \ v.stack) <= room + 1,
         Leads(d, v.stack, v.node), Fair(d, v.stack, v.visited)
  PROVE  Right(d, v.stack, v.visited, {v.node}, Enter(d, visit, v))
<1>1. v.node \in IdsOf(d) /\ v.stack \in SUBSET IdsOf(d) /\ v.visited \in Answers(d)
  BY DEF Visits, Answers
<1>2. CASE v.visited = Cycle
  BY <1>2 DEF Enter, Right, Fair
<1>3. CASE v.visited # Cycle /\ v.node \in v.stack
  <2>1. \A s \in v.stack : DependsOn(d, s) \cap v.stack # {}
    <3>1. v.stack \cup {v.node} = v.stack
      BY <1>3
    <3> QED
      BY <3>1 DEF Leads
  <2>2. Looping(d)
    BY <1>1, <1>3, <2>1 DEF Looping
  <2>3. Enter(d, visit, v) = Cycle
    BY <1>3 DEF Enter
  <2> QED
    BY <2>2, <2>3 DEF Right, Fair
<1>4. CASE v.visited # Cycle /\ v.node \notin v.stack /\ v.node \in v.visited
  <2>1. Enter(d, visit, v) = v.visited
    BY <1>4 DEF Enter
  <2> QED
    BY <1>4, <2>1 DEF Right
<1>5. CASE v.visited # Cycle /\ v.node \notin v.stack /\ v.node \notin v.visited
  <2>1. PICK nodes : nodes = SetToSeq(DependsOn(d, v.node))
    OBVIOUS
  <2>2. PICK stack : stack = v.stack \cup {v.node}
    OBVIOUS
  <2>3. PICK below : below = VisitEach(visit, nodes, stack, v.visited)
    OBVIOUS
  <2>4. /\ nodes \in Seq(IdsOf(d)) /\ ToSet(nodes) = DependsOn(d, v.node)
        /\ DependsOn(d, v.node) \in SUBSET IdsOf(d)
    BY <1>1, <2>1, DependsFits
  <2>5. stack \in SUBSET IdsOf(d)
    BY <1>1, <2>2
  <2>6. Cardinality(IdsOf(d) \ stack) <= room
    <3>1. IsFiniteSet(IdsOf(d) \ v.stack)
      BY DocFacts, FS_Difference
    <3>2. IdsOf(d) \ stack = (IdsOf(d) \ v.stack) \ {v.node}
      BY <2>2
    <3>3. Cardinality(IdsOf(d) \ stack) = Cardinality(IdsOf(d) \ v.stack) - 1
      <4>1. PICK rest : rest = IdsOf(d) \ v.stack
        OBVIOUS
      <4>2. IsFiniteSet(rest) /\ v.node \in rest
        BY <1>1, <1>5, <3>1, <4>1
      <4>3. Cardinality(rest \ {v.node}) = Cardinality(rest) - 1
        BY <4>2, FS_RemoveElement
      <4> QED
        BY <3>2, <4>1, <4>3
    <3>4. Cardinality(IdsOf(d) \ v.stack) \in Nat
      BY <3>1, FS_CardinalityType
    <3> QED
      BY <3>3, <3>4
  <2>7. ASSUME NEW x \in ToSet(nodes) PROVE Leads(d, stack, x)
    BY <2>2, <2>4, <2>7 DEF Leads
  <2>8. Fair(d, stack, v.visited)
    BY <1>5, <2>2 DEF Fair
  <2>9. below \in Answers(d) /\ Right(d, stack, v.visited, ToSet(nodes), below)
    BY <1>1, <2>3, <2>4, <2>5, <2>6, <2>7, <2>8, EachRight
  <2>10. Enter(d, visit, v) = IF below = Cycle THEN Cycle ELSE below \cup {v.node}
    BY <1>5, <2>1, <2>2, <2>3 DEF Enter
  <2>11. CASE below = Cycle
    BY <2>9, <2>10, <2>11 DEF Right, Fair
  <2>12. CASE below # Cycle
    <3>1. PICK all : all = below \cup {v.node}
      OBVIOUS
    <3>2. /\ SettledIn(d, below) /\ below \cap stack = {}
          /\ v.visited \cup DependsOn(d, v.node) \subseteq below
      BY <2>4, <2>9, <2>12 DEF Right, Fair
    <3>3. v.node \notin below
      BY <2>2, <3>2
    <3>4. all \in SUBSET IdsOf(d) /\ \A x \in all : DependsOn(d, x) \subseteq all
      BY <1>1, <3>1, <3>2 DEF SettledIn
    <3>5. ASSUME NEW some \in SUBSET all, some # {}
          PROVE  \E x \in some : DependsOn(d, x) \cap some = {}
      <4>1. CASE v.node \notin some
        <5>1. some \in SUBSET below
          BY <3>1, <4>1
        <5> QED
          BY <3>2, <3>5, <5>1 DEF SettledIn
      <4>2. CASE v.node \in some /\ some \cap below = {}
        <5>1. DependsOn(d, v.node) \cap some = {}
          BY <3>2, <4>2
        <5> QED
          BY <4>2, <5>1
      <4>3. CASE v.node \in some /\ some \cap below # {}
        <5>1. PICK x \in some \cap below : DependsOn(d, x) \cap (some \cap below) = {}
          BY <3>2, <4>3 DEF SettledIn
        <5>2. DependsOn(d, x) \subseteq below
          BY <3>2, <5>1 DEF SettledIn
        <5> QED
          BY <5>1, <5>2
      <4> QED
        BY <4>1, <4>2, <4>3
    <3>6. SettledIn(d, all)
      BY <3>4, <3>5 DEF SettledIn
    <3>7. all \cap v.stack = {}
      BY <1>5, <2>2, <3>1, <3>2
    <3>8. all # Cycle
      BY <3>4, DocFacts
    <3>9. Enter(d, visit, v) = all
      BY <2>10, <2>12, <3>1
    <3> QED
      BY <1>5, <3>1, <3>2, <3>6, <3>7, <3>8, <3>9 DEF Right, Fair
  <2> QED
    BY <2>11, <2>12
<1> QED
  BY <1>2, <1>3, <1>4, <1>5

LEMMA VisitRight ==
  ASSUME NEW d \in Docs, ReferencesKnown(d)
  PROVE  Answering(d, Visit(d), Cardinality(IdsOf(d)))
<1> DEFINE n == Cardinality(IdsOf(d))
           V == Visits(IdsOf(d))
           S == [V -> Answers(d)]
           none == [v \in V |-> Cycle]
           Entering(visit) == [v \in V |-> Enter(d, visit, v)]
           step == [i \in 1..n |-> [visit \in S |-> Entering(visit)]]
           Level(f, room) == [v \in V |-> IF room = 0 THEN Cycle ELSE Enter(d, f[room - 1], v)]
           Defines(f) == f = [room \in 0..n |-> Level(f, room)]
<1>1. n \in Nat
  BY DocFacts
<1>2. none \in S
  BY DEF Answers
<1>3. ASSUME NEW visit \in S PROVE Entering(visit) \in S
  BY EnterTyped
<1> DEFINE g == CHOOSE h : Defines(h)
<1>4. Visit(d) = g[n]
  BY DEF Visit
<1>5. ASSUME NEW f, NEW room \in 0..n
      PROVE  Level(f, room) = IF room = 0 THEN none ELSE Entering(f[room - 1])
  OBVIOUS
<1> HIDE DEF n, S, none, Entering, Level
<1>6. \E f : Defines(f)
  <2>1. step \in StepsOf(n, S)
    BY <1>3 DEF StepsOf
  <2>2. PICK f : Iterates(f, none, step, n, S)
    <3> HIDE DEF step
    <3> QED
      BY <1>1, <1>2, <2>1, Iteration
  <2>3. /\ f \in [0..n -> S] /\ f[0] = none
        /\ \A i \in 1..n : f[i] = step[i][f[i - 1]]
    <3> HIDE DEF step
    <3> QED
      BY <2>2 DEF Iterates
  <2>4. ASSUME NEW room \in 0..n PROVE f[room] = Level(f, room)
    <3>1. CASE room = 0
      BY <1>5, <2>3, <3>1
    <3>2. CASE room # 0
      <4>1. room \in 1..n /\ room - 1 \in 0..n
        BY <1>1, <3>2
      <4>2. f[room - 1] \in S
        BY <2>3, <4>1
      <4>3. f[room] = Entering(f[room - 1])
        BY <2>3, <4>1, <4>2
      <4> QED
        BY <1>5, <3>2, <4>3
    <3> QED
      BY <3>1, <3>2
  <2> QED
    BY <2>3, <2>4
<1>7. Defines(g)
  BY <1>6
<1> HIDE DEF g
<1>8. \A room \in 0..n : g[room] = IF room = 0 THEN none ELSE Entering(g[room - 1])
  <2>1. \A room \in 0..n : g[room] = Level(g, room)
    BY <1>7
  <2> QED
    BY <1>5, <2>1
<1> DEFINE Good == {room \in Nat : room <= n => Answering(d, g[room], room)}
<1>9. 0 \in Good
  <2>1. g[0] = none
    BY <1>1, <1>8
  <2>2. ASSUME NEW v \in V, Cardinality(IdsOf(d) \ v.stack) <= 0,
               Leads(d, v.stack, v.node), Fair(d, v.stack, v.visited)
        PROVE  Looping(d)
    <3>1. IsFiniteSet(IdsOf(d) \ v.stack)
      BY DocFacts, FS_Difference
    <3>2. Cardinality(IdsOf(d) \ v.stack) = 0
      BY <2>2, <3>1, FS_CardinalityType
    <3>3. IdsOf(d) \ v.stack = {} /\ v.node \in IdsOf(d) /\ v.stack \in SUBSET IdsOf(d)
      BY <3>1, <3>2, FS_EmptySet DEF Visits
    <3>4. v.stack \cup {v.node} = v.stack /\ v.stack # {}
      BY <3>3
    <3>5. \A s \in v.stack : DependsOn(d, s) \cap v.stack # {}
      BY <2>2, <3>4 DEF Leads
    <3> QED
      BY <3>3, <3>4, <3>5 DEF Looping
  <2>3. ASSUME NEW v \in V PROVE none[v] = Cycle
    BY DEF none
  <2>4. ASSUME NEW v \in V, Looping(d) PROVE Right(d, v.stack, v.visited, {v.node}, none[v])
    BY <2>3, <2>4 DEF Right, Fair
  <2>5. none \in [V -> Answers(d)]
    BY <1>2 DEF S
  <2>6. Answering(d, none, 0)
    BY <2>2, <2>4, <2>5 DEF Answering
  <2> QED
    BY <2>1, <2>6
<1>10. ASSUME NEW room \in Nat, room \in Good PROVE room + 1 \in Good
  <2>1. SUFFICES ASSUME room + 1 <= n PROVE Answering(d, g[room + 1], room + 1)
    OBVIOUS
  <2>2. PICK visit : visit = g[room]
    OBVIOUS
  <2>3. /\ room + 1 \in 0..n /\ (room + 1) - 1 = room /\ room + 1 # 0
        /\ Answering(d, visit, room)
    BY <1>1, <1>10, <2>1, <2>2
  <2>4. g[room + 1] = Entering(visit)
    BY <1>8, <2>2, <2>3
  <2>5. visit \in S
    BY <2>3 DEF Answering, S
  <2>6. Entering(visit) \in [V -> Answers(d)]
    BY <1>3, <2>5 DEF S
  <2>7. ASSUME NEW v \in V, Cardinality(IdsOf(d) \ v.stack) <= room + 1,
               Leads(d, v.stack, v.node), Fair(d, v.stack, v.visited)
        PROVE  Right(d, v.stack, v.visited, {v.node}, Entering(visit)[v])
    <3>1. Entering(visit)[v] = Enter(d, visit, v)
      BY DEF Entering
    <3>2. Right(d, v.stack, v.visited, {v.node}, Enter(d, visit, v))
      BY <2>3, <2>7, EnterRight
    <3> QED
      BY <3>1, <3>2
  <2> QED
    BY <2>4, <2>6, <2>7 DEF Answering
<1>11. n \in Good
  <2>1. \A room \in Nat : room \in Good => room + 1 \in Good
    BY <1>10
  <2> HIDE DEF Good
  <2> QED
    BY <1>1, <1>9, <2>1, Induction
<1> QED
  BY <1>1, <1>4, <1>11 DEF n

(* The search finds a cycle exactly when there is one.                     *)
LEMMA SearchExact ==
  ASSUME NEW d \in Docs, ReferencesKnown(d)
  PROVE  GraphAcyclic(d) <=> ~Looping(d)
<1>1. PICK nodes : nodes = SetToSeq(IdsOf(d))
  OBVIOUS
<1>2. nodes \in Seq(IdsOf(d)) /\ ToSet(nodes) = IdsOf(d)
  <2>1. IdsOf(d) \in SUBSET IdsOf(d) /\ IsFiniteSet(IdsOf(d))
    BY DocFacts
  <2> QED
    BY <1>1, <2>1, SubsetToSeq
<1>3. PICK answer : answer = VisitEach(Visit(d), nodes, {}, {})
  OBVIOUS
<1>4. PICK room \in Nat : room = Cardinality(IdsOf(d))
  BY DocFacts
<1>5. Fair(d, {}, {}) /\ {} \in Answers(d) /\ {} \in SUBSET IdsOf(d)
  BY DEF Fair, SettledIn, Answers, Cycle
<1>6. \A x \in ToSet(nodes) : Leads(d, {}, x)
  BY DEF Leads
<1>7. Cardinality(IdsOf(d) \ {}) <= room
  <2>1. IdsOf(d) \ {} = IdsOf(d)
    OBVIOUS
  <2> QED
    BY <1>4, <2>1
<1>8. PICK visit : visit = Visit(d) /\ Answering(d, visit, room)
  BY <1>4, VisitRight
<1>9. Right(d, {}, {}, ToSet(nodes), answer)
  BY <1>2, <1>3, <1>5, <1>6, <1>7, <1>8, EachRight
<1>10. GraphAcyclic(d) <=> answer # Cycle
  BY <1>1, <1>3 DEF GraphAcyclic
<1>11. ASSUME answer # Cycle, Looping(d) PROVE FALSE
  <2>1. SettledIn(d, answer) /\ IdsOf(d) \subseteq answer
    BY <1>2, <1>9, <1>11 DEF Right, Fair
  <2>2. PICK some \in SUBSET IdsOf(d) :
          some # {} /\ \A x \in some : DependsOn(d, x) \cap some # {}
    BY <1>11 DEF Looping
  <2> QED
    BY <2>1, <2>2 DEF SettledIn
<1>12. ASSUME answer = Cycle PROVE Looping(d)
  BY <1>9, <1>12 DEF Right, Fair
<1> QED
  BY <1>10, <1>11, <1>12


-----------------------------------------------------------------------------
(* The planners.                                                           *)

PlanStates ==
  [at : {"unstarted", "saving", "done", "killed"}, force : BOOLEAN, of : Docs, next : Nat]

PlanShape ==
  /\ doc \in Docs /\ IsFiniteSet(planned) /\ edited \in BOOLEAN /\ logged \subseteq Planners
  /\ decomposing \in [Planners -> PlanStates]

(* A planner that has started reads a valid file, the present one while    *)
(* that is unedited, and logs when it has saved every story.               *)
PlannerRight(p, mine) ==
  /\ mine.next \in 1..(Len(mine.of) + 1)
  /\ mine.at = "unstarted" => mine = Unstarted
  /\ mine.at # "unstarted" => IsValid(mine.of) /\ (~edited => mine.of = doc)
  /\ p \in logged <=> mine.at = "done"
  /\ mine.at = "done" => mine.next = Len(mine.of) + 1

(* The stories of a planner that have been saved, and the rows they left.  *)
SavedUpTo(mine) == 1..(mine.next - 1)

LastSaved(mine, i) == \A j \in SavedUpTo(mine) : mine.of[j].id = mine.of[i].id => j <= i

Stub(p, mine, i) ==
  [id |-> <<p, mine.of[i].id>>, story |-> mine.of[i].id,
   needs |-> {<<p, id>> : id \in mine.of[i].after \cap IdsOf(mine.of)}]

RowOf(p, mine, m) == \E i \in SavedUpTo(mine) : m = Stub(p, mine, i) /\ LastSaved(mine, i)

Kept(p, mine, rows) == \A i \in SavedUpTo(mine) : \E m \in rows : m.id = <<p, mine.of[i].id>>

PlanInv ==
  /\ PlanShape
  /\ \A p \in Planners : PlannerRight(p, decomposing[p]) /\ Kept(p, decomposing[p], planned)
  /\ \A m \in planned : \E p \in Planners : RowOf(p, decomposing[p], m)

(* A file of stories with different ids holds each one under its own id.   *)
LEMMA Unambiguous ==
  ASSUME NEW d \in Docs, ~Ambiguous(d)
  PROVE  \A i, j \in DOMAIN d : d[i].id = d[j].id => i = j
<1>1. PICK n \in Nat : n = Len(d) /\ DOMAIN d = 1..n /\ Cardinality(IdsOf(d)) = n
  BY DocFacts DEF Ambiguous
<1> DEFINE f == [i \in 1..n |-> d[i].id]
<1>2. f \in Surjection(1..n, IdsOf(d))
  BY <1>1 DEF Surjection, IdsOf
<1>3. IsFiniteSet(1..n) /\ Cardinality(1..n) = n
  BY FS_Interval
<1>4. f \in Injection(1..n, IdsOf(d))
  <2> HIDE DEF f
  <2> QED
    BY <1>1, <1>2, <1>3, FS_SurjSameCardinalityImpliesInj
<1>5. ASSUME NEW i \in 1..n, NEW j \in 1..n, d[i].id = d[j].id PROVE i = j
  <2>1. f[i] = f[j]
    BY <1>5
  <2> HIDE DEF f
  <2> QED
    BY <1>4, <2>1 DEF Injection, IsInjective
<1> QED
  BY <1>1, <1>5

DocEdges(d) == UNION {{d[i].id} \X d[i].after : i \in DOMAIN d}

LEMMA EdgesFit ==
  ASSUME NEW d \in Docs, ~Ambiguous(d), NEW x, NEW y
  PROVE  <<x, y>> \in DocEdges(d) <=> x \in IdsOf(d) /\ y \in DependsOn(d, x)
<1>1. ASSUME <<x, y>> \in DocEdges(d) PROVE x \in IdsOf(d) /\ y \in DependsOn(d, x)
  <2>1. PICK i \in DOMAIN d : x = d[i].id /\ y \in d[i].after
    BY <1>1 DEF DocEdges
  <2>2. x \in IdsOf(d)
    BY <2>1 DEF IdsOf
  <2>3. PICK j \in DOMAIN d : LastOf(d, x) = d[j] /\ d[j].id = x
    BY <2>2, LastOfFits
  <2>4. i = j
    BY <2>1, <2>3, Unambiguous
  <2> QED
    BY <2>1, <2>2, <2>3, <2>4 DEF DependsOn
<1>2. ASSUME x \in IdsOf(d), y \in DependsOn(d, x) PROVE <<x, y>> \in DocEdges(d)
  <2>1. PICK j \in DOMAIN d : LastOf(d, x) = d[j] /\ d[j].id = x
    BY <1>2, LastOfFits
  <2>2. y \in d[j].after
    BY <1>2, <2>1 DEF DependsOn
  <2>3. <<x, y>> \in {d[j].id} \X d[j].after
    BY <2>1, <2>2
  <2> QED
    BY <2>3 DEF DocEdges
<1> QED
  BY <1>1, <1>2

(* What the validation answers of such a file.                             *)
LEMMA ValidIs ==
  ASSUME NEW d \in Docs, ~Ambiguous(d), ReferencesKnown(d)
  PROVE  IsValid(d) <=> ~IsCyclic(DocEdges(d))
<1>1. IsValid(d) <=> ~Looping(d)
  BY SearchExact DEF IsValid
<1>2. ASSUME Looping(d) PROVE IsCyclic(DocEdges(d))
  <2>1. PICK nodes \in SUBSET IdsOf(d) :
          nodes # {} /\ \A x \in nodes : DependsOn(d, x) \cap nodes # {}
    BY <1>2 DEF Looping
  <2>2. ASSUME NEW x \in nodes PROVE \E y \in nodes : <<x, y>> \in DocEdges(d)
    <3>1. PICK y \in nodes : y \in DependsOn(d, x)
      BY <2>1
    <3> QED
      BY <3>1, EdgesFit
  <2>3. nodes \in SUBSET {e[1] : e \in DocEdges(d)}
    <3> SUFFICES ASSUME NEW x \in nodes PROVE \E e \in DocEdges(d) : x = e[1]
      OBVIOUS
    <3>1. PICK y \in nodes : <<x, y>> \in DocEdges(d)
      BY <2>2
    <3> QED
      BY <3>1
  <2> QED
    BY <2>1, <2>2, <2>3 DEF IsCyclic
<1>3. ASSUME IsCyclic(DocEdges(d)) PROVE Looping(d)
  <2>1. PICK nodes : /\ nodes \in SUBSET {e[1] : e \in DocEdges(d)} /\ nodes # {}
                     /\ \A x \in nodes : \E y \in nodes : <<x, y>> \in DocEdges(d)
    BY <1>3 DEF IsCyclic
  <2>2. ASSUME NEW x \in nodes PROVE x \in IdsOf(d) /\ DependsOn(d, x) \cap nodes # {}
    <3>1. PICK y \in nodes : <<x, y>> \in DocEdges(d)
      BY <2>1
    <3> QED
      BY <3>1, EdgesFit
  <2> QED
    BY <2>1, <2>2 DEF Looping
<1> QED
  BY <1>1, <1>2, <1>3

(* Where the planners begin, and what an edit leaves.                      *)
LEMMA DocsBegin == Documents \subseteq Docs /\ <<>> \in Docs
<1>1. <<>> \in Docs
  BY DEF Docs
<1>2. ASSUME NEW n \in Nat, NEW ids \in SUBSET (Nat \ {0}), NEW d \in [1..n -> Stories(ids)]
      PROVE  d \in Docs
  <2>1. \A i \in 1..n : d[i] \in DocStories
    BY DEF Stories, DocStories
  <2>2. d \in [1..n -> DocStories]
    BY <2>1
  <2> QED
    BY <2>2 DEF Docs
<1>3. ASSUME NEW d \in Documents PROVE d \in Docs
  <2>1. CASE d \in UNION {[1..n -> Stories({1, 2})] : n \in 0..ShortDocs}
    <3>1. PICK n \in 0..ShortDocs : d \in [1..n -> Stories({1, 2})]
      BY <2>1
    <3>2. n \in Nat /\ {1, 2} \in SUBSET (Nat \ {0})
      BY PlanConstants
    <3> QED
      BY <1>2, <3>1, <3>2
  <2>2. CASE d \in [1..StoryIds -> Stories(1..StoryIds)]
    <3>1. 1..StoryIds \in SUBSET (Nat \ {0}) /\ StoryIds \in Nat
      BY PlanConstants
    <3> QED
      BY <1>2, <2>2, <3>1
  <2>3. \/ d \in UNION {[1..n -> Stories({1, 2})] : n \in 0..ShortDocs}
        \/ d \in {e \in [1..StoryIds -> Stories(1..StoryIds)] : \A i \in 1..StoryIds : e[i].id = i}
    BY <1>3 DEF Documents
  <2> QED
    BY <2>1, <2>2, <2>3
<1> QED
  BY <1>1, <1>3

LEMMA DocsEdited ==
  ASSUME NEW d \in Docs, NEW i \in DOMAIN d
  PROVE  RemoveAt(d, i) \in Docs /\ [d EXCEPT ![i].after = {}] \in Docs
<1>1. PICK n \in Nat : n = Len(d) /\ DOMAIN d = 1..n /\ \A j \in 1..n : d[j] \in DocStories
  BY DocFacts DEF Docs
<1>2. RemoveAt(d, i) \in Docs
  <2>1. i \in 1..n /\ 1 \in Int /\ i - 1 \in Int /\ i + 1 \in Int /\ n \in Int
    BY <1>1
  <2>2. \A j \in 1..(i - 1) : d[j] \in DocStories
    BY <1>1, <2>1
  <2>3. \A j \in (i + 1)..n : d[j] \in DocStories
    BY <1>1, <2>1
  <2>4. SubSeq(d, 1, i - 1) \in Seq(DocStories)
    BY <2>1, <2>2, SubSeqProperties
  <2>5. SubSeq(d, i + 1, n) \in Seq(DocStories)
    BY <2>1, <2>3, SubSeqProperties
  <2>6. PICK a \in Seq(DocStories), b \in Seq(DocStories) :
          a = SubSeq(d, 1, i - 1) /\ b = SubSeq(d, i + 1, n)
    BY <2>4, <2>5
  <2>7. a \o b \in Seq(DocStories)
    OBVIOUS
  <2> QED
    BY <1>1, <2>6, <2>7 DEF RemoveAt, Docs
<1>3. [d EXCEPT ![i].after = {}] \in Docs
  <2>1. PICK e : e = [d[i] EXCEPT !.after = {}]
    OBVIOUS
  <2>2. e \in DocStories
    BY <1>1, <2>1 DEF DocStories
  <2>3. [d EXCEPT ![i] = e] \in Seq(DocStories)
    BY <2>2 DEF Docs
  <2>4. [d EXCEPT ![i].after = {}] = [d EXCEPT ![i] = e]
    BY <2>1
  <2> QED
    BY <2>3, <2>4 DEF Docs
<1> QED
  BY <1>2, <1>3

LEMMA PlansBegin == PlanInit => PlanInv
<1> SUFFICES ASSUME PlanInit PROVE PlanInv
  OBVIOUS
<1> USE DEF PlanInit
<1>1. doc \in Docs /\ IsFiniteSet(planned) /\ edited \in BOOLEAN /\ logged \subseteq Planners
  BY DocsBegin, FS_EmptySet
<1>2. Unstarted \in PlanStates
  BY DocsBegin DEF Unstarted, PlanStates
<1>3. PlanShape
  BY <1>1, <1>2 DEF PlanShape
<1>4. ASSUME NEW p \in Planners PROVE PlannerRight(p, decomposing[p]) /\ Kept(p, decomposing[p], planned)
  <2>1. decomposing[p] = Unstarted
    OBVIOUS
  <2>2. /\ decomposing[p].next = 1 /\ decomposing[p].of = <<>>
        /\ decomposing[p].at = "unstarted"
    BY <2>1 DEF Unstarted
  <2>3. SavedUpTo(decomposing[p]) = {}
    BY <2>2 DEF SavedUpTo
  <2> QED
    BY <2>1, <2>2, <2>3 DEF PlannerRight, Kept
<1> QED
  BY <1>3, <1>4 DEF PlanInv

(* A step of one planner.                                                  *)
LEMMA PlannerMoves ==
  ASSUME PlanShape, NEW p \in Planners, NEW new, SetPlanner(p, new)
  PROVE  /\ decomposing'[p] = new
         /\ \A q \in Planners : q # p => decomposing'[q] = decomposing[q]
         /\ new \in PlanStates => decomposing' \in [Planners -> PlanStates]
BY DEF PlanShape, SetPlanner

(* Nothing is said of a planner but by its own record, the file, the edit  *)
(* and the ledger.                                                         *)
LEMMA OthersStay ==
  ASSUME PlanInv, NEW p \in Planners, NEW new, SetPlanner(p, new),
         UNCHANGED <<doc, edited>>, \A q \in Planners : q # p => (q \in logged' <=> q \in logged)
  PROVE  \A q \in Planners : q # p => PlannerRight(q, decomposing[q])'
<1> SUFFICES ASSUME NEW q \in Planners, q # p PROVE PlannerRight(q, decomposing[q])'
  OBVIOUS
<1>1. PlannerRight(q, decomposing[q]) /\ decomposing'[q] = decomposing[q]
  BY PlannerMoves DEF PlanInv
<1>2. q \in logged' <=> q \in logged
  OBVIOUS
<1> QED
  BY <1>1, <1>2 DEF PlannerRight

(* A step that saves nothing leaves the rows right.                        *)
LEMMA RowsStay ==
  ASSUME PlanInv, NEW p \in Planners, NEW new, SetPlanner(p, new), planned' = planned,
         \/ decomposing[p].next = 1 /\ new.next = 1
         \/ new.next = decomposing[p].next /\ new.of = decomposing[p].of
  PROVE  /\ \A q \in Planners : Kept(q, decomposing'[q], planned')
         /\ \A m \in planned' : \E q \in Planners : RowOf(q, decomposing'[q], m)
<1> DEFINE mine == decomposing[p]
<1>1. /\ decomposing'[p] = new
      /\ \A q \in Planners : q # p => decomposing'[q] = decomposing[q]
  BY PlannerMoves DEF PlanInv
<1>2. Kept(p, new, planned) /\ \A m : RowOf(p, mine, m) => RowOf(p, new, m)
  <2>1. Kept(p, mine, planned)
    BY DEF PlanInv
  <2>2. CASE mine.next = 1 /\ new.next = 1
    <3>1. SavedUpTo(mine) = {} /\ SavedUpTo(new) = {}
      BY <2>2 DEF SavedUpTo
    <3> QED
      BY <3>1 DEF RowOf, Kept
  <2>3. CASE new.next = mine.next /\ new.of = mine.of
    BY <2>1, <2>3 DEF Kept, RowOf, LastSaved, Stub, SavedUpTo
  <2> QED
    BY <2>2, <2>3
<1>3. ASSUME NEW q \in Planners PROVE Kept(q, decomposing'[q], planned')
  BY <1>1, <1>2 DEF PlanInv
<1>4. ASSUME NEW m \in planned' PROVE \E q \in Planners : RowOf(q, decomposing'[q], m)
  <2>1. PICK q \in Planners : RowOf(q, decomposing[q], m)
    BY DEF PlanInv
  <2> QED
    BY <1>1, <1>2, <2>1
<1> QED
  BY <1>3, <1>4

LEMMA DecomposeKeeps ==
  ASSUME PlanInv, NEW p \in Planners, NEW force \in BOOLEAN, Decompose(p, force)
  PROVE  PlanInv'
<1> DEFINE new == [at |-> "saving", force |-> force, of |-> doc, next |-> 1]
<1>1. /\ decomposing[p].at = "unstarted" /\ IsValid(doc) /\ SetPlanner(p, new)
      /\ UNCHANGED <<doc, planned, logged, edited>>
  BY DEF Decompose
<1>2. decomposing[p] = Unstarted /\ p \notin logged /\ PlanShape
  BY <1>1 DEF PlanInv, PlannerRight
<1>3. new \in PlanStates
  BY <1>2 DEF PlanShape, PlanStates
<1>4. PlanShape'
  BY <1>1, <1>2, <1>3, PlannerMoves DEF PlanShape
<1>5. PlannerRight(p, decomposing[p])'
  <2>1. decomposing'[p] = new
    BY <1>1, <1>2, PlannerMoves
  <2>2. Len(doc) \in Nat
    BY <1>2, DocFacts DEF PlanShape
  <2> QED
    BY <1>1, <1>2, <2>1, <2>2 DEF PlannerRight
<1>6. decomposing[p].next = 1 /\ new.next = 1
  BY <1>2 DEF Unstarted
<1>7. /\ \A q \in Planners : Kept(q, decomposing'[q], planned')
      /\ \A m \in planned' : \E q \in Planners : RowOf(q, decomposing'[q], m)
  <2> HIDE DEF new
  <2> QED
    BY <1>1, <1>6, RowsStay
<1>8. \A q \in Planners : q # p => PlannerRight(q, decomposing[q])'
  <2> HIDE DEF new
  <2> QED
    BY <1>1, OthersStay
<1> QED
  BY <1>4, <1>5, <1>7, <1>8 DEF PlanInv

LEMMA EndKeeps ==
  ASSUME PlanInv, NEW p \in Planners, LogDecomposed(p) \/ PlannerKilled(p)
  PROVE  PlanInv'
<1>1. PICK mine : mine = decomposing[p]
  OBVIOUS
<1>2. PICK ending \in {"done", "killed"} :
        /\ mine.at = "saving" /\ SetPlanner(p, [mine EXCEPT !.at = ending])
        /\ UNCHANGED <<doc, planned, edited>>
        /\ ending = "done" => mine.next > Len(mine.of) /\ logged' = logged \cup {p}
        /\ ending = "killed" => logged' = logged
  BY <1>1 DEF LogDecomposed, PlannerKilled
<1>3. PICK new : new = [mine EXCEPT !.at = ending]
  OBVIOUS
<1>4. PlanShape /\ PlannerRight(p, mine) /\ mine \in PlanStates
  BY <1>1 DEF PlanInv, PlanShape
<1>5. /\ new \in PlanStates /\ new.at = ending /\ new.of = mine.of /\ new.next = mine.next
      /\ SetPlanner(p, new)
  BY <1>2, <1>3, <1>4 DEF PlanStates
<1>6. PlanShape'
  BY <1>2, <1>4, <1>5, PlannerMoves DEF PlanShape
<1>7. PlannerRight(p, decomposing[p])'
  <2>1. decomposing'[p] = new
    BY <1>4, <1>5, PlannerMoves
  <2>2. Len(mine.of) \in Nat /\ mine.next \in 1..(Len(mine.of) + 1)
    BY <1>4, DocFacts DEF PlannerRight, PlanStates
  <2>3. p \in logged' <=> ending = "done"
    BY <1>2, <1>4 DEF PlannerRight
  <2>4. ending = "done" => mine.next = Len(mine.of) + 1
    BY <1>2, <2>2
  <2>5. IsValid(mine.of) /\ (~edited => mine.of = doc)
    BY <1>2, <1>4 DEF PlannerRight
  <2> QED
    BY <1>2, <1>5, <2>1, <2>2, <2>3, <2>4, <2>5 DEF PlannerRight
<1>8. /\ \A q \in Planners : Kept(q, decomposing'[q], planned')
      /\ \A m \in planned' : \E q \in Planners : RowOf(q, decomposing'[q], m)
  BY <1>1, <1>2, <1>5, RowsStay
<1>9. \A q \in Planners : q # p => PlannerRight(q, decomposing[q])'
  <2>1. \A q \in Planners : q # p => (q \in logged' <=> q \in logged)
    BY <1>2
  <2> QED
    BY <1>2, <1>5, <2>1, OthersStay
<1> QED
  BY <1>6, <1>7, <1>8, <1>9 DEF PlanInv

LEMMA StubKeeps ==
  ASSUME PlanInv, NEW p \in Planners, SaveStub(p)
  PROVE  PlanInv'
<1>1. PICK mine, n : mine = decomposing[p] /\ n = mine.next
  OBVIOUS
<1>2. PICK new, stub : new = [mine EXCEPT !.next = n + 1] /\ stub = Stub(p, mine, n)
  OBVIOUS
<1>3. stub = StoryToManifest(p, decomposing[p].of[decomposing[p].next])
  BY <1>1, <1>2 DEF Stub, StoryToManifest
<1>4. /\ mine.at = "saving" /\ n <= Len(mine.of) /\ SetPlanner(p, new)
      /\ planned' = {m \in planned : m.id # stub.id} \cup {stub}
      /\ UNCHANGED <<doc, logged, edited>>
  BY <1>1, <1>2, <1>3 DEF SaveStub
<1>5. PlanShape /\ PlannerRight(p, mine) /\ mine \in PlanStates
  BY <1>1 DEF PlanInv, PlanShape
<1>6. Len(mine.of) \in Nat /\ n \in 1..Len(mine.of)
  BY <1>1, <1>4, <1>5, DocFacts DEF PlannerRight, PlanStates
<1>7. new \in PlanStates /\ new.next = n + 1 /\ new.of = mine.of /\ new.at = "saving"
  BY <1>2, <1>4, <1>5, <1>6 DEF PlanStates
<1>8. /\ decomposing'[p] = new
      /\ \A q \in Planners : q # p => decomposing'[q] = decomposing[q]
  BY <1>4, <1>5, PlannerMoves
<1>9. PlanShape'
  <2>1. IsFiniteSet(planned')
    <3>1. PICK others : others = {m \in planned : m.id # stub.id}
      OBVIOUS
    <3>2. IsFiniteSet(others)
      <4>1. others \in SUBSET planned
        BY <3>1
      <4> QED
        BY <1>5, <4>1, FS_Subset DEF PlanShape
    <3> QED
      BY <1>4, <3>1, <3>2, FS_AddElement
  <2> QED
    BY <1>4, <1>5, <1>7, <2>1, PlannerMoves DEF PlanShape
<1>10. PlannerRight(p, decomposing[p])'
  <2>1. new.next \in 1..(Len(new.of) + 1)
    BY <1>6, <1>7
  <2>2. p \notin logged /\ IsValid(mine.of) /\ (~edited => mine.of = doc)
    BY <1>4, <1>5 DEF PlannerRight
  <2> QED
    BY <1>4, <1>7, <1>8, <2>1, <2>2 DEF PlannerRight
<1>11. \A q \in Planners : q # p => PlannerRight(q, decomposing[q])'
  BY <1>4, OthersStay
<1>12. /\ SavedUpTo(mine) = 1..(n - 1) /\ SavedUpTo(new) = 1..n
       /\ \A i : Stub(p, new, i) = Stub(p, mine, i)
  BY <1>1, <1>6, <1>7 DEF SavedUpTo, Stub
<1>13. stub.id = <<p, mine.of[n].id>>
  BY <1>2 DEF Stub
<1>14. ASSUME NEW q \in Planners PROVE Kept(q, decomposing'[q], planned')
  <2>1. CASE q # p
    <3>1. ASSUME NEW i \in SavedUpTo(decomposing[q])
          PROVE  \E m \in planned' : m.id = <<q, decomposing[q].of[i].id>>
      <4>1. PICK m \in planned : m.id = <<q, decomposing[q].of[i].id>>
        BY DEF PlanInv, Kept
      <4>2. m.id # stub.id
        BY <1>13, <2>1, <4>1
      <4> QED
        BY <1>4, <4>1, <4>2
    <3> QED
      BY <1>8, <2>1, <3>1 DEF Kept
  <2>2. CASE q = p
    <3>1. ASSUME NEW i \in 1..n PROVE \E m \in planned' : m.id = <<p, mine.of[i].id>>
      <4>1. CASE mine.of[i].id = mine.of[n].id
        BY <1>4, <1>13, <4>1
      <4>2. CASE mine.of[i].id # mine.of[n].id
        <5>1. i \in SavedUpTo(mine)
          BY <1>6, <1>12, <4>2
        <5>2. PICK m \in planned : m.id = <<p, mine.of[i].id>>
          BY <1>1, <5>1 DEF PlanInv, Kept
        <5>3. m.id # stub.id
          BY <1>13, <4>2, <5>2
        <5> QED
          BY <1>4, <5>2, <5>3
      <4> QED
        BY <4>1, <4>2
    <3> QED
      BY <1>7, <1>8, <1>12, <2>2, <3>1 DEF Kept
  <2> QED
    BY <2>1, <2>2
<1>15. ASSUME NEW m \in planned' PROVE \E q \in Planners : RowOf(q, decomposing'[q], m)
  <2>1. CASE m = stub
    <3>1. LastSaved(new, n)
      BY <1>6, <1>12 DEF LastSaved
    <3>2. RowOf(p, new, m)
      BY <1>2, <1>6, <1>12, <2>1, <3>1 DEF RowOf
    <3> QED
      BY <1>8, <3>2
  <2>2. CASE m \in planned /\ m.id # stub.id
    <3>1. PICK q \in Planners : RowOf(q, decomposing[q], m)
      BY <2>2 DEF PlanInv
    <3>2. CASE q = p
      <4>1. PICK i \in 1..(n - 1) : m = Stub(p, mine, i) /\ LastSaved(mine, i)
        BY <1>1, <1>12, <3>1, <3>2 DEF RowOf
      <4>2. mine.of[i].id # mine.of[n].id
        BY <1>13, <2>2, <4>1 DEF Stub
      <4>3. ASSUME NEW j \in 1..n, mine.of[j].id = mine.of[i].id PROVE j <= i
        <5>1. j \in 1..(n - 1)
          BY <1>6, <4>2, <4>3
        <5> QED
          BY <1>12, <4>1, <4>3, <5>1 DEF LastSaved
      <4>4. LastSaved(new, i) /\ i \in 1..n
        BY <1>6, <1>7, <1>12, <4>3 DEF LastSaved
      <4>5. RowOf(p, new, m)
        BY <1>12, <4>1, <4>4 DEF RowOf
      <4> QED
        BY <1>8, <4>5
    <3>3. CASE q # p
      BY <1>8, <3>1, <3>3
    <3> QED
      BY <3>2, <3>3
  <2> QED
    BY <1>4, <2>1, <2>2
<1> QED
  BY <1>9, <1>10, <1>11, <1>14, <1>15 DEF PlanInv

LEMMA EditKeeps == PlanInv /\ EditSpec => PlanInv'
<1> SUFFICES ASSUME PlanInv, EditSpec PROVE PlanInv'
  OBVIOUS
<1>1. ~edited /\ edited' = TRUE /\ UNCHANGED <<planned, decomposing, logged>>
  BY DEF EditSpec
<1>2. PICK i \in DOMAIN doc : doc' \in {RemoveAt(doc, i), [doc EXCEPT ![i].after = {}]}
  BY DEF EditSpec
<1>3. doc' \in Docs
  BY <1>2, DocsEdited DEF PlanInv, PlanShape
<1>4. PlanShape'
  BY <1>1, <1>3 DEF PlanInv, PlanShape
<1>5. ASSUME NEW p \in Planners PROVE PlannerRight(p, decomposing[p])'
  BY <1>1 DEF PlanInv, PlannerRight
<1> QED
  BY <1>1, <1>4, <1>5 DEF PlanInv

LEMMA PlansKeep == PlanInv /\ [PlanNext]_planVars => PlanInv'
<1> SUFFICES ASSUME PlanInv, [PlanNext]_planVars PROVE PlanInv'
  OBVIOUS
<1>1. CASE \E p \in Planners : \E force \in BOOLEAN : Decompose(p, force)
  BY <1>1, DecomposeKeeps
<1>2. CASE \E p \in Planners : SaveStub(p)
  BY <1>2, StubKeeps
<1>3. CASE \E p \in Planners : LogDecomposed(p) \/ PlannerKilled(p)
  BY <1>3, EndKeeps
<1>4. CASE EditSpec
  BY <1>4, EditKeeps
<1>5. CASE UNCHANGED planVars
  <2>1. UNCHANGED <<doc, planned, decomposing, logged, edited>>
    BY <1>5 DEF planVars
  <2>2. PlanShape'
    BY <2>1 DEF PlanInv, PlanShape
  <2> QED
    BY <2>1, <2>2 DEF PlanInv, PlannerRight
<1> QED
  BY <1>1, <1>2, <1>3, <1>4, <1>5 DEF PlanNext

(* What the invariant says of the rows.                                    *)
LEMMA RowFacts ==
  ASSUME PlanInv, NEW p \in Planners, NEW m \in planned, m.id[1] = p
  PROVE  /\ RowOf(p, decomposing[p], m)
         /\ m.id = <<p, m.story>> /\ m.story \in IdsOf(decomposing[p].of)
         /\ decomposing[p].at # "unstarted"
<1>1. PICK q \in Planners : RowOf(q, decomposing[q], m)
  BY DEF PlanInv
<1>2. PICK mine : mine = decomposing[q] /\ PlannerRight(q, mine) /\ mine \in PlanStates
  BY DEF PlanInv, PlanShape
<1>3. PICK i \in SavedUpTo(mine) : m = Stub(q, mine, i)
  BY <1>1, <1>2 DEF RowOf
<1>4. q = p /\ m.id = <<p, m.story>> /\ m.story = mine.of[i].id
  BY <1>3 DEF Stub
<1>5. DOMAIN mine.of = 1..Len(mine.of) /\ Len(mine.of) \in Nat
  BY <1>2, DocFacts DEF PlanStates
<1>6. i \in DOMAIN mine.of /\ mine.next # 1
  BY <1>2, <1>3, <1>5 DEF SavedUpTo, PlannerRight
<1>7. mine.at # "unstarted"
  BY <1>2, <1>6 DEF PlannerRight, Unstarted
<1> QED
  BY <1>1, <1>2, <1>4, <1>6, <1>7 DEF IdsOf

(* A row of a planner that is through, or whose file is unambiguous, needs *)
(* what the file says of its story.                                        *)
LEMMA RowNeeds ==
  ASSUME PlanInv, NEW p \in Planners, NEW m \in planned, m.id[1] = p,
         decomposing[p].at = "done" \/ ~Ambiguous(decomposing[p].of)
  PROVE  \A id : <<p, id>> \in m.needs => id \in DependsOn(decomposing[p].of, m.story)
<1>1. PICK mine : mine = decomposing[p] /\ PlannerRight(p, mine) /\ mine \in PlanStates
  BY DEF PlanInv, PlanShape
<1>2. PICK of, n : of = mine.of /\ n = Len(of) /\ of \in Docs
  BY <1>1 DEF PlanStates
<1>3. n \in Nat /\ DOMAIN of = 1..n /\ mine.next \in 1..(n + 1)
  BY <1>1, <1>2, DocFacts DEF PlannerRight
<1>4. PICK i \in SavedUpTo(mine) : m = Stub(p, mine, i) /\ LastSaved(mine, i)
  BY <1>1, RowFacts DEF RowOf
<1>5. /\ i \in 1..n /\ m.story = of[i].id
      /\ \A id : <<p, id>> \in m.needs => id \in of[i].after
  BY <1>2, <1>3, <1>4 DEF Stub, SavedUpTo
<1>6. PICK j \in DOMAIN of : /\ LastOf(of, m.story) = of[j] /\ of[j].id = m.story
                             /\ \A x \in DOMAIN of : of[x].id = m.story => x <= j
  BY <1>2, <1>3, <1>5, LastOfFits DEF IdsOf
<1>7. j = i
  <2>1. CASE mine.at = "done"
    <3>1. j \in SavedUpTo(mine)
      BY <1>1, <1>2, <1>3, <2>1 DEF PlannerRight, SavedUpTo
    <3>2. j <= i /\ i <= j
      BY <1>2, <1>3, <1>4, <1>5, <1>6, <3>1 DEF LastSaved
    <3> QED
      BY <1>3, <1>5, <3>2
  <2>2. CASE ~Ambiguous(of)
    BY <1>2, <1>3, <1>5, <1>6, <2>2, Unambiguous
  <2> QED
    BY <1>1, <1>2, <2>1, <2>2
<1> QED
  BY <1>1, <1>2, <1>5, <1>6, <1>7 DEF DependsOn

LEMMA RowsHaveOrder == PlanInv => ~IsCyclic(RowEdges) \/ HalfAmbiguous
<1> SUFFICES ASSUME PlanInv, IsCyclic(RowEdges), ~HalfAmbiguous PROVE FALSE
  OBVIOUS
<1>1. PICK nodes : /\ nodes \in SUBSET {e[1] : e \in RowEdges} /\ nodes # {}
                   /\ \A x \in nodes : \E y \in nodes : <<x, y>> \in RowEdges
  BY DEF IsCyclic
<1>2. nodes \subseteq planned /\ \A x \in nodes : \E y \in nodes : y.id \in x.needs
  BY <1>1 DEF RowEdges
<1>3. PICK first \in nodes : TRUE
  BY <1>1
<1>4. PICK p \in Planners : RowOf(p, decomposing[p], first)
  BY <1>2, <1>3 DEF PlanInv
<1>5. first.id[1] = p
  BY <1>4 DEF RowOf, Stub
<1>6. PICK of : of = decomposing[p].of
  OBVIOUS
<1>7. of \in Docs /\ IsValid(of)
  <2>1. decomposing[p].at # "unstarted"
    BY <1>2, <1>3, <1>5, RowFacts
  <2> QED
    BY <1>6, <2>1 DEF PlanInv, PlanShape, PlanStates, PlannerRight
<1>8. decomposing[p].at = "done" \/ ~Ambiguous(of)
  BY <1>6 DEF HalfAmbiguous
<1> DEFINE own == {m \in nodes : m.id[1] = p}
           ids == {m.story : m \in own}
<1>9. ids \in SUBSET IdsOf(of) /\ ids # {}
  <2>1. ASSUME NEW m \in own PROVE m.story \in IdsOf(of)
    BY <1>2, <1>6, RowFacts
  <2> QED
    BY <1>3, <1>5, <2>1
<1>10. ASSUME NEW x \in ids PROVE DependsOn(of, x) \cap ids # {}
  <2>1. PICK m \in own : x = m.story
    OBVIOUS
  <2>2. PICK y \in nodes : y.id \in m.needs
    BY <1>2
  <2>3. PICK i : m = Stub(p, decomposing[p], i)
    BY <1>2, RowFacts DEF RowOf
  <2>4. PICK id : y.id = <<p, id>>
    BY <2>2, <2>3 DEF Stub
  <2>5. y \in own /\ y.story = id
    <3>1. y \in own
      BY <2>4
    <3>2. y.id = <<p, y.story>>
      BY <1>2, <2>4, RowFacts
    <3> QED
      BY <2>4, <3>1, <3>2
  <2>6. id \in DependsOn(of, x)
    BY <1>2, <1>6, <1>8, <2>1, <2>2, <2>4, RowNeeds
  <2> QED
    BY <2>5, <2>6
<1>11. Looping(of)
  <2> HIDE DEF ids
  <2> QED
    BY <1>9, <1>10 DEF Looping
<1> QED
  BY <1>7, <1>11, SearchExact DEF IsValid

LEMMA WholeDecomposition == PlanInv => DecompositionWhole
<1> SUFFICES ASSUME PlanInv, NEW p \in logged
             PROVE  LET own == {m \in planned : m.id[1] = p}
                    IN  /\ {m.story : m \in own} = IdsOf(decomposing[p].of)
                        /\ \A m \in own : m.needs \subseteq {n.id : n \in own}
  BY DEF DecompositionWhole
<1> DEFINE own == {m \in planned : m.id[1] = p}
<1>1. PICK mine : mine = decomposing[p] /\ PlannerRight(p, mine) /\ mine \in PlanStates
  BY DEF PlanInv, PlanShape
<1>2. p \in Planners /\ Kept(p, mine, planned)
  BY <1>1 DEF PlanInv, PlanShape
<1>3. SavedUpTo(mine) = DOMAIN mine.of
  <2>1. DOMAIN mine.of = 1..Len(mine.of) /\ Len(mine.of) \in Nat
    BY <1>1, DocFacts DEF PlanStates
  <2> QED
    BY <1>1, <2>1 DEF PlannerRight, SavedUpTo
<1>4. ASSUME NEW id \in IdsOf(mine.of) PROVE \E m \in own : m.id = <<p, id>> /\ m.story = id
  <2>1. PICK i \in DOMAIN mine.of : id = mine.of[i].id
    BY DEF IdsOf
  <2>2. PICK m \in planned : m.id = <<p, id>>
    BY <1>2, <1>3, <2>1 DEF Kept
  <2>3. m.id[1] = p
    BY <2>2
  <2>4. m.id = <<p, m.story>>
    BY <1>2, <2>3, RowFacts
  <2> QED
    BY <2>2, <2>3, <2>4
<1>5. ASSUME NEW m \in own PROVE m.story \in IdsOf(mine.of) /\ m.needs \subseteq {n.id : n \in own}
  <2>1. m.story \in IdsOf(mine.of) /\ RowOf(p, mine, m)
    BY <1>1, <1>2, RowFacts
  <2>2. PICK i : m = Stub(p, mine, i)
    BY <2>1 DEF RowOf
  <2>3. ASSUME NEW x \in m.needs PROVE x \in {n.id : n \in own}
    <3>1. PICK id \in IdsOf(mine.of) : x = <<p, id>>
      BY <2>2, <2>3 DEF Stub
    <3> QED
      BY <1>4, <3>1
  <2> QED
    BY <2>1, <2>3
<1>6. {m.story : m \in own} = IdsOf(mine.of)
  <2> HIDE DEF own
  <2> QED
    BY <1>4, <1>5
<1> QED
  BY <1>1, <1>5, <1>6

LEMMA OneRowEach == PlanInv => OneEach
<1> SUFFICES ASSUME PlanInv, Unhurried, NEW s \in StoriesPlanned
             PROVE  Cardinality(TreeRow(s)) = 1
  BY DEF OneEach
<1>1. PICK m \in planned : m.story = s
  BY DEF StoriesPlanned
<1>2. ASSUME NEW n \in planned PROVE \E p \in Planners : RowOf(p, decomposing[p], n) /\ n.id[1] = p
  <2>1. PICK p \in Planners : RowOf(p, decomposing[p], n)
    BY DEF PlanInv
  <2>2. PICK i : n = Stub(p, decomposing[p], i)
    BY <2>1 DEF RowOf
  <2>3. n.id[1] = p
    BY <2>2 DEF Stub
  <2> QED
    BY <2>1, <2>3
<1>3. PICK p \in Planners : RowOf(p, decomposing[p], m) /\ m.id[1] = p
  BY <1>2
<1>4. ASSUME NEW n \in planned, n.story = s PROVE n = m
  <2>1. PICK q \in Planners : RowOf(q, decomposing[q], n) /\ n.id[1] = q
    BY <1>2
  <2>2. decomposing[p].at # "unstarted" /\ decomposing[q].at # "unstarted"
    BY <1>3, <2>1, RowFacts
  <2>3. p = q
    BY <2>2 DEF Unhurried
  <2>4. PICK mine : mine = decomposing[p] /\ PlannerRight(p, mine) /\ mine \in PlanStates
    BY DEF PlanInv, PlanShape
  <2>5. PICK i \in SavedUpTo(mine) : m = Stub(p, mine, i) /\ LastSaved(mine, i)
    BY <1>3, <2>4 DEF RowOf
  <2>6. PICK j \in SavedUpTo(mine) : n = Stub(p, mine, j) /\ LastSaved(mine, j)
    BY <2>1, <2>3, <2>4 DEF RowOf
  <2>7. mine.of[i].id = s /\ mine.of[j].id = s
    BY <1>1, <1>4, <2>5, <2>6 DEF Stub
  <2>8. i <= j /\ j <= i
    BY <2>5, <2>6, <2>7 DEF LastSaved
  <2>9. i = j
    BY <2>4, <2>8 DEF SavedUpTo, PlannerRight
  <2> QED
    BY <2>5, <2>6, <2>9
<1>5. TreeRow(s) = {m}
  BY <1>1, <1>4 DEF TreeRow
<1> QED
  BY <1>5, FS_Singleton

LEMMA NothingToReconcile == PlanInv => ReconciledWhole
<1> SUFFICES ASSUME PlanInv, NEW p \in logged, ~edited
             PROVE  ReconcileSpec.added = {} /\ ReconcileSpec.orphaned = {}
  BY DEF ReconciledWhole
<1>1. p \in Planners
  BY DEF PlanInv, PlanShape
<1>2. ASSUME NEW q \in Planners, decomposing[q].at # "unstarted" PROVE decomposing[q].of = doc
  BY <1>2 DEF PlanInv, PlannerRight
<1>3. decomposing[p].of = doc
  BY <1>1, <1>2 DEF PlanInv, PlannerRight
<1>4. IdsOf(doc) \subseteq StoriesPlanned
  <2>1. {m.story : m \in {n \in planned : n.id[1] = p}} = IdsOf(doc)
    BY <1>3, WholeDecomposition DEF DecompositionWhole
  <2> QED
    BY <2>1 DEF StoriesPlanned
<1>5. StoriesPlanned \subseteq IdsOf(doc)
  <2> SUFFICES ASSUME NEW m \in planned PROVE m.story \in IdsOf(doc)
    BY DEF StoriesPlanned
  <2>1. PICK q \in Planners : RowOf(q, decomposing[q], m)
    BY DEF PlanInv
  <2>2. PICK i : m = Stub(q, decomposing[q], i)
    BY <2>1 DEF RowOf
  <2>3. m.id[1] = q
    BY <2>2 DEF Stub
  <2> QED
    BY <1>2, <2>3, RowFacts
<1> QED
  BY <1>4, <1>5 DEF ReconcileSpec

(* Whatever overlaps, is killed, forced or edited, the build order is given *)
(* exactly when there is one, and the decompositions are whole.            *)
THEOREM PlansAreSound == PlanSpec => []PlansSound
<1>1. PlanInv => PlansSound
  <2> SUFFICES ASSUME PlanInv PROVE PlansSound
    OBVIOUS
  <2>1. doc \in Docs /\ IsFiniteSet(planned)
    BY DEF PlanInv, PlanShape
  <2>2. ValidationExact
    BY <2>1, ValidIs DEF ValidationExact, Ambiguous, DocEdges
  <2>3. OrderExact
    BY <2>1, OrderIs, RowsHaveOrder DEF OrderExact
  <2> QED
    BY <2>2, <2>3, WholeDecomposition, OneRowEach, NothingToReconcile DEF PlansSound
<1> QED
  BY <1>1, PlansBegin, PlansKeep, PTL DEF PlanSpec
=============================================================================
