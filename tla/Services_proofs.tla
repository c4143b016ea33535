--------------------------- MODULE Services_proofs ---------------------------
(***************************************************************************)
(* Theorems about the services that ces builds on and the files they leave:*)
(* how a command is run, how the store is opened, what a semantic review   *)
(* and an intake contract are worth when they are used, what a build       *)
(* merges, what the report of a session and a plan of readiness say, and   *)
(* what a harness evolves into.                                            *)
(***************************************************************************)
EXTENDS MCServices, BuilderGuidance, IterationRules, FiniteSetTheorems, SequenceTheorems, TLAPS


-----------------------------------------------------------------------------
(* The command runner.  What a caller may rely on when it returns is       *)
(* decided by what it waited for earlier, while processes went on forking: *)
(* a process group that has been killed stays empty, and pipes that nobody *)
(* holds stay closed, because a child has no more than its parent.         *)

LeaderTraits == traits[Leader].grouped /\ traits[Leader].holds

RunnerBehind ==
  /\ calling = "drain" => runner = "async" /\ LeaderGone
  /\ calling = "regrace" => Group = {}
  /\ calling = "collect" => runner = "async" /\ LeaderGone
  /\ timedOut => calling \in {"terminate", "grace", "kill", "regrace", "collect", "done"}
  /\ calling = "done" /\ result.timed_out =>
       LeaderGone /\ (runner = "sync" => Group = {} \/ PipesClosed)
  /\ calling = "done" /\ result.code = "own" =>
       LeaderGone /\ (runner # "runtime" => PipesClosed)

RunnerInv == RunnerTypeOK /\ LeaderTraits /\ RunnerBehind

LEMMA RunnerInitial == RunnerInit => RunnerInv
<1> SUFFICES ASSUME RunnerInit PROVE RunnerInv
  OBVIOUS
<1>1. /\ traits \in [Members -> Traits] /\ LeaderTraits
      /\ alive = {Leader} /\ forked = {Leader} /\ Leader \in Members
  BY DEF RunnerInit, LeaderTraits, Members
<1>2. runner \in Runners /\ calling \in {"feed", "wait", "start"}
  BY DEF RunnerInit, Runners
<1>3. reads \in BOOLEAN
  BY Zenon DEF RunnerInit
<1>4. result = NoResult /\ timedOut = FALSE /\ interrupts = 0
  BY DEF RunnerInit
<1>5. interrupts \in 0..MaxInterrupts
  BY <1>4, RunnerConstants
<1>6. RunnerTypeOK
  BY <1>1, <1>2, <1>3, <1>4, <1>5 DEF RunnerTypeOK, Labels, Results, NoResult
<1>7. RunnerBehind
  BY <1>2, <1>4 DEF RunnerBehind
<1> QED
  BY <1>1, <1>6, <1>7 DEF RunnerInv

\* forks and exits bring nobody into an empty group or to closed pipes
LEMMA ProcessesKeep ==
  ASSUME RunnerInv,
         \/ \E p \in Members : Exit(p)
         \/ \E p \in Members, c \in Descendants : Fork(p, c)
  PROVE  /\ RunnerInv'
         /\ UNCHANGED <<runner, calling, result, timedOut>>
<1>1. /\ UNCHANGED <<runner, traits, reads, calling, result, timedOut, interrupts>>
      /\ alive' \subseteq forked' /\ forked' \subseteq Members
  BY DEF RunnerInv, RunnerTypeOK, Exit, Fork, Members
<1>2. LeaderGone => LeaderGone'
  BY RunnerConstants DEF LeaderGone, Exit, Fork
<1>3. Group = {} => Group' = {}
  BY <1>1 DEF Group, Exit, Fork
<1>4. PipesClosed => PipesClosed'
  BY <1>1 DEF PipesClosed, Exit, Fork
<1>5. RunnerTypeOK'
  BY <1>1 DEF RunnerInv, RunnerTypeOK
<1>6. LeaderTraits'
  BY <1>1 DEF RunnerInv, LeaderTraits
<1>7. RunnerBehind'
  BY <1>1, <1>2, <1>3, <1>4 DEF RunnerInv, RunnerBehind
<1> QED
  BY <1>1, <1>5, <1>6, <1>7 DEF RunnerInv

\* a step of the caller that is neither a kill nor an end
LEMMA CallerGoes ==
  ASSUME RunnerInv, NEW label \in Labels, calling' = label, label # "done",
         UNCHANGED <<runner, environment, result>>,
         timedOut' \in BOOLEAN, interrupts' \in 0..MaxInterrupts,
         timedOut' => label \in {"terminate", "grace", "kill", "regrace", "collect"},
         label = "drain" => runner = "async" /\ LeaderGone,
         label # "regrace",
         label = "collect" => runner = "async" /\ LeaderGone
  PROVE  RunnerInv'
<1>1. UNCHANGED <<runner, traits, reads, alive, forked, result>>
  BY DEF environment
<1>2. RunnerTypeOK'
  BY <1>1 DEF RunnerInv, RunnerTypeOK
<1>3. LeaderTraits'
  BY <1>1 DEF RunnerInv, LeaderTraits
<1>4. RunnerBehind'
  BY <1>1 DEF RunnerBehind, LeaderGone
<1> QED
  BY <1>2, <1>3, <1>4 DEF RunnerInv

LEMMA CallerReturns ==
  ASSUME RunnerInv, NEW r \in Results, Returns(r), runner' = runner,
         interrupts' \in 0..MaxInterrupts,
         r.timed_out => LeaderGone /\ (runner = "sync" => Group = {} \/ PipesClosed),
         r.code = "own" => LeaderGone /\ (runner # "runtime" => PipesClosed)
  PROVE  RunnerInv'
<1>1. /\ UNCHANGED <<runner, traits, reads, alive, forked, timedOut>>
      /\ calling' = "done" /\ result' = r
  BY DEF Returns, environment
<1>2. RunnerTypeOK'
  BY <1>1 DEF RunnerInv, RunnerTypeOK, Labels
<1>3. LeaderTraits'
  BY <1>1 DEF RunnerInv, LeaderTraits
<1>4. RunnerBehind'
  BY <1>1 DEF RunnerBehind, LeaderGone, Group, PipesClosed
<1> QED
  BY <1>2, <1>3, <1>4 DEF RunnerInv

LEMMA ResultsKnown ==
  /\ NoResult \in Results /\ ~NoResult.timed_out /\ NoResult.code # "own"
  /\ OwnCode \in Results /\ ~OwnCode.timed_out
  /\ Code124 \in Results /\ Code124.code # "own"
BY DEF Results, NoResult, OwnCode, Code124

\* the end of a cleanup, with what the caller has waited for
LEMMA ReportKeeps ==
  ASSUME RunnerInv, Report, UNCHANGED <<runner, interrupts>>,
         LeaderGone, runner = "sync" => Group = {} \/ PipesClosed
  PROVE  RunnerInv'
<1>1. interrupts' \in 0..MaxInterrupts /\ timedOut \in BOOLEAN
  BY DEF RunnerInv, RunnerTypeOK
<1>2. CASE ~timedOut
  BY <1>1, <1>2, ResultsKnown, CallerReturns DEF Report
<1>3. CASE timedOut /\ runner = "async"
  <2>1. /\ calling' = "collect" /\ UNCHANGED <<environment, result>>
        /\ timedOut' = timedOut
    BY <1>3 DEF Report, Goes
  <2>2. "collect" \in Labels
    BY DEF Labels
  <2> QED
    BY <1>1, <1>3, <2>1, <2>2, CallerGoes
<1>4. CASE timedOut /\ runner # "async"
  BY <1>1, <1>4, ResultsKnown, CallerReturns DEF Report
<1> QED
  BY <1>1, <1>2, <1>3, <1>4

LEMMA CleanMeans ==
  ASSUME RunnerInv, Clean
  PROVE  LeaderGone /\ (runner = "sync" => Group = {} \/ PipesClosed)
<1>1. runner \in {"async", "sync", "runtime"}
  BY DEF RunnerInv, RunnerTypeOK, Runners
<1>2. Group = {} => LeaderGone
  BY DEF RunnerInv, LeaderTraits, Group, LeaderGone
<1>3. CASE runner = "async"
  BY <1>3 DEF Clean
<1>4. CASE runner = "sync"
  BY <1>4 DEF Clean
<1>5. CASE runner = "runtime"
  BY <1>2, <1>5 DEF Clean
<1> QED
  BY <1>1, <1>3, <1>4, <1>5

LEMMA CallerKeeps ==
  ASSUME RunnerInv, Caller
  PROVE  RunnerInv'
<1>1. interrupts \in 0..MaxInterrupts /\ timedOut \in BOOLEAN
  BY DEF RunnerInv, RunnerTypeOK
<1>2. {"wait", "drain", "terminate", "grace", "kill", "collect"} \subseteq Labels
  BY DEF Labels
<1>3. timedOut => calling \in {"terminate", "grace", "kill", "regrace", "collect", "done"}
  BY DEF RunnerInv, RunnerBehind
<1>4. CASE Armed \/ Fed
  <2>1. /\ calling \in {"start", "feed"} /\ calling' = "wait"
        /\ UNCHANGED <<runner, environment, result, timedOut, interrupts>>
    BY <1>4 DEF Armed, Fed, At, Goes
  <2> QED
    BY <2>1, <1>1, <1>2, <1>3, CallerGoes
<1>5. CASE Finished
  <2>1. /\ calling = "wait" /\ UNCHANGED <<runner, interrupts>> /\ LeaderGone
        /\ ~timedOut
    BY <1>3, <1>5 DEF Finished, At
  <2>2. runner \in {"async", "sync", "runtime"}
    BY DEF RunnerInv, RunnerTypeOK, Runners
  <2>3. CASE runner = "async"
    <3>1. calling' = "drain" /\ UNCHANGED <<environment, result, timedOut>>
      BY <1>5, <2>3 DEF Finished, Goes
    <3> QED
      BY <3>1, <2>1, <2>3, <1>1, <1>2, CallerGoes
  <2>4. CASE runner = "sync"
    <3>1. PipesClosed /\ Returns(OwnCode)
      BY <1>5, <2>4 DEF Finished
    <3> QED
      BY <3>1, <2>1, <1>1, ResultsKnown, CallerReturns
  <2>5. CASE runner = "runtime"
    <3>1. Returns(OwnCode)
      BY <1>5, <2>5 DEF Finished
    <3> QED
      BY <3>1, <2>1, <2>5, <1>1, ResultsKnown, CallerReturns
  <2> QED
    BY <2>2, <2>3, <2>4, <2>5
<1>6. CASE Drained
  <2>1. LeaderGone
    BY <1>6 DEF Drained, At, RunnerInv, RunnerBehind
  <2>2. PipesClosed /\ Returns(OwnCode) /\ UNCHANGED <<runner, interrupts>>
    BY <1>6 DEF Drained, At
  <2> QED
    BY <2>1, <2>2, <1>1, ResultsKnown, CallerReturns
<1>7. CASE Terminate
  <2>1. calling' = "grace" /\ UNCHANGED <<runner, environment, result, timedOut, interrupts>>
    BY <1>7 DEF Terminate, At, Goes
  <2> QED
    BY <2>1, <1>1, <1>2, CallerGoes
<1>8. CASE CleanedUp
  <2>1. Clean /\ Report /\ UNCHANGED <<runner, interrupts>>
    BY <1>8 DEF CleanedUp, At
  <2> QED
    BY <2>1, CleanMeans, ReportKeeps
<1>9. CASE Kill
  <2>1. /\ calling' = "regrace" /\ alive' = alive \ Group
        /\ UNCHANGED <<runner, traits, reads, forked, result, timedOut, interrupts>>
    BY <1>9 DEF Kill, At
  <2>2. Group' = {}
    BY <2>1 DEF Group
  <2>3. RunnerTypeOK'
    BY <2>1 DEF RunnerInv, RunnerTypeOK, Labels
  <2>4. LeaderTraits'
    BY <2>1 DEF RunnerInv, LeaderTraits
  <2>5. RunnerBehind'
    BY <2>1, <2>2 DEF RunnerBehind
  <2> QED
    BY <2>3, <2>4, <2>5 DEF RunnerInv
<1>10. CASE Collected
  <2>1. LeaderGone /\ runner = "async"
    BY <1>10 DEF Collected, At, RunnerInv, RunnerBehind
  <2>2. Returns(Code124) /\ UNCHANGED <<runner, interrupts>>
    BY <1>10 DEF Collected, At
  <2> QED
    BY <2>1, <2>2, <1>1, ResultsKnown, CallerReturns
<1> QED
  BY <1>4, <1>5, <1>6, <1>7, <1>8, <1>9, <1>10 DEF Caller

LEMMA TimerKeeps ==
  ASSUME RunnerInv, Timer
  PROVE  RunnerInv'
<1>1. interrupts \in 0..MaxInterrupts /\ timedOut \in BOOLEAN
  BY DEF RunnerInv, RunnerTypeOK
<1>2. "terminate" \in Labels /\ "kill" \in Labels
  BY DEF Labels
<1>3. CASE LimitPasses
  <2>1. /\ calling' = "terminate" /\ timedOut' = TRUE
        /\ UNCHANGED <<runner, environment, result, interrupts>>
    BY <1>3 DEF LimitPasses, At
  <2> QED
    BY <2>1, <1>1, <1>2, CallerGoes
<1>4. CASE GraceEnds
  <2>1. calling' = "kill" /\ UNCHANGED <<runner, environment, result, timedOut, interrupts>>
    BY <1>4 DEF GraceEnds, At, Goes
  <2> QED
    BY <2>1, <1>1, <1>2, CallerGoes
<1>5. CASE RegraceEnds
  <2>1. Group = {}
    BY <1>5 DEF RegraceEnds, At, RunnerInv, RunnerBehind
  <2>2. LeaderGone
    BY <2>1 DEF RunnerInv, LeaderTraits, Group, LeaderGone
  <2>3. Report /\ UNCHANGED <<runner, interrupts>>
    BY <1>5 DEF RegraceEnds, At
  <2> QED
    BY <2>1, <2>2, <2>3, ReportKeeps
<1> QED
  BY <1>3, <1>4, <1>5 DEF Timer

LEMMA InterruptKeeps ==
  ASSUME RunnerInv, Interrupt
  PROVE  RunnerInv'
<1>1. interrupts' \in 0..MaxInterrupts
  BY RunnerConstants DEF Interrupt, RunnerInv, RunnerTypeOK
<1>2. runner' = runner
  BY DEF Interrupt
<1>3. CASE /\ calling' = "terminate" /\ timedOut' = FALSE
           /\ UNCHANGED <<environment, result>>
  <2>1. "terminate" \in Labels
    BY DEF Labels
  <2>2. timedOut' \in BOOLEAN
    BY <1>3
  <2> QED
    BY <1>1, <1>2, <1>3, <2>1, <2>2, CallerGoes
<1>4. CASE Returns(NoResult)
  BY <1>1, <1>2, <1>4, ResultsKnown, CallerReturns
<1> QED
  BY <1>3, <1>4 DEF Interrupt

LEMMA RunnerKeeps == RunnerInv /\ [RunnerNext]_runnerVars => RunnerInv'
<1> SUFFICES ASSUME RunnerInv, [RunnerNext]_runnerVars PROVE RunnerInv'
  OBVIOUS
<1>1. CASE UNCHANGED runnerVars
  <2>1. UNCHANGED <<runner, traits, reads, alive, forked, calling, result, timedOut, interrupts>>
    BY <1>1 DEF runnerVars, environment
  <2> QED
    BY <2>1 DEF RunnerInv, RunnerTypeOK, LeaderTraits, RunnerBehind, LeaderGone, Group, PipesClosed
<1>2. CASE RunnerNext
  BY <1>2, CallerKeeps, TimerKeeps, InterruptKeeps, ProcessesKeep DEF RunnerNext
<1> QED
  BY <1>1, <1>2

LEMMA RunnerInductive == RunnerSpec => []RunnerInv
BY RunnerInitial, RunnerKeeps, PTL DEF RunnerSpec

(* Every call that returns, of whichever caller and whatever was forked    *)
(* meanwhile: a timeout outlives the leader and leaves nobody who could    *)
(* write more, and a result of its own is complete.                        *)
THEOREM RunnerIsSafe == RunnerSpec => []RunnerSafe
<1>1. RunnerInv => RunnerSafe
  <2> SUFFICES ASSUME RunnerInv PROVE RunnerSafe
    OBVIOUS
  <2>1. TimeoutCleans
    BY DEF RunnerInv, RunnerBehind, TimeoutCleans, Group, PipesClosed
  <2>2. OutputComplete
    BY DEF RunnerInv, RunnerBehind, OutputComplete
  <2> QED
    BY <2>1, <2>2 DEF RunnerSafe, RunnerInv
<1> QED
  BY <1>1, RunnerInductive, PTL

(* A run of the agent that was stopped leaves nobody of its group behind.  *)
THEOREM AgentGroupIsGone == RunnerSpec => AgentGroupGone
<1>1. ASSUME RunnerInv, RunnerNext, runner = "runtime", calling # "done", calling' = "done",
             timedOut \/ calling \in {"grace", "regrace"}
      PROVE  Group' = {}
  <2>1. calling \in {"terminate", "grace", "kill", "regrace", "collect"}
    BY <1>1 DEF RunnerInv, RunnerBehind
  <2>2. CASE CleanedUp
    <3>1. Group = {}
      BY <1>1, <2>2 DEF CleanedUp, Clean
    <3>2. UNCHANGED <<traits, alive>>
      BY <1>1, <2>2 DEF CleanedUp, Report, Returns, Goes, environment
    <3> QED
      BY <3>1, <3>2 DEF Group
  <2>3. CASE RegraceEnds
    <3>1. Group = {}
      BY <2>3 , <1>1 DEF RegraceEnds, At, RunnerInv, RunnerBehind
    <3>2. UNCHANGED <<traits, alive>>
      BY <1>1, <2>3 DEF RegraceEnds, Report, Returns, Goes, environment
    <3> QED
      BY <3>1, <3>2 DEF Group
  <2>4. CASE Interrupt
    BY <1>1, <2>1, <2>4 DEF Interrupt
  <2>5. ~Collected
    BY <1>1 DEF Collected, At, RunnerInv, RunnerBehind
  <2>6. CASE Armed \/ Fed \/ Finished \/ Drained \/ Terminate \/ Kill
    BY <1>1, <2>1, <2>6 DEF Armed, Fed, Finished, Drained, Terminate, Kill, At, Goes
  <2>7. CASE LimitPasses \/ GraceEnds
    BY <1>1, <2>7 DEF LimitPasses, GraceEnds, At, Goes
  <2>8. CASE \E p \in Members : Exit(p) \/ \E c \in Descendants : Fork(p, c)
    BY <1>1, <2>8 DEF Exit, Fork
  <2> QED
    BY <1>1, <2>2, <2>3, <2>4, <2>5, <2>6, <2>7, <2>8 DEF RunnerNext, Caller, Timer
<1>2. UNCHANGED runnerVars => calling' = calling
  BY DEF runnerVars
<1>3. RunnerInv /\ [RunnerNext]_runnerVars =>
        [runner = "runtime" /\ calling # "done" /\ calling' = "done"
           /\ (timedOut \/ calling \in {"grace", "regrace"})
           => Group' = {}]_runnerVars
  BY <1>1, <1>2
<1> QED
  BY <1>3, RunnerInductive, PTL DEF RunnerSpec, AgentGroupGone

-----------------------------------------------------------------------------
(* The store.  A store that is open is current because of what the         *)
(* statements before it did, some of them in a transaction that only the   *)
(* last one commits; and no finding is lost on the way because what the    *)
(* connection would keep is, at every statement, what the file keeps.      *)

KeptIn(db) == IF db.main = "absent" THEN db.tempRows ELSE db.mainRows

\* a table that is not there has no rows
Formed(db) ==
  /\ db.main = "absent" => db.mainRows = {}
  /\ ~db.temp => db.tempRows = {}

\* what the connection sees when it comes to a statement
Reached(s, db) ==
  /\ s = "create" => ~db.temp
  /\ s = "create_new" => db.main = "keyed" /\ ~db.temp
  /\ s = "copy" => db.main = "keyed" /\ db.temp
  /\ s = "drop" => db.main = "keyed" /\ db.temp /\ db.tempRows = db.mainRows
  /\ s = "rename" => db.main = "absent" /\ db.temp
  /\ s \in {"columns", "version", "commit", "open", "insert", "saved"} =>
       db.main = "synthetic" /\ ~db.temp
  /\ s \in {"version", "commit", "open", "insert", "saved"} => db.columns
  /\ s \in {"commit", "open", "insert", "saved"} => db.version = 2

Uncommitted ==
  /\ statement \in {"closed", "recover", "create", "create_new", "copy", "open"} =>
       view = disk /\ ~transaction
  /\ statement \notin {"insert", "saved"} => KeptIn(view) = KeptIn(disk)

StoreInv ==
  /\ MigrationTypeOK /\ Formed(disk) /\ Formed(view)
  /\ Reached(statement, view) /\ Uncommitted

LEMMA StoreStarts == MigrationInit => StoreInv
<1> SUFFICES ASSUME MigrationInit PROVE StoreInv
  OBVIOUS
<1>1. disk \in Databases /\ Formed(disk)
  BY DEF MigrationInit, Formed
<1>2. view = disk /\ transaction = FALSE /\ statement = "closed" /\ crashes = 0
  BY DEF MigrationInit
<1>3. crashes \in 0..MaxCrashes
  BY <1>2, MigrationConstants
<1>4. Reached(statement, view)
  BY <1>2 DEF Reached
<1>5. Uncommitted
  BY <1>2 DEF Uncommitted
<1> QED
  BY <1>1, <1>2, <1>3, <1>4, <1>5 DEF StoreInv, MigrationTypeOK, Statements

\* what every statement needs to have kept
LEMMA StoreStep ==
  ASSUME StoreInv, NEW db \in Databases, NEW s \in Statements,
         Formed(db), Reached(s, db), statement' = s, view' = db,
         disk' \in {disk, db}, transaction' \in BOOLEAN, UNCHANGED crashes,
         s \in {"closed", "recover", "create", "create_new", "copy", "open"} =>
           disk' = db /\ ~transaction',
         s \notin {"insert", "saved"} => KeptIn(db) = KeptIn(disk')
  PROVE  StoreInv'
BY DEF StoreInv, MigrationTypeOK, Uncommitted, Formed, Reached, KeptIn

LEMMA StoreKeeps == StoreInv /\ [MigrationNext]_migrationVars => StoreInv'
<1> SUFFICES ASSUME StoreInv, [MigrationNext]_migrationVars PROVE StoreInv'
  OBVIOUS
<1> USE DEF StoreInv, MigrationTypeOK
<1>1. CASE Connect
  <2>1. UNCHANGED <<disk, view, transaction, crashes>> /\ statement' = "recover"
    BY <1>1 DEF Connect, Proceeds, Uncommitted
  <2> QED
    BY <2>1, <1>1 DEF Connect, Proceeds, Formed, Reached, Uncommitted, Statements
<1>2. CASE RecoverInterrupted
  <2>1. /\ statement = "recover" /\ statement' = "create" /\ UNCHANGED crashes
        /\ view = disk /\ ~transaction
    BY <1>2 DEF RecoverInterrupted, Proceeds, Uncommitted
  <2>2. /\ view' \in Databases /\ Formed(view') /\ ~view'.temp
        /\ view' = disk' /\ ~transaction' /\ transaction' \in BOOLEAN
    <3>1. CASE ~view.temp
      BY <1>2, <2>1, <3>1 DEF RecoverInterrupted, AsIs
    <3>2. CASE view.temp /\ view.main = "absent"
      <4>1. view' = Renamed(view) /\ disk' = view' /\ transaction' = transaction
        BY <1>2, <2>1, <3>2 DEF RecoverInterrupted, Schema
      <4>2. /\ Renamed(view).main = "synthetic" /\ Renamed(view).temp = FALSE
            /\ Renamed(view).tempRows = {} /\ Renamed(view) \in Databases
        BY DEF Renamed, Databases
      <4> QED
        BY <2>1, <4>1, <4>2 DEF Formed
    <3>3. CASE view.temp /\ view.main # "absent"
      BY <1>2, <2>1, <3>3 DEF RecoverInterrupted, Schema, Databases, Formed
    <3> QED
      BY <3>1, <3>2, <3>3
  <2> QED
    BY <2>1, <2>2 DEF Formed, Reached, Uncommitted, Statements
<1>3. CASE CreateTables
  <2>1. /\ statement = "create" /\ UNCHANGED crashes /\ view = disk /\ ~transaction /\ ~view.temp
        /\ statement' = IF view.main = "keyed" THEN "create_new" ELSE "columns"
    BY <1>3 DEF CreateTables, Proceeds, Uncommitted, Reached
  <2>2. CASE view.main # "absent"
    BY <1>3, <2>1, <2>2 DEF CreateTables, AsIs, Formed, Reached, Uncommitted, Statements, Databases
  <2>3. CASE view.main = "absent"
    <3>1. /\ view' = [view EXCEPT !.main = "synthetic", !.columns = TRUE] /\ disk' = view'
          /\ transaction' = transaction /\ statement' = "columns"
      BY <1>3, <2>1, <2>3 DEF CreateTables, Schema
    <3>2. view' \in Databases /\ Formed(view') /\ view'.main = "synthetic" /\ ~view'.temp
      BY <2>1, <3>1 DEF Databases, Formed
    <3> QED
      BY <2>1, <3>1, <3>2 DEF Reached, Uncommitted, Statements
  <2> QED
    BY <2>2, <2>3
<1>4. CASE CreateNew
  BY <1>4, StoreStep DEF CreateNew, Proceeds, Schema,
     Formed, Reached, Uncommitted, KeptIn, Statements, Databases
<1>5. CASE CopyRows
  BY <1>5, StoreStep DEF CopyRows, Proceeds, Rows,
     Formed, Reached, Uncommitted, KeptIn, Statements, Databases
<1>6. CASE DropOld
  BY <1>6, StoreStep DEF DropOld, Proceeds, Schema,
     Formed, Reached, Uncommitted, KeptIn, Statements, Databases
<1>7. CASE RenameNew
  BY <1>7, StoreStep DEF RenameNew, Proceeds, Schema, Renamed,
     Formed, Reached, Uncommitted, KeptIn, Statements, Databases
<1>8. CASE AddColumns
  BY <1>8, StoreStep, ZenonT(40) DEF AddColumns, Proceeds, AsIs, Schema,
     Formed, Reached, Uncommitted, KeptIn, Statements, Databases
<1>9. CASE SetVersion
  BY <1>9, StoreStep DEF SetVersion, Proceeds, Rows,
     Formed, Reached, Uncommitted, KeptIn, Statements, Databases
<1>10. CASE CommitSchema
  BY <1>10, StoreStep DEF CommitSchema,
     Formed, Reached, Uncommitted, KeptIn, Statements, Databases
<1>11. CASE DeleteFindings
  BY <1>11, StoreStep DEF DeleteFindings, Proceeds, Rows,
     Formed, Reached, Uncommitted, KeptIn, Statements, Databases
<1>12. CASE InsertFindings
  BY <1>12, StoreStep DEF InsertFindings, Rows,
     Formed, Reached, Uncommitted, KeptIn, Statements, Databases
<1>13. CASE LastInserted
  BY <1>13, StoreStep DEF LastInserted, Proceeds, AsIs,
     Formed, Reached, Uncommitted, KeptIn, Statements, Databases
<1>14. CASE CloseOrDie
  <2>1. /\ statement' = "closed" /\ view' = disk /\ disk' = disk
        /\ transaction' = FALSE
    BY <1>14 DEF CloseOrDie
  <2>2. crashes' \in 0..MaxCrashes
    BY <1>14, MigrationConstants DEF CloseOrDie
  <2>3. Reached(statement', view')
    BY <2>1 DEF Reached
  <2> QED
    BY <2>1, <2>2, <2>3 DEF Formed, Uncommitted, Statements
<1>15. CASE UNCHANGED migrationVars
  BY <1>15 DEF migrationVars, Formed, Reached, Uncommitted, KeptIn
<1> QED
  BY <1>1, <1>2, <1>3, <1>4, <1>5, <1>6, <1>7, <1>8, <1>9, <1>10, <1>11, <1>12, <1>13,
     <1>14, <1>15 DEF MigrationNext, Opening

LEMMA StoreAlways == MigrationSpec => []StoreInv
<1>1. MigrationInit => StoreInv
  BY StoreStarts
<1>2. StoreInv /\ [MigrationNext]_migrationVars => StoreInv'
  BY StoreKeeps
<1> QED
  BY <1>1, <1>2, PTL DEF MigrationSpec

(* However a store was left, and whichever statement a process dies at: an  *)
(* open store has the current schema, nothing is left of a migration, and   *)
(* the connection sees what is stored.                                      *)
THEOREM StoreIsSafe == MigrationSpec => []StoreSafe
<1>1. StoreInv => StoreSafe
  BY DEF StoreInv, Reached, Uncommitted, StoreSafe, OpenIsCurrent
<1> QED
  BY <1>1, StoreAlways, PTL

LEMMA TableStarts == MigrationInit => Table!TableInit
BY DEF MigrationInit, Databases, Table!TableInit, Kept

LEMMA StepsOfTable ==
  ASSUME StoreInv, StoreInv', [MigrationNext]_migrationVars
  PROVE  [Table!TableNext]_<<Kept, statement \in {"open", "insert", "saved"}>>
<1> DEFINE opened == statement \in {"open", "insert", "saved"}
<1>1. KeptIn(disk) = Kept /\ KeptIn(disk') = Kept' /\ Kept' \in SUBSET Findings
  BY DEF StoreInv, MigrationTypeOK, Databases, KeptIn, Kept
<1>2. CASE UNCHANGED migrationVars
  BY <1>2 DEF migrationVars, Kept
<1>3. CASE CommitSchema /\ statement = "saved"
  BY <1>1, <1>3 DEF CommitSchema, Table!TableNext, Table!SaveReview
<1>4. CASE CommitSchema /\ statement = "commit"
  <2>1. Kept' = Kept
    BY <1>1, <1>4 DEF CommitSchema, StoreInv, Uncommitted
  <2> QED
    BY <1>4, <2>1 DEF CommitSchema, Table!TableNext, Table!OpenOrClose
<1>5. CASE DeleteFindings \/ InsertFindings \/ LastInserted
  BY <1>5 DEF DeleteFindings, InsertFindings, LastInserted, Proceeds, Rows, AsIs, Kept
<1>6. CASE CloseOrDie
  <2>1. Kept' = Kept /\ ~opened'
    BY <1>6 DEF CloseOrDie, Kept
  <2> QED
    BY <2>1 DEF Table!TableNext, Table!OpenOrClose
<1>7. CASE Connect \/ CopyRows \/ SetVersion
  BY <1>7 DEF Connect, CopyRows, SetVersion, Proceeds, Rows, Kept
<1>8. CASE \/ RecoverInterrupted \/ CreateTables \/ CreateNew
           \/ DropOld \/ RenameNew \/ AddColumns
  <2>1. ~opened /\ ~opened'
    BY <1>8 DEF RecoverInterrupted, CreateTables, CreateNew, DropOld, RenameNew, AddColumns,
       Proceeds
  <2>2. CASE UNCHANGED disk
    BY <2>1, <2>2 DEF Kept
  <2>3. CASE disk' = view'
    <3>1. KeptIn(view') = KeptIn(view)
      BY <1>8, ZenonT(40) DEF StoreInv, Formed, Reached, KeptIn, RecoverInterrupted, CreateTables,
         CreateNew, DropOld, RenameNew, AddColumns, Proceeds, AsIs, Schema, Renamed,
         MigrationTypeOK, Databases
    <3>2. KeptIn(view) = KeptIn(disk)
      BY <2>1 DEF StoreInv, Uncommitted
    <3> QED
      BY <1>1, <2>1, <2>3, <3>1, <3>2
  <2> QED
    BY <1>8, <2>2, <2>3 DEF RecoverInterrupted, CreateTables, CreateNew, DropOld, RenameNew,
       AddColumns, AsIs, Schema
<1> QED
  BY <1>2, <1>3, <1>4, <1>5, <1>6, <1>7, <1>8 DEF MigrationNext, Opening, CommitSchema

(* From each of the databases a process may find, wherever processes die:  *)
(* findings change only when a review is saved, in a store that is open.   *)
THEOREM StoreIsTable == MigrationSpec => ImplementsTable
<1>1. MigrationInit => Table!TableInit
  BY TableStarts
<1>2. StoreInv /\ StoreInv' /\ [MigrationNext]_migrationVars
        => [Table!TableNext]_<<Kept, statement \in {"open", "insert", "saved"}>>
  BY StepsOfTable
<1> QED
  BY <1>1, <1>2, StoreAlways, PTL DEF MigrationSpec, ImplementsTable, Table!TableSpec,
     Table!tableVars

-----------------------------------------------------------------------------
(* Semantic reviews.  What a decision without a warning rests on was       *)
(* compared a while ago, with a review that was written before that, by a  *)
(* generator that had read the record of the verification even earlier.    *)

Reviews ==
  [stage : {"none", "indexed", "verified", "covered", "stamped", "metadata", "whole"},
   diff : Trees \cup {"none"}, summary : Outcomes, asked : BOOLEAN, print : Outcomes,
   created : Nat, raced : BOOLEAN]

Approvals ==
  [step : {"none", "loaded", "compared", "decide"}, review : Generators \cup {"none"},
   stale : BOOLEAN, warnings : SUBSET {"missing", "unreadable", "stale", "high-risk", "unresolved"},
   moved : BOOLEAN]

SemanticTyped ==
  /\ tree \in Trees /\ outcome_of \in Outcomes /\ made \in Nat
  /\ reviews \in [Generators -> Reviews] /\ approving \in [Approvers -> Approvals]

\* unless the record was replaced in between, summary and print are of one record
OneRecord(r) ==
  ~r.raced => /\ r.stage \in {"verified", "covered"} => r.summary = outcome_of
              /\ r.stage \in {"stamped", "metadata", "whole"} => r.summary = r.print

\* the review an approval reads is whole; and what its warnings were computed from
Weighed(d) ==
  /\ d.step \in {"loaded", "compared"} \/ (d.step = "decide" /\ d.warnings = {}) =>
       d.review \in Generators /\ reviews[d.review].stage = "whole"
  /\ d.step = "compared" /\ ~d.moved => (d.stale <=> reviews[d.review].diff # tree)
  /\ d.step = "decide" /\ d.warnings = {} /\ ~d.moved =>
       LET r == reviews[d.review]
       IN  /\ r.diff = tree /\ r.print = outcome_of
           /\ ~Lacks(r.diff, r.asked) /\ ~RiskUnverified(r.diff, r.summary)

ReviewInv ==
  /\ SemanticTyped
  /\ \A g \in Generators : OneRecord(reviews[g])
  /\ \A a \in Approvers : Weighed(approving[a])

LEMMA ReviewStarts == SemanticInit => ReviewInv
<1> SUFFICES ASSUME SemanticInit PROVE ReviewInv
  OBVIOUS
<1>1. NoReviewYet \in Reviews /\ Undecided \in Approvals
  BY DEF NoReviewYet, Reviews, Outcomes, Undecided, Approvals
<1>2. SemanticTyped
  BY <1>1 DEF SemanticInit, SemanticTyped, Outcomes
<1>3. \A g \in Generators : OneRecord(reviews[g])
  BY DEF SemanticInit, OneRecord, NoReviewYet
<1>4. \A a \in Approvers : Weighed(approving[a])
  BY DEF SemanticInit, Weighed, Undecided
<1> QED
  BY <1>2, <1>3, <1>4 DEF ReviewInv

LEMMA EditKeepsReviews == ReviewInv /\ Edit => ReviewInv'
<1> SUFFICES ASSUME ReviewInv, Edit PROVE ReviewInv'
  OBVIOUS
<1>1. \A a \in Approvers :
        approving'[a] = IF approving[a].step \in {"compared", "decide"}
                        THEN [approving[a] EXCEPT !.moved = TRUE] ELSE approving[a]
  BY DEF Edit, Moves
<1>2. SemanticTyped'
  BY ZenonT(40) DEF ReviewInv, SemanticTyped, Edit, Moves, Approvals
<1>3. \A g \in Generators : OneRecord(reviews[g])'
  BY DEF ReviewInv, Edit, OneRecord
<1>4. ASSUME NEW a \in Approvers PROVE Weighed(approving[a])'
  <2>1. CASE approving[a].step \in {"compared", "decide"}
    <3>1. approving[a] \in Approvals /\ Weighed(approving[a])
      BY DEF ReviewInv, SemanticTyped
    <3>2. /\ approving'[a].step = approving[a].step /\ approving'[a].moved = TRUE
          /\ approving'[a].warnings = approving[a].warnings
          /\ approving'[a].review = approving[a].review /\ reviews' = reviews
      BY <1>1, <2>1, <3>1 DEF Approvals, Edit
    <3> QED
      BY <2>1, <3>1, <3>2 DEF Weighed
  <2>2. CASE approving[a].step \notin {"compared", "decide"}
    BY <1>1, <2>2 DEF ReviewInv, Weighed, Edit
  <2> QED
    BY <2>1, <2>2
<1> QED
  BY <1>2, <1>3, <1>4 DEF ReviewInv

LEMMA ReplaceRecordKeepsReviews == ReviewInv /\ ReplaceRecord => ReviewInv'
<1> SUFFICES ASSUME ReviewInv, ReplaceRecord PROVE ReviewInv'
  OBVIOUS
<1>1. \A a \in Approvers :
        approving'[a] = IF approving[a].step \in {"decide"}
                        THEN [approving[a] EXCEPT !.moved = TRUE] ELSE approving[a]
  BY DEF ReplaceRecord, Moves
<1>2. \A g \in Generators :
        reviews'[g] = IF reviews[g].stage \in {"verified", "covered"}
                      THEN [reviews[g] EXCEPT !.raced = TRUE] ELSE reviews[g]
  BY DEF ReplaceRecord
<1>3. SemanticTyped'
  <2>1. reviews' \in [Generators -> Reviews]
    BY DEF ReviewInv, SemanticTyped, ReplaceRecord, Reviews
  <2>2. approving' \in [Approvers -> Approvals]
    BY ZenonT(40) DEF ReviewInv, SemanticTyped, ReplaceRecord, Moves, Approvals
  <2>3. tree' \in Trees /\ outcome_of' \in Outcomes /\ made' \in Nat
    BY DEF ReviewInv, SemanticTyped, ReplaceRecord, Outcomes
  <2> QED
    BY <2>1, <2>2, <2>3 DEF SemanticTyped
<1>4. \A g \in Generators : OneRecord(reviews[g])'
  <2> SUFFICES ASSUME NEW g \in Generators PROVE OneRecord(reviews[g])'
    OBVIOUS
  <2>1. reviews[g] \in Reviews /\ OneRecord(reviews[g])
    BY DEF ReviewInv, SemanticTyped
  <2>2. CASE reviews[g].stage \in {"verified", "covered"}
    <3>1. reviews'[g].raced = TRUE
      BY <1>2, <2>1, <2>2 DEF Reviews
    <3> QED
      BY <3>1 DEF OneRecord
  <2>3. CASE reviews[g].stage \notin {"verified", "covered"}
    BY <1>2, <2>1, <2>3 DEF OneRecord
  <2> QED
    BY <2>2, <2>3
<1>5. ASSUME NEW a \in Approvers PROVE Weighed(approving[a])'
  <2>1. \A g \in Generators : reviews[g].stage = "whole" => reviews'[g] = reviews[g]
    BY <1>2
  <2>2. tree' = tree
    BY DEF ReplaceRecord
  <2>3. CASE approving[a].step = "decide"
    <3>1. approving[a] \in Approvals
      BY DEF ReviewInv, SemanticTyped
    <3>2. /\ approving'[a].step = "decide" /\ approving'[a].moved = TRUE
          /\ approving'[a].warnings = approving[a].warnings
          /\ approving'[a].review = approving[a].review
      BY <1>1, <2>3, <3>1 DEF Approvals
    <3>3. Weighed(approving[a])
      BY DEF ReviewInv
    <3> QED
      BY <2>1, <2>3, <3>2, <3>3 DEF Weighed
  <2>4. CASE approving[a].step # "decide"
    <3>1. Weighed(approving[a]) /\ approving'[a] = approving[a]
      BY <1>1, <2>4 DEF ReviewInv
    <3> QED
      BY <2>1, <2>2, <2>4, <3>1 DEF Weighed
  <2> QED
    BY <2>3, <2>4
<1> QED
  BY <1>3, <1>4, <1>5 DEF ReviewInv

\* a generator changes only its own review, and no longer one that is whole
LEMMA GeneratorKeepsReviews ==
  ASSUME ReviewInv, NEW g \in Generators, NEW r \in Reviews, reviews[g].stage # "whole",
         reviews' = [reviews EXCEPT ![g] = r], OneRecord(r), made' \in Nat,
         UNCHANGED <<tree, outcome_of, approving>>
  PROVE  ReviewInv'
<1>1. SemanticTyped'
  BY DEF ReviewInv, SemanticTyped
<1>2. \A h \in Generators : OneRecord(reviews[h])'
  BY DEF ReviewInv, SemanticTyped, OneRecord
<1>3. ASSUME NEW a \in Approvers PROVE Weighed(approving[a])'
  <2>1. \A h \in Generators : reviews[h].stage = "whole" => reviews'[h] = reviews[h]
    BY DEF ReviewInv, SemanticTyped
  <2>2. Weighed(approving[a]) /\ approving'[a] = approving[a] /\ approving[a] \in Approvals
    BY DEF ReviewInv, SemanticTyped
  <2> QED
    BY <2>1, <2>2 DEF Weighed
<1> QED
  BY <1>1, <1>2, <1>3 DEF ReviewInv

LEMMA GenerateKeepsReviews ==
  ASSUME ReviewInv, NEW g \in Generators,
         IndexDiff(g) \/ LoadVerification(g) \/ CoverIntent(g) \/ Stamp(g) \/ WriteBundle(g)
  PROVE  ReviewInv'
<1>1. /\ reviews \in [Generators -> Reviews] /\ reviews[g] \in Reviews /\ OneRecord(reviews[g])
      /\ tree \in Trees /\ outcome_of \in Outcomes /\ made \in Nat
  BY DEF ReviewInv, SemanticTyped
<1>2. CASE IndexDiff(g)
  <2> DEFINE r == [reviews[g] EXCEPT !.stage = "indexed", !.diff = tree]
  <2>1. r \in Reviews /\ OneRecord(r)
    BY <1>1 DEF Reviews, OneRecord
  <2>2. reviews' = [reviews EXCEPT ![g] = r] /\ UNCHANGED <<tree, outcome_of, approving, made>>
    BY <1>1, <1>2 DEF IndexDiff
  <2> QED
    BY <1>1, <1>2, <2>1, <2>2, GeneratorKeepsReviews DEF IndexDiff
<1>3. CASE LoadVerification(g)
  <2> DEFINE r == [reviews[g] EXCEPT !.stage = "verified", !.summary = outcome_of]
  <2>1. r \in Reviews /\ OneRecord(r)
    BY <1>1 DEF Reviews, OneRecord
  <2>2. reviews' = [reviews EXCEPT ![g] = r] /\ UNCHANGED <<tree, outcome_of, approving, made>>
    BY <1>1, <1>3 DEF LoadVerification
  <2> QED
    BY <1>1, <1>3, <2>1, <2>2, GeneratorKeepsReviews DEF LoadVerification
<1>4. CASE Stamp(g)
  <2> DEFINE r == [reviews[g] EXCEPT !.stage = "stamped", !.created = made + 1,
                                     !.print = outcome_of]
  <2>1. made' = made + 1 /\ made + 1 \in Nat /\ reviews[g].stage = "covered"
    BY <1>1, <1>4 DEF Stamp
  <2>2. r \in Reviews
    BY <1>1, <2>1 DEF Reviews
  <2>3. OneRecord(r)
    <3>1. /\ r.raced = reviews[g].raced /\ r.stage = "stamped"
          /\ r.summary = reviews[g].summary /\ r.print = outcome_of
      BY <1>1 DEF Reviews
    <3> QED
      BY <1>1, <2>1, <3>1 DEF OneRecord
  <2>4. reviews' = [reviews EXCEPT ![g] = r]
    BY <1>1, <1>4, Zenon DEF Stamp
  <2>5. UNCHANGED <<tree, outcome_of, approving>>
    BY <1>4 DEF Stamp
  <2> QED
    BY <2>1, <2>2, <2>3, <2>4, <2>5, GeneratorKeepsReviews
<1>5. CASE WriteBundle(g)
  <2>1. PICK stage \in {"metadata", "whole"} :
          /\ reviews' = [reviews EXCEPT ![g].stage = stage]
          /\ reviews[g].stage \in {"stamped", "metadata"}
    BY <1>5 DEF WriteBundle, Advance
  <2> DEFINE r == [reviews[g] EXCEPT !.stage = stage]
  <2>2. r \in Reviews /\ OneRecord(r)
    BY <1>1, <2>1 DEF Reviews, OneRecord
  <2>3. reviews' = [reviews EXCEPT ![g] = r] /\ UNCHANGED <<tree, outcome_of, approving, made>>
    BY <1>1, <1>5, <2>1 DEF WriteBundle
  <2> QED
    BY <1>1, <2>1, <2>2, <2>3, GeneratorKeepsReviews
<1>6. CASE CoverIntent(g)
  <2>1. PICK demanding \in BOOLEAN :
          reviews' = [reviews EXCEPT ![g].stage = "covered", ![g].asked = demanding]
    BY <1>6 DEF CoverIntent
  <2> DEFINE r == [reviews[g] EXCEPT !.stage = "covered", !.asked = demanding]
  <2>2. r \in Reviews /\ OneRecord(r)
    BY <1>1, <1>6 DEF Reviews, OneRecord, CoverIntent
  <2>3. reviews' = [reviews EXCEPT ![g] = r] /\ UNCHANGED <<tree, outcome_of, approving, made>>
    BY <1>1, <1>6, <2>1 DEF CoverIntent
  <2> QED
    BY <1>1, <1>6, <2>2, <2>3, GeneratorKeepsReviews DEF CoverIntent
<1> QED
  BY <1>2, <1>3, <1>4, <1>5, <1>6

\* an approval changes only itself
LEMMA ApproverKeepsReviews ==
  ASSUME ReviewInv, NEW a \in Approvers, NEW d \in Approvals, Weighed(d),
         approving' = [approving EXCEPT ![a] = d],
         UNCHANGED <<tree, outcome_of, reviews, made>>
  PROVE  ReviewInv'
BY DEF ReviewInv, SemanticTyped, OneRecord, Weighed

LEMMA ApproveKeepsReviews ==
  ASSUME ReviewInv, NEW a \in Approvers,
         LoadLatest(a) \/ CompareDiff(a) \/ Warn(a) \/ Record(a)
  PROVE  ReviewInv'
<1>1. /\ approving \in [Approvers -> Approvals] /\ approving[a] \in Approvals
      /\ Weighed(approving[a]) /\ reviews \in [Generators -> Reviews]
  BY DEF ReviewInv, SemanticTyped
<1>2. UNCHANGED <<tree, outcome_of, reviews, made>>
  BY DEF LoadLatest, CompareDiff, Warn, Record
<1>3. ASSUME NEW w \in SUBSET {"missing", "unreadable", "stale", "high-risk", "unresolved"},
             w # {}, DecideWith(a, w)
      PROVE  ReviewInv'
  <2> DEFINE d == [approving[a] EXCEPT !.step = "decide", !.warnings = w]
  <2>1. d \in Approvals /\ Weighed(d)
    BY <1>1, <1>3 DEF Approvals, Weighed
  <2>2. approving' = [approving EXCEPT ![a] = d]
    BY <1>1, <1>3 DEF DecideWith
  <2> QED
    BY <1>2, <2>1, <2>2, ApproverKeepsReviews
<1>4. CASE LoadLatest(a)
  <2>1. CASE DecideWith(a, {"missing"}) \/ DecideWith(a, {"unreadable"})
    BY <1>3, <2>1
  <2>2. ASSUME NEW g \in Listed, reviews[g].stage # "metadata",
               approving' = [approving EXCEPT ![a].step = "loaded", ![a].review = g]
        PROVE  ReviewInv'
    <3> DEFINE d == [approving[a] EXCEPT !.step = "loaded", !.review = g]
    <3>1. g \in Generators /\ reviews[g].stage = "whole"
      BY <2>2 DEF Listed
    <3>2. d \in Approvals /\ Weighed(d)
      BY <1>1, <3>1 DEF Approvals, Weighed
    <3>3. approving' = [approving EXCEPT ![a] = d]
      BY <1>1, <2>2
    <3> QED
      BY <1>2, <3>2, <3>3, ApproverKeepsReviews
  <2> QED
    BY <1>4, <2>1, <2>2 DEF LoadLatest
<1>5. CASE CompareDiff(a)
  <2>1. PICK stale \in BOOLEAN : stale = (reviews[approving[a].review].diff # tree)
    OBVIOUS
  <2> DEFINE d == [approving[a] EXCEPT !.step = "compared", !.stale = stale]
  <2>2. approving[a].step = "loaded"
    BY <1>5 DEF CompareDiff
  <2>3. d \in Approvals /\ Weighed(d)
    BY <1>1, <2>1, <2>2 DEF Approvals, Weighed
  <2>4. approving' = [approving EXCEPT ![a] = d]
    BY <1>1, <1>5, <2>1 DEF CompareDiff
  <2> QED
    BY <1>2, <2>3, <2>4, ApproverKeepsReviews
<1>6. CASE Warn(a)
  <2> DEFINE g == approving[a].review
             r == reviews[g]
             w == {x \in {"stale", "high-risk", "unresolved"} :
                    \/ x = "stale" /\ (approving[a].stale \/ ~SameRecord(g))
                    \/ x = "high-risk" /\ RiskUnverified(r.diff, r.summary)
                    \/ x = "unresolved" /\ Lacks(r.diff, r.asked)}
             d == [approving[a] EXCEPT !.step = "decide", !.warnings = w]
  <2>1. approving[a].step = "compared" /\ DecideWith(a, w)
    BY <1>6 DEF Warn
  <2>2. g \in Generators /\ r.stage = "whole" /\ (~approving[a].moved =>
            (approving[a].stale <=> r.diff # tree))
    BY <1>1, <2>1 DEF Weighed
  <2>3. w = {} => /\ ~approving[a].stale /\ r.print = outcome_of
                  /\ ~RiskUnverified(r.diff, r.summary) /\ ~Lacks(r.diff, r.asked)
    BY DEF SameRecord
  <2>4. w \in SUBSET {"missing", "unreadable", "stale", "high-risk", "unresolved"}
    OBVIOUS
  <2> HIDE DEF w
  <2>5. d \in Approvals
    BY <1>1, <2>4 DEF Approvals
  <2>6. Weighed(d)
    BY <1>1, <2>2, <2>3 DEF Approvals, Weighed
  <2>7. approving' = [approving EXCEPT ![a] = d]
    BY <1>1, <2>1 DEF DecideWith
  <2> QED
    BY <1>2, <2>5, <2>6, <2>7, ApproverKeepsReviews
<1>7. CASE Record(a)
  <2>1. Undecided \in Approvals /\ Weighed(Undecided)
    BY DEF Undecided, Approvals, Weighed
  <2> QED
    BY <1>2, <1>7, <2>1, ApproverKeepsReviews DEF Record
<1> QED
  BY <1>4, <1>5, <1>6, <1>7

LEMMA ReviewKeeps == ReviewInv /\ [SemanticNext]_semanticVars => ReviewInv'
<1> SUFFICES ASSUME ReviewInv, [SemanticNext]_semanticVars PROVE ReviewInv'
  OBVIOUS
<1>1. CASE UNCHANGED semanticVars
  BY <1>1 DEF semanticVars, ReviewInv, SemanticTyped, OneRecord, Weighed
<1> QED
  BY <1>1, EditKeepsReviews, ReplaceRecordKeepsReviews, GenerateKeepsReviews,
     ApproveKeepsReviews DEF SemanticNext

(* However generations, edits, verifications and approvals overlap: an      *)
(* approval without a warning cites a review of the tree there is, with the *)
(* verification on record, unless one of them changed behind its back.      *)
THEOREM ReviewIsCurrent == SemanticSpec => []ReviewCurrent
<1>1. SemanticInit => ReviewInv
  BY ReviewStarts
<1>2. ReviewInv /\ [SemanticNext]_semanticVars => ReviewInv'
  BY ReviewKeeps
<1>3. ReviewInv => ReviewCurrent
  <2> SUFFICES ASSUME ReviewInv, NEW a \in Approvers, Quiet(a), ~approving[a].moved
      PROVE  LET r == reviews[approving[a].review]
             IN  /\ r.diff = tree /\ ~Lacks(tree, r.asked)
                 /\ ~r.raced => r.summary = outcome_of /\ ~RiskUnverified(tree, outcome_of)
    BY DEF ReviewCurrent
  <2>1. Weighed(approving[a]) /\ approving[a].step = "decide" /\ approving[a].warnings = {}
    BY DEF ReviewInv, Quiet
  <2>2. approving[a].review \in Generators
    BY <2>1 DEF Weighed
  <2>3. OneRecord(reviews[approving[a].review])
    BY <2>2 DEF ReviewInv
  <2> QED
    BY <2>1, <2>3 DEF Weighed, OneRecord
<1> QED
  BY <1>1, <1>2, <1>3, PTL DEF SemanticSpec

-----------------------------------------------------------------------------
(* Intake contracts.  What hangs together in the files is what each maker  *)
(* has written before the step it is at; and two makers never come by the  *)
(* same contract, although either may be dead.                             *)

Contracts == [id : Ids, of : Texts]

Origins == [from : {"none", "brief", "intake"}, id : Nat]

Ranked == {order[i] : i \in DOMAIN order}

IntakeTyped ==
  /\ filed \subseteq Contracts /\ pages \subseteq Ids /\ specs \subseteq Ids
  /\ making \in [Makers -> [at : {"idle", "json", "latest", "page", "spec", "dead"},
                            contract : Contracts \cup {NoContractYet}]]
  /\ \A s \in stories : s.id \in specs
  /\ intended \in [there : BOOLEAN, words : Origins]
  /\ asking.words \in Origins

\* what a maker has left behind it where it is
LeftIn(m, contracts, ranked, written) ==
  /\ m.at = "idle" <=> m.contract = NoContractYet
  /\ m.at = "json" => \A c \in contracts : c.id # m.contract.id
  /\ m.at \in {"latest", "page", "spec"} => m.contract \in contracts
  /\ m.at \in {"json", "latest"} => m.contract.id \notin ranked
  /\ m.at = "spec" => m.contract.id \in written

Left(m) == LeftIn(m, filed, Ranked, pages)

\* nobody else has its contract
Apart ==
  \A p, q \in Makers :
    p # q /\ making[p].at # "idle" => making[p].contract.id # making[q].contract.id

\* every file belongs to a contract, which is whole or still being made
FilesFit ==
  /\ \A id \in specs : id \in pages /\ \E c \in filed : c.id = id
  /\ \A c \in filed : c.id \in specs \/
       \E p \in Makers : making[p].at # "idle" /\ making[p].contract.id = c.id

\* the latest contract is the last of an order in which each occurs once
OrderFits ==
  /\ order \in Seq(Ids)
  /\ \A i, j \in DOMAIN order : order[i] = order[j] => i = j
  /\ \A i \in DOMAIN order : \E c \in filed : c.id = order[i]
  /\ latest = NoContractYet => order = <<>>
  /\ latest # NoContractYet =>
       latest \in filed /\ order # <<>> /\ latest.id = order[Len(order)]

\* a delta that is taken from an intake is that of one that became the latest
WordsKnown(w) == w.from = "intake" => w.id \in Ranked

IntakeInv ==
  /\ IntakeTyped /\ (\A p \in Makers : Left(making[p])) /\ Apart
  /\ FilesFit /\ OrderFits
  /\ WordsKnown(intended.words) /\ WordsKnown(asking.words)
  /\ ProofInOrder

LEMMA NoContractIsNone == NoContractYet \notin Contracts
<1>1. \A c \in Contracts : c.id # 0
  BY DEF Contracts, Ids
<1> QED
  BY <1>1 DEF NoContractYet

\* where a contract stands in an order in which it occurs once
LEMMA TurnIs ==
  ASSUME OrderFits, NEW i \in DOMAIN order
  PROVE  Turn(order[i]) = i
<1> DEFINE I == {j \in 1..Len(order) : order[j] = order[i]}
<1>1. I = {i}
  BY DEF OrderFits
<1>2. Min(I) = i
  BY <1>1 DEF Min
<1>3. Turn(order[i]) = IF I # {} THEN Min(I) ELSE 0
  BY DEF Turn, SelectInSeq
<1> QED
  BY <1>1, <1>2, <1>3

LEMMA IntakeStarts == IntakeInit => IntakeInv
<1> SUFFICES ASSUME IntakeInit PROVE IntakeInv
  OBVIOUS
<1> USE DEF IntakeInit
<1>1. IntakeTyped
  BY DEF IntakeTyped, IdleMaker, NothingIntended, NotAsking, NoWords, Origins
<1>2. (\A p \in Makers : Left(making[p])) /\ Apart
  BY DEF Left, LeftIn, Apart, IdleMaker
<1>3. FilesFit /\ OrderFits
  BY DEF FilesFit, OrderFits
<1>4. WordsKnown(intended.words) /\ WordsKnown(asking.words) /\ ProofInOrder
  BY DEF WordsKnown, NothingIntended, NotAsking, NoWords, NothingTold, ProofInOrder
<1> QED
  BY <1>1, <1>2, <1>3, <1>4 DEF IntakeInv

\* a step that leaves the files, the makers and the order alone
LEMMA FilesStay ==
  ASSUME IntakeInv, UNCHANGED <<filed, latest, pages, specs, making, order>>,
         \A s \in stories' : s.id \in specs,
         intended' \in [there : BOOLEAN, words : Origins], asking'.words \in Origins,
         WordsKnown(intended'.words), WordsKnown(asking'.words), ProofInOrder'
  PROVE  IntakeInv'
<1>1. IntakeTyped'
  BY DEF IntakeInv, IntakeTyped
<1>2. (\A p \in Makers : Left(making[p]))' /\ Apart'
  BY DEF IntakeInv, Left, LeftIn, Apart, Ranked
<1>3. FilesFit' /\ OrderFits'
  BY DEF IntakeInv, FilesFit, OrderFits
<1>4. WordsKnown(intended.words)' /\ WordsKnown(asking.words)'
  BY DEF WordsKnown, Ranked
<1> QED
  BY <1>1, <1>2, <1>3, <1>4 DEF IntakeInv

\* nothing is said of a proof
LEMMA Unsaid ==
  ASSUME told'.command # "proof" PROVE ProofInOrder'
BY DEF ProofInOrder

\* a step of one maker, which has left more behind it than before
\* what the step of a maker to m must see to
FilesGrow ==
  /\ filed \subseteq filed' /\ filed' \subseteq Contracts
  /\ pages \subseteq pages' /\ pages' \subseteq Ids
  /\ specs \subseteq specs' /\ specs' \subseteq Ids
  /\ Ranked \subseteq Ranked'
  /\ \A id \in specs' : id \in pages' /\ \E c \in filed' : c.id = id

LeavesOthers(p, m) ==
  \A q \in Makers \ {p} :
    /\ making[q].at \in {"json", "latest"} => making[q].contract.id \notin Ranked'
    /\ making[q].at = "json" => \A c \in filed' : c.id # making[q].contract.id
    /\ m.at # "idle" \/ making[q].at # "idle" => m.contract.id # making[q].contract.id

StillWhole(p, m) ==
  \A c \in filed' : \/ c.id \in specs'
                    \/ c \in filed /\ making[p].contract.id # c.id
                    \/ m.at # "idle" /\ m.contract.id = c.id

LEMMA MakerStep ==
  ASSUME IntakeInv, NEW p \in Makers, NEW m, making' = [making EXCEPT ![p] = m],
         m \in [at : {"idle", "json", "latest", "page", "spec", "dead"},
                contract : Contracts \cup {NoContractYet}],
         LeftIn(m, filed', Ranked', pages'), OrderFits',
         FilesGrow, LeavesOthers(p, m), StillWhole(p, m),
         UNCHANGED <<stories, intended, asking>>, told'.command # "proof"
  PROVE  IntakeInv'
<1>1. IntakeTyped'
  BY DEF IntakeInv, IntakeTyped, FilesGrow
<1>2. ASSUME NEW q \in Makers PROVE Left(making[q])'
  <2>1. CASE q = p
    <3>1. making'[q] = m
      BY <2>1 DEF IntakeInv, IntakeTyped
    <3> QED
      BY <3>1 DEF Left
  <2>2. CASE q # p
    <3>1. making'[q] = making[q] /\ Left(making[q])
      BY <2>2 DEF IntakeInv, IntakeTyped
    <3> QED
      BY <2>2, <3>1 DEF Left, LeftIn, FilesGrow, LeavesOthers
  <2> QED
    BY <2>1, <2>2
<1>3. Apart'
  <2> SUFFICES ASSUME NEW q \in Makers, NEW r \in Makers, q # r, making'[q].at # "idle"
      PROVE making'[q].contract.id # making'[r].contract.id
    BY DEF Apart
  <2>1. /\ making'[p] = m
        /\ \A s \in Makers \ {p} : making'[s] = making[s]
    BY DEF IntakeInv, IntakeTyped
  <2>2. CASE q = p
    BY <2>1, <2>2 DEF LeavesOthers
  <2>3. CASE r = p
    BY <2>1, <2>3 DEF LeavesOthers
  <2>4. CASE q # p /\ r # p
    BY <2>1, <2>4 DEF IntakeInv, Apart
  <2> QED
    BY <2>2, <2>3, <2>4
<1>4. FilesFit'
  <2>1. /\ making'[p] = m
        /\ \A s \in Makers \ {p} : making'[s] = making[s]
    BY DEF IntakeInv, IntakeTyped
  <2>2. ASSUME NEW c \in filed', c.id \notin specs'
        PROVE  \E q \in Makers : making'[q].at # "idle" /\ making'[q].contract.id = c.id
    <3>1. CASE m.at # "idle" /\ m.contract.id = c.id
      BY <2>1, <3>1
    <3>2. CASE c \in filed /\ making[p].contract.id # c.id
      <4>1. PICK q \in Makers : making[q].at # "idle" /\ making[q].contract.id = c.id
        BY <2>2, <3>2 DEF IntakeInv, FilesFit, FilesGrow
      <4>2. q # p
        BY <3>2, <4>1
      <4> QED
        BY <2>1, <4>1, <4>2
    <3> QED
      BY <2>2, <3>1, <3>2 DEF StillWhole
  <2> QED
    BY <2>2 DEF FilesFit, FilesGrow
<1>5. WordsKnown(intended.words)' /\ WordsKnown(asking.words)'
  BY DEF IntakeInv, WordsKnown, FilesGrow
<1>6. ProofInOrder'
  BY Unsaid
<1> QED
  BY <1>1, <1>2, <1>3, <1>4, <1>5, <1>6 DEF IntakeInv

LEMMA NormalizeKeeps ==
  ASSUME IntakeInv, NEW p \in Makers, Normalize(p), told = NothingTold PROVE IntakeInv'
<1>1. PICK text \in Texts, id \in Ids :
        /\ id \notin Used
        /\ making' = [making EXCEPT ![p] = [at |-> "json", contract |-> [id |-> id, of |-> text]]]
  BY DEF Normalize
<1>0. PICK m : m = [at |-> "json", contract |-> [id |-> id, of |-> text]]
  OBVIOUS
<1>2. m.contract \in Contracts /\ m.at = "json" /\ m.contract.id = id
  BY <1>0 DEF Contracts
<1>3. m \in [at : {"idle", "json", "latest", "page", "spec", "dead"},
             contract : Contracts \cup {NoContractYet}]
  BY <1>0, <1>2
<1>4. /\ \A c \in filed : c.id # id
      /\ \A q \in Makers : making[q].contract.id # id
  BY <1>1 DEF Used
<1>5. id \notin Ranked
  BY <1>4 DEF IntakeInv, OrderFits, Ranked
<1>6. UNCHANGED <<filed, latest, pages, specs, stories, intended, asking, told, order>>
  BY DEF Normalize
<1>7. LeftIn(m, filed', Ranked', pages')
  BY <1>2, <1>4, <1>5, <1>6, NoContractIsNone DEF Left, LeftIn, Ranked
<1>8. OrderFits' /\ Ranked' = Ranked
  BY <1>6 DEF IntakeInv, OrderFits, Ranked
<1>9. making[p].contract.id = 0 /\ filed \subseteq Contracts
  BY DEF Normalize, IntakeInv, Left, LeftIn, NoContractYet, IntakeTyped
<1>10. \A c \in filed : c.id # 0
  BY <1>9 DEF Contracts, Ids
<1>11. told'.command # "proof"
  BY <1>6 DEF NothingTold
<1>12. LeavesOthers(p, m)
  BY <1>2, <1>4, <1>6, <1>8 DEF IntakeInv, Left, LeftIn, LeavesOthers
<1>13. FilesGrow
  BY <1>6, <1>8 DEF IntakeInv, FilesFit, IntakeTyped, FilesGrow
<1>14. StillWhole(p, m)
  BY <1>6, <1>9, <1>10 DEF StillWhole
<1> QED
  BY <1>0, <1>1, <1>3, <1>6, <1>7, <1>8, <1>11, <1>12, <1>13, <1>14, MakerStep

\* what a maker at work knows of its contract
LEMMA AtWork ==
  ASSUME IntakeInv, NEW p \in Makers, making[p].at # "idle"
  PROVE  /\ making[p].contract \in Contracts /\ Left(making[p])
         /\ \A q \in Makers \ {p} : making[p].contract.id # making[q].contract.id
BY DEF IntakeInv, IntakeTyped, Left, LeftIn, Apart

\* a maker goes on, with its contract
LEMMA MakerGoesOn ==
  ASSUME IntakeInv, NEW p \in Makers, making[p].at # "idle",
         NEW at \in {"json", "latest", "page", "spec", "dead"}, Goto(p, at),
         filed' \in {filed, filed \cup {making[p].contract}},
         pages' \in {pages, pages \cup {making[p].contract.id}},
         LeftIn([making[p] EXCEPT !.at = at], filed', Ranked', pages'), OrderFits', Ranked \subseteq Ranked',
         Ranked' \subseteq Ranked \cup {making[p].contract.id},
         UNCHANGED <<specs, stories, intended, asking, told>>, told = NothingTold
  PROVE  IntakeInv'
<1>0. PICK m : m = [making[p] EXCEPT !.at = at]
  OBVIOUS
<1>1. /\ making[p].contract \in Contracts /\ Left(making[p])
      /\ \A q \in Makers \ {p} : making[p].contract.id # making[q].contract.id
  BY AtWork
<1>2. making[p] \in [at : {"idle", "json", "latest", "page", "spec", "dead"},
                     contract : Contracts \cup {NoContractYet}]
  BY DEF IntakeInv, IntakeTyped
<1>3. /\ m.at = at /\ m.contract = making[p].contract
      /\ m \in [at : {"idle", "json", "latest", "page", "spec", "dead"},
                contract : Contracts \cup {NoContractYet}]
      /\ LeftIn(m, filed', Ranked', pages')
  BY <1>0, <1>2
<1>4. making' = [making EXCEPT ![p] = m]
  BY <1>0 DEF Goto
<1>5. making[p].contract.id \in Ids
  BY <1>1 DEF Contracts
<1>6. FilesGrow
  <2>1. filed' \subseteq Contracts /\ pages' \subseteq Ids /\ specs' \subseteq Ids
    BY <1>1, <1>5 DEF IntakeInv, IntakeTyped
  <2> QED
    BY <2>1 DEF IntakeInv, FilesFit, FilesGrow
<1>7. LeavesOthers(p, m)
  BY <1>1, <1>3 DEF IntakeInv, Left, LeftIn, LeavesOthers
<1>8. StillWhole(p, m)
  BY <1>3 DEF StillWhole
<1>9. told'.command # "proof"
  BY DEF NothingTold
<1> QED
  BY <1>3, <1>4, <1>6, <1>7, <1>8, <1>9, MakerStep

\* where the contract of a maker that goes on is
LEMMA StillIts ==
  ASSUME IntakeInv, NEW p \in Makers, making[p].at # "idle", NEW at
  PROVE  /\ [making[p] EXCEPT !.at = at].at = at
         /\ [making[p] EXCEPT !.at = at].contract = making[p].contract
         /\ making[p].contract \in Contracts /\ making[p].contract # NoContractYet
         /\ making[p].contract.id \in Ids /\ Left(making[p])
<1>1. making[p] \in [at : {"idle", "json", "latest", "page", "spec", "dead"},
                     contract : Contracts \cup {NoContractYet}]
  BY DEF IntakeInv, IntakeTyped
<1>2. making[p].contract \in Contracts /\ Left(making[p])
  BY AtWork
<1> QED
  BY <1>1, <1>2, NoContractIsNone DEF Contracts

LEMMA WriteJsonKeeps ==
  ASSUME IntakeInv, NEW p \in Makers, WriteJson(p), told = NothingTold PROVE IntakeInv'
<1>1. making[p].at = "json" /\ filed' = filed \cup {making[p].contract} /\ Goto(p, "latest")
  BY DEF WriteJson
<1>2. UNCHANGED <<latest, pages, specs, stories, intended, asking, told, order>>
  BY DEF WriteJson
<1> DEFINE m == [making[p] EXCEPT !.at = "latest"]
<1>3. /\ m.at = "latest" /\ m.contract = making[p].contract /\ m.contract # NoContractYet
      /\ m.contract.id \notin Ranked
  BY <1>1, StillIts DEF Left, LeftIn
<1>4. OrderFits' /\ Ranked' = Ranked
  BY <1>1, <1>2 DEF IntakeInv, OrderFits, Ranked
<1>5. LeftIn(m, filed', Ranked', pages')
  BY <1>1, <1>3, <1>4 DEF Left, LeftIn
<1> QED
  BY <1>1, <1>2, <1>4, <1>5, MakerGoesOn

LEMMA WriteLatestKeeps ==
  ASSUME IntakeInv, NEW p \in Makers, WriteLatest(p), told = NothingTold PROVE IntakeInv'
<1> DEFINE own == making[p].contract
           m == [making[p] EXCEPT !.at = "page"]
<1>1. /\ making[p].at = "latest" /\ latest' = own /\ order' = Append(order, own.id)
      /\ Goto(p, "page")
  BY DEF WriteLatest
<1>2. UNCHANGED <<filed, pages, specs, stories, intended, asking, told>>
  BY DEF WriteLatest
<1>3. /\ m.at = "page" /\ m.contract = own /\ own # NoContractYet /\ own.id \in Ids
      /\ own \in filed /\ own.id \notin Ranked
  BY <1>1, StillIts DEF Left, LeftIn
<1>4. order \in Seq(Ids)
  BY DEF IntakeInv, OrderFits
<1>5. /\ order' \in Seq(Ids) /\ Len(order') = Len(order) + 1 /\ Len(order) \in Nat
      /\ DOMAIN order' = 1..(Len(order) + 1) /\ DOMAIN order = 1..Len(order)
      /\ order'[Len(order) + 1] = own.id
      /\ \A i \in DOMAIN order : order'[i] = order[i]
  BY <1>1, <1>3, <1>4
<1>6. /\ Ranked' \subseteq Ranked \cup {own.id} /\ Ranked \subseteq Ranked'
  BY <1>5 DEF Ranked
<1>7. OrderFits'
  <2>1. \A i, j \in DOMAIN order' : order'[i] = order'[j] => i = j
    BY <1>3, <1>5 DEF IntakeInv, OrderFits, Ranked
  <2>2. \A i \in DOMAIN order' : \E c \in filed' : c.id = order'[i]
    BY <1>2, <1>3, <1>5 DEF IntakeInv, OrderFits
  <2>3. latest' # NoContractYet /\ latest' \in filed' /\ order' # <<>> /\ latest'.id = order'[Len(order')]
    BY <1>1, <1>2, <1>3, <1>5
  <2> QED
    BY <1>5, <2>1, <2>2, <2>3 DEF OrderFits
<1>8. LeftIn(m, filed', Ranked', pages')
  BY <1>2, <1>3 DEF Left, LeftIn
<1> QED
  BY <1>1, <1>2, <1>6, <1>7, <1>8, MakerGoesOn

LEMMA WritePageKeeps ==
  ASSUME IntakeInv, NEW p \in Makers, WritePage(p), told = NothingTold PROVE IntakeInv'
<1> DEFINE m == [making[p] EXCEPT !.at = "spec"]
<1>1. /\ making[p].at = "page" /\ pages' = pages \cup {making[p].contract.id}
      /\ Goto(p, "spec") /\ UNCHANGED <<filed, latest, specs, stories, intended, asking, told, order>>
  BY DEF WritePage
<1>2. /\ m.at = "spec" /\ m.contract = making[p].contract /\ m.contract # NoContractYet
      /\ m.contract \in filed
  BY <1>1, StillIts DEF Left, LeftIn
<1>3. OrderFits' /\ Ranked' = Ranked
  BY <1>1 DEF IntakeInv, OrderFits, Ranked
<1>4. LeftIn(m, filed', Ranked', pages')
  BY <1>1, <1>2 DEF Left, LeftIn
<1> QED
  BY <1>1, <1>3, <1>4, MakerGoesOn

LEMMA MakerDiesKeeps ==
  ASSUME IntakeInv, NEW p \in Makers, MakerDies(p), told = NothingTold PROVE IntakeInv'
<1> DEFINE m == [making[p] EXCEPT !.at = "dead"]
<1>1. /\ making[p].at # "idle" /\ Goto(p, "dead")
      /\ UNCHANGED <<filed, latest, pages, specs, stories, intended, asking, told, order>>
  BY DEF MakerDies
<1>2. m.at = "dead" /\ m.contract # NoContractYet
  BY <1>1, StillIts
<1>3. OrderFits' /\ Ranked' = Ranked
  BY <1>1 DEF IntakeInv, OrderFits, Ranked
<1>4. LeftIn(m, filed', Ranked', pages')
  BY <1>2 DEF Left, LeftIn
<1> QED
  BY <1>1, <1>3, <1>4, MakerGoesOn

LEMMA WriteSpecKeeps ==
  ASSUME IntakeInv, NEW p \in Makers, WriteSpec(p), told = NothingTold PROVE IntakeInv'
<1> DEFINE own == making[p].contract
<1>1. /\ making[p].at = "spec" /\ specs' = specs \cup {own.id}
      /\ making' = [making EXCEPT ![p] = IdleMaker]
      /\ UNCHANGED <<filed, latest, pages, stories, intended, asking, order>>
  BY DEF WriteSpec
<1>2. own \in filed /\ own.id \in pages /\ own.id \in Ids
  BY <1>1, StillIts DEF Left, LeftIn
<1>3. OrderFits' /\ Ranked' = Ranked
  BY <1>1 DEF IntakeInv, OrderFits, Ranked
<1>4. told'.command # "proof"
  BY DEF WriteSpec, NothingTold
<1>5. /\ IdleMaker \in [at : {"idle", "json", "latest", "page", "spec", "dead"},
                        contract : Contracts \cup {NoContractYet}]
      /\ IdleMaker.at = "idle" /\ IdleMaker.contract.id = 0 /\ LeftIn(IdleMaker, filed', Ranked', pages')
  BY DEF IdleMaker, Left, LeftIn, NoContractYet
<1>6. FilesGrow
  BY <1>1, <1>2, <1>3 DEF IntakeInv, IntakeTyped, FilesFit, FilesGrow
<1>7. LeavesOthers(p, IdleMaker)
  <2> SUFFICES ASSUME NEW q \in Makers \ {p}
      PROVE  /\ making[q].at \in {"json", "latest"} => making[q].contract.id \notin Ranked'
             /\ making[q].at = "json" => \A c \in filed' : c.id # making[q].contract.id
             /\ making[q].at # "idle" => 0 # making[q].contract.id
    BY <1>5 DEF LeavesOthers
  <2>1. Left(making[q])
    BY DEF IntakeInv
  <2>2. making[q].at # "idle" => making[q].contract.id # 0
    BY AtWork DEF Contracts, Ids
  <2> QED
    BY <1>1, <1>3, <2>1, <2>2 DEF Left, LeftIn
<1>8. StillWhole(p, IdleMaker)
  BY <1>1 DEF StillWhole
<1> QED
  BY <1>1, <1>3, <1>4, <1>5, <1>6, <1>7, <1>8, MakerStep

\* whose delta a build takes
LEMMA DeltaKnown ==
  ASSUME IntakeInv, NEW guarded \in BOOLEAN
  PROVE  DeltaOf(guarded) \in Origins /\ WordsKnown(DeltaOf(guarded))
<1>1. CASE latest # NoContractYet
  <2>1. order \in Seq(Ids) /\ order # <<>> /\ latest.id = order[Len(order)]
    BY <1>1 DEF IntakeInv, OrderFits
  <2>2. Len(order) \in DOMAIN order
    BY <2>1
  <2>3. latest.id \in Ids /\ latest.id \in Ranked
    BY <2>1, <2>2 DEF Ranked
  <2>4. latest.id \in Nat
    BY <2>3 DEF Ids
  <2> QED
    BY <1>1, <2>3, <2>4 DEF DeltaOf, Origins, WordsKnown
<1>2. CASE latest = NoContractYet
  BY <1>2 DEF DeltaOf, Origins, WordsKnown, NoWords
<1> QED
  BY <1>1, <1>2

LEMMA OthersKeepIntake ==
  ASSUME IntakeInv, told = NothingTold,
         \/ AddTemplate \/ DecomposeSpec \/ PreviewLatest \/ Preview \/ ReviewContract
         \/ BeginBuild \/ EndBuild \/ BeginProof
  PROVE  IntakeInv'
<1>1. UNCHANGED <<filed, latest, pages, specs, making, order>>
  BY DEF AddTemplate, DecomposeSpec, PreviewLatest, Preview, ReviewContract, BeginBuild,
         EndBuild, BeginProof
<1>2. told'.command # "proof"
  <2>1. CASE DecomposeSpec
    BY <2>1 DEF DecomposeSpec, NothingTold
  <2>2. CASE Preview
    BY <2>2 DEF Preview, NothingTold
  <2>3. CASE ReviewContract
    BY <2>3 DEF ReviewContract, NothingTold
  <2>4. CASE AddTemplate \/ PreviewLatest \/ BeginBuild \/ EndBuild \/ BeginProof
    BY <2>4 DEF AddTemplate, PreviewLatest, BeginBuild, EndBuild, BeginProof, NothingTold
  <2> QED
    BY <2>1, <2>2, <2>3, <2>4
<1>5. \A s \in stories' : s.id \in specs
  <2>1. \A s \in stories : s.id \in specs
    BY DEF IntakeInv, IntakeTyped
  <2>2. CASE DecomposeSpec
    <3>1. PICK c \in filed :
            /\ c.id \in specs
            /\ stories' = stories \cup {[id |-> c.id, tier |-> SpecTier(c)]}
               \/ stories' = stories
      BY <2>2 DEF DecomposeSpec
    <3> QED
      BY <2>1, <3>1
  <2>3. CASE ~DecomposeSpec
    BY <2>1, <2>3 DEF AddTemplate, PreviewLatest, Preview, ReviewContract, BeginBuild, EndBuild,
       BeginProof
  <2> QED
    BY <2>2, <2>3
<1>3. intended' \in [there : BOOLEAN, words : Origins] /\ WordsKnown(intended'.words)
  <2>1. intended \in [there : BOOLEAN, words : Origins] /\ WordsKnown(intended.words)
    BY DEF IntakeInv, IntakeTyped
  <2>2. CASE UNCHANGED intended
    BY <2>1, <2>2
  <2>3. ASSUME NEW guarded \in BOOLEAN,
               \/ intended' = [there |-> TRUE, words |-> DeltaOf(guarded)]
               \/ intended' = [intended EXCEPT !.words = DeltaOf(guarded)]
        PROVE  intended' \in [there : BOOLEAN, words : Origins] /\ WordsKnown(intended'.words)
    <3>1. DeltaOf(guarded) \in Origins /\ WordsKnown(DeltaOf(guarded))
      BY DeltaKnown
    <3>2. CASE intended' = [there |-> TRUE, words |-> DeltaOf(guarded)]
      BY <3>1, <3>2
    <3>3. CASE intended' = [intended EXCEPT !.words = DeltaOf(guarded)]
      BY <2>1, <3>1, <3>3
    <3> QED
      BY <2>3, <3>2, <3>3
  <2>4. PICK guarded \in BOOLEAN : guarded = (intended.words.from = "brief")
    OBVIOUS
  <2>5. \/ UNCHANGED intended
        \/ \E g \in BOOLEAN : \/ intended' = [there |-> TRUE, words |-> DeltaOf(g)]
                              \/ intended' = [intended EXCEPT !.words = DeltaOf(g)]
    BY <2>4 DEF AddTemplate, DecomposeSpec, PreviewLatest, Preview, ReviewContract, BeginBuild,
           EndBuild, BeginProof
  <2> QED
    BY <2>2, <2>3, <2>5
<1>4. asking'.words \in Origins /\ WordsKnown(asking'.words)
  <2>1. /\ asking.words \in Origins /\ WordsKnown(asking.words)
        /\ intended.words \in Origins /\ WordsKnown(intended.words)
    BY DEF IntakeInv, IntakeTyped
  <2>2. NoWords \in Origins /\ WordsKnown(NoWords)
    BY DEF NoWords, Origins, WordsKnown
  <2>3. CASE PreviewLatest \/ Preview
    <3>1. asking'.words = NoWords
      <4>1. CASE Preview
        BY <4>1 DEF Preview, NotAsking
      <4>2. CASE PreviewLatest
        BY <4>2 DEF PreviewLatest, NotAsking
      <4> QED
        BY <2>3, <4>1, <4>2
    <3> QED
      BY <2>2, <3>1
  <2>4. CASE BeginProof
    BY <2>1, <2>4 DEF BeginProof, NotAsking
  <2>5. CASE AddTemplate \/ DecomposeSpec \/ ReviewContract \/ BeginBuild \/ EndBuild
    BY <2>1, <2>5 DEF AddTemplate, DecomposeSpec, ReviewContract, BeginBuild, EndBuild
  <2> QED
    BY <2>3, <2>4, <2>5
<1> QED
  BY <1>1, <1>2, <1>3, <1>4, <1>5, FilesStay, Unsaid

\* the contract a card names became the latest after any whose delta it shows
LEMMA ShowProofKeeps ==
  ASSUME IntakeInv, told = NothingTold, ShowProof PROVE IntakeInv'
<1> DEFINE words == IF asking.words = NoWords THEN DeltaOf(FALSE) ELSE asking.words
<1>1. /\ told' = [NothingTold EXCEPT !.command = "proof", !.id = latest.id, !.words = words]
      /\ asking' = NotAsking
      /\ UNCHANGED <<filed, latest, pages, specs, making, stories, intended, order>>
  BY DEF ShowProof
<1>2. WordsKnown(words)
  BY DeltaKnown DEF IntakeInv
<1> HIDE DEF words
<1>3. told'.words = words /\ told'.id = latest.id
  BY <1>1 DEF NothingTold
<1>4. ASSUME words.from = "intake" PROVE Turn(words.id) <= Turn(latest.id)
  <2>1. PICK i \in DOMAIN order : order[i] = words.id
    BY <1>2, <1>4 DEF WordsKnown, Ranked
  <2>2. latest # NoContractYet
    BY <1>1, <1>2, <1>4, <2>1 DEF IntakeInv, OrderFits
  <2>3. order \in Seq(Ids) /\ latest.id = order[Len(order)] /\ Len(order) \in DOMAIN order
    BY <2>1, <2>2 DEF IntakeInv, OrderFits
  <2>4. Turn(words.id) = i /\ Turn(latest.id) = Len(order)
    BY <2>1, <2>3, TurnIs DEF IntakeInv
  <2> QED
    BY <2>1, <2>3, <2>4
<1>5. ProofInOrder'
  BY <1>1, <1>3, <1>4 DEF ProofInOrder, Turn, SelectInSeq
<1>6. asking'.words \in Origins /\ WordsKnown(asking'.words)
  BY <1>1 DEF NotAsking, NoWords, Origins, WordsKnown
<1>7. /\ intended' \in [there : BOOLEAN, words : Origins] /\ WordsKnown(intended'.words)
      /\ \A s \in stories' : s.id \in specs
  BY <1>1 DEF IntakeInv, IntakeTyped
<1> QED
  BY <1>1, <1>5, <1>6, <1>7, FilesStay

LEMMA IntakeKeeps == IntakeInv /\ [IntakeNext]_intakeVars => IntakeInv'
<1> SUFFICES ASSUME IntakeInv, [IntakeNext]_intakeVars PROVE IntakeInv'
  OBVIOUS
<1>1. CASE Heard
  <2>1. UNCHANGED <<filed, latest, pages, specs, making, stories, intended, asking, order>>
    BY <1>1 DEF Heard
  <2>2. ProofInOrder'
    BY <1>1, Unsaid DEF Heard, NothingTold
  <2> QED
    BY <2>1, <2>2, FilesStay DEF IntakeInv, IntakeTyped
<1>2. CASE UNCHANGED intakeVars
  <2>1. UNCHANGED <<filed, latest, pages, specs, making, stories, intended, asking, order, told>>
    BY <1>2 DEF intakeVars
  <2>2. ProofInOrder'
    BY <2>1 DEF IntakeInv, ProofInOrder, Turn, SelectInSeq
  <2> QED
    BY <2>1, <2>2, FilesStay DEF IntakeInv, IntakeTyped
<1>3. CASE told = NothingTold /\ IntakeStep
  BY <1>3, NormalizeKeeps, WriteJsonKeeps, WriteLatestKeeps, WritePageKeeps, WriteSpecKeeps,
     MakerDiesKeeps, OthersKeepIntake, ShowProofKeeps DEF IntakeStep
<1> QED
  BY <1>1, <1>2, <1>3 DEF IntakeNext

(* However intakes, builds and proof cards overlap, and wherever an intake  *)
(* dies: the latest contract can be loaded, every specification has its     *)
(* contract, when none broke off every contract its specification, and no   *)
(* card shows the delta of a contract younger than the one it names.        *)
THEOREM IntakeIsSound == IntakeSpec => []IntakeSound
<1>1. IntakeInit => IntakeInv
  BY IntakeStarts
<1>2. IntakeInv /\ [IntakeNext]_intakeVars => IntakeInv'
  BY IntakeKeeps
<1>3. IntakeInv => IntakeSound
  <2> SUFFICES ASSUME IntakeInv PROVE IntakeSound
    OBVIOUS
  <2>1. IntakeTypeOK
    BY DEF IntakeInv, IntakeTyped, IntakeTypeOK, Contracts
  <2>2. NothingDangles
    BY DEF IntakeInv, FilesFit, OrderFits, NothingDangles
  <2>3. WholeWhenIdle
    BY DEF IntakeInv, FilesFit, WholeWhenIdle
  <2> QED
    BY <2>1, <2>2, <2>3 DEF IntakeInv, IntakeSound
<1> QED
  BY <1>1, <1>2, <1>3, PTL DEF IntakeSpec

-----------------------------------------------------------------------------
(* The strengthening.  What a merge rests on was weighed in SavePacket, so *)
(* it is followed from there: a blocker that was found stays, and nothing  *)
(* it was found by changes any more.                                       *)

\* the agent has ended, and so has everything that writes the delta
AgentGone ==
  \/ build.at \in {"ended", "verified", "tested", "judged", "decided", "merging", "closed"}
  \/ build.merged

Verified ==
  \/ build.at \in {"verified", "tested", "judged", "decided", "merging", "closed"}
  \/ build.merged

Judged == build.at \in {"judged", "decided", "merging", "closed"} \/ build.merged

ScopeTaken ==
  /\ Profile \notin build.scope
  /\ build.at = "running" /\ build.mode = "greenfield" => build.scope = {}
  /\ AgentGone /\ build.mode = "greenfield" => build.scope = changed \ {Profile}

MergeLast ==
  /\ build.merged => build.at \in {"merging", "closed", "dead"}
  /\ build.session = "completed" => build.at = "closed" /\ build.merged
  /\ build.at = "closed" /\ build.merged => build.session = "completed"

ClaimJudged == Verified /\ build.exit = "ok" => build.verification # "none"

BlockersFound ==
  Judged =>
    /\ build.verification = "failed" => "claim" \in build.blockers
    /\ build.failed # {} => "suites" \in build.blockers
    /\ ScopeViolations # {} => "scope" \in build.blockers
    /\ build.yes /\ build.mode = "brownfield" /\ build.scope = {} => "unknown_scope" \in build.blockers
    /\ build.inferred = build.passed \cup build.failed

MergeReady ==
  build.merged => build.exit = "ok" /\ build.blockers = {} /\ GovernanceClear /\ build.approved

EvidenceInv ==
  /\ EvidenceTypeOK /\ ScopeTaken /\ MergeLast /\ ClaimJudged /\ BlockersFound /\ MergeReady

-----------------------------------------------------------------------------
(* What sensors come to is two truth values.                               *)
LEMMA OutcomesBoolean ==
  ASSUME NEW tier \in Tiers, NEW o \in SensorOutcomes[tier]
  PROVE  o.green \in BOOLEAN /\ o.alarm \in BOOLEAN
<1>1. SensorOutcomes[tier] =
        {[green |-> \A r \in {a, b} : r.passed, alarm |-> \E r \in {a, b} : Alarms(tier, r)] :
           a \in SensorResults, b \in SensorResults}
        \cup {[green |-> FALSE, alarm |-> FALSE]}
  BY DEF SensorOutcomes
<1>2. CASE o = [green |-> FALSE, alarm |-> FALSE]
  BY <1>2
<1>3. CASE o # [green |-> FALSE, alarm |-> FALSE]
  <2>1. PICK a \in SensorResults, b \in SensorResults :
          o = [green |-> \A r \in {a, b} : r.passed, alarm |-> \E r \in {a, b} : Alarms(tier, r)]
    BY <1>1, <1>3
  <2> QED
    BY <2>1
<1> QED
  BY <1>2, <1>3

(* The first snapshot: nothing has been weighed.                           *)
LEMMA InitEvidence == EvidenceInit => EvidenceInv
<1> SUFFICES ASSUME EvidenceInit PROVE EvidenceInv
  OBVIOUS
<1>1. PICK s \in SUBSET Files : build \in {NewBuild("greenfield", {}), NewBuild("brownfield", s)}
  BY DEF EvidenceInit
<1>2. PICK mode \in Modes, scope \in SUBSET Files :
        build = NewBuild(mode, scope) /\ (mode = "greenfield" => scope = {})
  BY <1>1 DEF Modes
<1>3. EvidenceTypeOK
  BY <1>2 DEF EvidenceInit, EvidenceTypeOK, Builds, NewBuild, Paths, BuildPhases, Tiers
<1>4. /\ build.at = "running" /\ build.merged = FALSE /\ build.session = "running"
      /\ build.scope = scope /\ build.mode = mode
  BY <1>2 DEF NewBuild
<1>5. ScopeTaken /\ MergeLast
  BY <1>2, <1>4, EvidenceConstants DEF ScopeTaken, MergeLast, AgentGone
<1>6. ClaimJudged /\ BlockersFound /\ MergeReady
  BY <1>4 DEF ClaimJudged, BlockersFound, MergeReady, Verified, Judged
<1> QED
  BY <1>3, <1>5, <1>6 DEF EvidenceInv

-----------------------------------------------------------------------------
(* The steps, one by one.  A step changes the fields it names and leaves   *)
(* the others alone; what is said of these follows from the step before.   *)
LEMMA WriteKeeps ==
  ASSUME EvidenceInv, NEW p \in Paths, WritePath(p)
  PROVE  EvidenceInv'
<1>1. build.at = "running" /\ build' = build /\ changed' = changed \cup {p}
  BY DEF WritePath
<1>2. ~build.merged /\ build.session # "completed"
  BY <1>1 DEF EvidenceInv, MergeLast
<1>3. EvidenceTypeOK'
  BY <1>1 DEF EvidenceInv, EvidenceTypeOK
<1>4. ScopeTaken' /\ MergeLast'
  BY <1>1, <1>2 DEF EvidenceInv, ScopeTaken, MergeLast, AgentGone
<1>5. ClaimJudged' /\ BlockersFound' /\ MergeReady'
  BY <1>1, <1>2 DEF ClaimJudged, BlockersFound, MergeReady, Verified, Judged
<1> QED
  BY <1>3, <1>4, <1>5 DEF EvidenceInv

LEMMA RuntimeEndsKeeps ==
  ASSUME EvidenceInv, RuntimeEnds
  PROVE  EvidenceInv'
<1>1. PICK exit \in {"ok", "failed"} :
        build' = [build EXCEPT !.at = "ended", !.exit = exit, !.scope = EffectiveScope]
  BY DEF RuntimeEnds
<1>2. build.at = "running" /\ changed' = changed
  BY DEF RuntimeEnds
<1>3. build \in Builds /\ changed \in SUBSET Paths
  BY DEF EvidenceInv, EvidenceTypeOK
<1>4. ~build.merged /\ build.session # "completed"
  BY <1>2 DEF EvidenceInv, MergeLast
<1>5. EffectiveScope \in SUBSET Paths
  BY <1>3 DEF EffectiveScope, Builds
<1>6. EvidenceTypeOK'
  BY <1>1, <1>2, <1>3, <1>5 DEF EvidenceTypeOK, Builds, BuildPhases
<1>7. /\ build'.at = "ended" /\ build'.scope = EffectiveScope /\ build'.merged = build.merged
      /\ build'.mode = build.mode /\ build'.session = build.session
  BY <1>1, <1>3 DEF Builds
<1>8. ScopeTaken'
  BY <1>2, <1>7 DEF EvidenceInv, ScopeTaken, EffectiveScope, AgentGone
<1>9. MergeLast' /\ ClaimJudged' /\ BlockersFound' /\ MergeReady'
  BY <1>4, <1>7 DEF MergeLast, ClaimJudged, BlockersFound, MergeReady, Verified, Judged
<1> QED
  BY <1>6, <1>8, <1>9 DEF EvidenceInv

LEMMA VerifyClaimKeeps ==
  ASSUME EvidenceInv, VerifyClaim
  PROVE  EvidenceInv'
<1>1. build \in Builds /\ changed \in SUBSET Paths
  BY DEF EvidenceInv, EvidenceTypeOK
<1>2. PICK excused \in BOOLEAN, verification \in {"none", "passed", "failed"} :
        /\ build' = [build EXCEPT !.at = "verified", !.excused = excused,
                                  !.verification = verification]
        /\ build.exit = "ok" => verification # "none"
  <2>1. PICK c \in Claims, p \in Profiles, r \in Reports :
          build' = [build EXCEPT !.at = "verified",
                      !.excused = build.exit = "ok" /\ c.given /\ Excused(c, p, r),
                      !.verification = IF build.exit = "failed" THEN "none"
                                       ELSE IF ClaimHolds(c, p, r) THEN "passed" ELSE "failed"]
    BY DEF VerifyClaim
  <2>2. (build.exit = "ok" /\ c.given /\ Excused(c, p, r)) \in BOOLEAN
    OBVIOUS
  <2> QED
    BY <2>1, <2>2
<1>3. build.at = "ended" /\ changed' = changed
  BY DEF VerifyClaim
<1>4. ~build.merged /\ build.session # "completed"
  BY <1>3 DEF EvidenceInv, MergeLast
<1>5. EvidenceTypeOK'
  BY <1>1, <1>2, <1>3 DEF EvidenceTypeOK, Builds, BuildPhases
<1>6. /\ build'.at = "verified" /\ build'.exit = build.exit /\ build'.merged = build.merged
      /\ build'.scope = build.scope /\ build'.mode = build.mode
      /\ build'.session = build.session
      /\ build.exit = "ok" => build'.verification # "none"
  BY <1>1, <1>2 DEF Builds
<1>7. ScopeTaken'
  BY <1>3, <1>6 DEF EvidenceInv, ScopeTaken, AgentGone
<1>8. MergeLast' /\ ClaimJudged' /\ BlockersFound' /\ MergeReady'
  BY <1>4, <1>6 DEF MergeLast, ClaimJudged, BlockersFound, MergeReady, Judged
<1> QED
  BY <1>5, <1>7, <1>8 DEF EvidenceInv

LEMMA SuitesKeep ==
  ASSUME EvidenceInv, InferSuites \/ \E s \in Suites : RunSuite(s)
  PROVE  EvidenceInv'
<1>1. build \in Builds /\ changed \in SUBSET Paths
  BY DEF EvidenceInv, EvidenceTypeOK
<1>2. /\ build.at \in {"verified", "tested"} /\ changed' = changed
      /\ \E inferred, passed, failed \in SUBSET Suites :
           build' = [build EXCEPT !.at = "tested", !.inferred = inferred, !.passed = passed,
                                  !.failed = failed]
  <2>1. CASE InferSuites
    <3>1. PICK suites \in SUBSET Suites :
            build' = [build EXCEPT !.at = "tested",
                        !.inferred = IF build.exit = "ok" THEN suites ELSE {}]
      BY <2>1 DEF InferSuites
    <3>2. build' = [build EXCEPT !.at = "tested",
                      !.inferred = IF build.exit = "ok" THEN suites ELSE {},
                      !.passed = build.passed, !.failed = build.failed]
      BY <3>1, <1>1 DEF Builds
    <3>3. build.passed \in SUBSET Suites /\ build.failed \in SUBSET Suites
      BY <1>1 DEF Builds
    <3> QED
      BY <2>1, <3>2, <3>3 DEF InferSuites
  <2>2. ASSUME NEW s \in Suites, RunSuite(s)
        PROVE  /\ build.at \in {"verified", "tested"} /\ changed' = changed
               /\ \E inferred, passed, failed \in SUBSET Suites :
                    build' = [build EXCEPT !.at = "tested", !.inferred = inferred,
                                           !.passed = passed, !.failed = failed]
    <3>0. build.at = "tested" /\ changed' = changed
      BY <2>2 DEF RunSuite
    <3>1. /\ build.inferred \in SUBSET Suites /\ build.passed \in SUBSET Suites
          /\ build.failed \in SUBSET Suites
      BY <1>1 DEF Builds
    <3>2. CASE build' = [build EXCEPT !.passed = @ \cup {s}]
      <4>1. build' = [build EXCEPT !.at = "tested", !.inferred = build.inferred,
                        !.passed = build.passed \cup {s}, !.failed = build.failed]
        BY <2>2, <3>2, <1>1 DEF RunSuite, Builds
      <4>2. build.passed \cup {s} \in SUBSET Suites
        BY <3>1
      <4> QED
        BY <3>0, <3>1, <4>1, <4>2
    <3>3. CASE build' = [build EXCEPT !.failed = @ \cup {s}]
      <4>1. build' = [build EXCEPT !.at = "tested", !.inferred = build.inferred,
                        !.passed = build.passed, !.failed = build.failed \cup {s}]
        BY <2>2, <3>3, <1>1 DEF RunSuite, Builds
      <4>2. build.failed \cup {s} \in SUBSET Suites
        BY <3>1
      <4> QED
        BY <3>0, <3>1, <4>1, <4>2
    <3> QED
      BY <2>2, <3>2, <3>3 DEF RunSuite
  <2> QED
    BY <2>1, <2>2
<1>3. PICK inferred, passed, failed \in SUBSET Suites :
        build' = [build EXCEPT !.at = "tested", !.inferred = inferred, !.passed = passed,
                               !.failed = failed]
  BY <1>2
<1>4. ~build.merged /\ build.session # "completed"
  BY <1>2 DEF EvidenceInv, MergeLast
<1>5. EvidenceTypeOK'
  BY <1>1, <1>2, <1>3 DEF EvidenceTypeOK, Builds, BuildPhases
<1>6. /\ build'.at = "tested" /\ build'.exit = build.exit /\ build'.merged = build.merged
      /\ build'.scope = build.scope /\ build'.mode = build.mode
      /\ build'.session = build.session /\ build'.verification = build.verification
  BY <1>1, <1>3 DEF Builds
<1>7. ScopeTaken'
  BY <1>2, <1>6 DEF EvidenceInv, ScopeTaken, AgentGone
<1>8. MergeLast' /\ ClaimJudged' /\ BlockersFound' /\ MergeReady'
  BY <1>2, <1>4, <1>6
  DEF EvidenceInv, MergeLast, ClaimJudged, BlockersFound, MergeReady, Judged, Verified
<1> QED
  BY <1>5, <1>7, <1>8 DEF EvidenceInv

(* Here the blockers are found, of what they are about ever after.         *)
LEMMA SavePacketKeeps ==
  ASSUME EvidenceInv, SavePacket
  PROVE  EvidenceInv'
<1>1. build \in Builds /\ changed \in SUBSET Paths
  BY DEF EvidenceInv, EvidenceTypeOK
<1>2. PICK tier \in Tiers, yes \in BOOLEAN, governance \in BOOLEAN, enforced \in BOOLEAN,
           accepted \in BOOLEAN : \E o \in SensorOutcomes[tier] :
        build' = [build EXCEPT !.at = "judged", !.tier = tier, !.yes = yes,
                    !.governance = governance, !.green = o.green,
                    !.blockers = BlockersOf(yes, o.alarm, enforced, accepted),
                    !.session = "awaiting_review"]
  BY DEF SavePacket
<1>3. PICK o \in SensorOutcomes[tier] :
        build' = [build EXCEPT !.at = "judged", !.tier = tier, !.yes = yes,
                    !.governance = governance, !.green = o.green,
                    !.blockers = BlockersOf(yes, o.alarm, enforced, accepted),
                    !.session = "awaiting_review"]
  BY <1>2
<1>4. o.green \in BOOLEAN
  BY OutcomesBoolean
<1>5. build.at = "tested" /\ changed' = changed /\ build.inferred = build.passed \cup build.failed
  BY DEF SavePacket
<1>6. ~build.merged
  BY <1>5 DEF EvidenceInv, MergeLast
<1> DEFINE found == BlockersOf(yes, o.alarm, enforced, accepted)
<1>7. /\ found \in SUBSET BlockerKinds
      /\ build.verification = "failed" => "claim" \in found
      /\ build.failed # {} => "suites" \in found
      /\ ScopeViolations # {} => "scope" \in found
      /\ yes /\ build.mode = "brownfield" /\ build.scope = {} => "unknown_scope" \in found
  BY DEF BlockersOf, BlockerKinds
<1> HIDE DEF found
<1>8. build' = [build EXCEPT !.at = "judged", !.tier = tier, !.yes = yes,
                  !.governance = governance, !.green = o.green, !.blockers = found,
                  !.session = "awaiting_review"]
  BY <1>3 DEF found
<1>9. EvidenceTypeOK'
  BY <1>1, <1>4, <1>5, <1>7, <1>8 DEF EvidenceTypeOK, Builds, BuildPhases
<1>10. /\ build'.at = "judged" /\ build'.exit = build.exit /\ build'.merged = build.merged
       /\ build'.scope = build.scope /\ build'.mode = build.mode
       /\ build'.session = "awaiting_review" /\ build'.verification = build.verification
       /\ build'.inferred = build.inferred /\ build'.passed = build.passed
       /\ build'.failed = build.failed /\ build'.yes = yes /\ build'.blockers = found
  BY <1>1, <1>8 DEF Builds
<1>11. ScopeTaken'
  BY <1>5, <1>10 DEF EvidenceInv, ScopeTaken, AgentGone
<1>12. MergeLast' /\ ClaimJudged' /\ MergeReady'
  BY <1>5, <1>6, <1>10 DEF EvidenceInv, MergeLast, ClaimJudged, MergeReady, Verified
<1>13. BlockersFound'
  BY <1>5, <1>7, <1>10 DEF BlockersFound, ScopeViolations
<1> QED
  BY <1>9, <1>11, <1>12, <1>13 DEF EvidenceInv

(* After that only the phase, the approval, the merge and the session      *)
(* change.                                                                 *)
LEMMA LateSteps ==
  ASSUME EvidenceInv,
         NEW at \in {"decided", "merging", "closed", "dead"}, NEW approved \in BOOLEAN,
         NEW merged \in BOOLEAN, NEW ended \in {"running", "awaiting_review", "completed", "blocked"},
         changed' = changed,
         build' = [build EXCEPT !.at = at, !.approved = approved, !.merged = merged,
                                !.session = ended],
         build.at \in {"judged", "decided", "merging"} \/ (at = "dead" /\ merged = build.merged),
         MergeLast', MergeReady'
  PROVE  EvidenceInv'
<1>1. build \in Builds /\ changed \in SUBSET Paths
  BY DEF EvidenceInv, EvidenceTypeOK
<1>2. EvidenceTypeOK'
  BY <1>1 DEF EvidenceTypeOK, Builds, BuildPhases
<1>3. /\ build'.at = at /\ build'.merged = merged
      /\ build'.scope = build.scope /\ build'.mode = build.mode
      /\ build'.exit = build.exit /\ build'.verification = build.verification
      /\ build'.inferred = build.inferred /\ build'.passed = build.passed
      /\ build'.failed = build.failed /\ build'.yes = build.yes
      /\ build'.blockers = build.blockers
  BY <1>1 DEF Builds
<1>4. (AgentGone' => AgentGone) /\ (Verified' => Verified) /\ (Judged' => Judged)
  BY <1>3 DEF AgentGone, Verified, Judged
<1>5. ScopeTaken'
  BY <1>3, <1>4 DEF EvidenceInv, ScopeTaken
<1>6. ClaimJudged'
  BY <1>3, <1>4 DEF EvidenceInv, ClaimJudged
<1>7. BlockersFound'
  BY <1>3, <1>4 DEF EvidenceInv, BlockersFound, ScopeViolations
<1> QED
  BY <1>2, <1>5, <1>6, <1>7 DEF EvidenceInv

LEMMA FailedOrDecidedKeeps ==
  ASSUME EvidenceInv, RuntimeFailed \/ Decide
  PROVE  EvidenceInv'
<1>1. build \in Builds
  BY DEF EvidenceInv, EvidenceTypeOK
<1>2. build.at = "judged" /\ changed' = changed
  BY DEF RuntimeFailed, Decide
<1>3. build.merged = FALSE /\ build.session # "completed"
  BY <1>1, <1>2 DEF EvidenceInv, MergeLast, Builds
<1>4. CASE RuntimeFailed
  <2>1. build' = [build EXCEPT !.at = "closed", !.approved = build.approved,
                               !.merged = FALSE, !.session = "blocked"]
    BY <1>1, <1>3, <1>4 DEF RuntimeFailed, Builds
  <2>2. build.approved \in BOOLEAN
    BY <1>1 DEF Builds
  <2>3. MergeLast' /\ MergeReady'
    BY <1>1, <2>1 DEF MergeLast, MergeReady, Builds
  <2> QED
    BY <1>2, <2>1, <2>2, <2>3, LateSteps
<1>5. CASE Decide
  <2>1. PICK approve \in BOOLEAN : build' = [build EXCEPT !.at = "decided", !.approved = approve]
    BY <1>5 DEF Decide
  <2>2. build' = [build EXCEPT !.at = "decided", !.approved = approve,
                               !.merged = FALSE, !.session = build.session]
    BY <1>1, <1>3, <2>1 DEF Builds
  <2>3. build.session \in {"running", "awaiting_review", "completed", "blocked"}
    BY <1>1 DEF Builds
  <2>4. MergeLast' /\ MergeReady'
    BY <1>1, <1>3, <2>2 DEF MergeLast, MergeReady, Builds
  <2> QED
    BY <1>2, <2>2, <2>3, <2>4, LateSteps
<1> QED
  BY <1>4, <1>5

LEMMA MergeKeeps ==
  ASSUME EvidenceInv, Merge
  PROVE  EvidenceInv'
<1>1. build \in Builds
  BY DEF EvidenceInv, EvidenceTypeOK
<1>2. PICK allowed \in BOOLEAN :
        build' = [build EXCEPT !.at = "merging", !.merged = ReadyToShip(allowed)]
  BY DEF Merge
<1>3. build.at = "decided" /\ changed' = changed
  BY DEF Merge
<1>4. PICK merged \in BOOLEAN : merged = ReadyToShip(allowed)
  <2>1. ReadyToShip(allowed) \in BOOLEAN
    BY DEF ReadyToShip
  <2> QED
    BY <2>1
<1>5. build' = [build EXCEPT !.at = "merging", !.approved = build.approved,
                             !.merged = merged, !.session = build.session]
  BY <1>1, <1>2, <1>4 DEF Builds
<1>6. /\ build.approved \in BOOLEAN
      /\ build.session \in {"running", "awaiting_review", "completed", "blocked"}
  BY <1>1 DEF Builds
<1>7. /\ build'.at = "merging" /\ build'.merged = merged /\ build'.session = build.session
      /\ build'.exit = build.exit /\ build'.blockers = build.blockers
      /\ build'.approved = build.approved /\ build'.governance = build.governance
      /\ build'.tier = build.tier /\ build'.green = build.green
  BY <1>1, <1>5 DEF Builds
<1>8. MergeLast'
  BY <1>3, <1>7 DEF EvidenceInv, MergeLast
<1>9. MergeReady'
  <2> SUFFICES ASSUME merged PROVE /\ build'.exit = "ok" /\ build'.blockers = {}
                                   /\ GovernanceClear' /\ build'.approved
    BY <1>7 DEF MergeReady
  <2>1. build.exit = "ok" /\ build.blockers = {} /\ GovernanceClear /\ build.approved
    BY <1>4 DEF ReadyToShip
  <2>2. GovernanceClear'
    BY <1>7, <2>1 DEF GovernanceClear
  <2> QED
    BY <1>7, <2>1, <2>2
<1> QED
  BY <1>3, <1>5, <1>6, <1>8, <1>9, LateSteps

LEMMA ClosedOrDeadKeeps ==
  ASSUME EvidenceInv, CloseBuild \/ BuildDies
  PROVE  EvidenceInv'
<1>1. build \in Builds
  BY DEF EvidenceInv, EvidenceTypeOK
<1>2. changed' = changed
  BY DEF CloseBuild, BuildDies
<1>3. PICK at \in {"closed", "dead"}, ended \in {"running", "awaiting_review", "completed", "blocked"} :
        /\ build' = [build EXCEPT !.at = at, !.session = ended]
        /\ build.at = "merging" \/ at = "dead"
        /\ ended = "completed" <=> at = "closed" /\ build.merged
  <2>1. CASE CloseBuild
    BY <2>1 DEF CloseBuild
  <2>2. CASE BuildDies
    <3>1. build.session # "completed" /\ build.session \in {"running", "awaiting_review", "blocked"}
      BY <1>1, <2>2 DEF EvidenceInv, MergeLast, BuildDies, Builds
    <3>2. build' = [build EXCEPT !.at = "dead", !.session = build.session]
      BY <1>1, <2>2 DEF BuildDies, Builds
    <3> QED
      BY <3>1, <3>2
  <2> QED
    BY <2>1, <2>2
<1>4. build' = [build EXCEPT !.at = at, !.approved = build.approved,
                             !.merged = build.merged, !.session = ended]
  BY <1>1, <1>3 DEF Builds
<1>5. build.approved \in BOOLEAN /\ build.merged \in BOOLEAN
  BY <1>1 DEF Builds
<1>6. /\ build'.at = at /\ build'.merged = build.merged /\ build'.session = ended
      /\ build'.exit = build.exit /\ build'.blockers = build.blockers
      /\ build'.approved = build.approved /\ build'.governance = build.governance
      /\ build'.tier = build.tier /\ build'.green = build.green
  BY <1>1, <1>4 DEF Builds
<1>7. MergeLast'
  BY <1>3, <1>6 DEF MergeLast
<1>8. MergeReady'
  BY <1>6 DEF EvidenceInv, MergeReady, GovernanceClear
<1> QED
  BY <1>2, <1>3, <1>4, <1>5, <1>7, <1>8, LateSteps

LEMMA StepEvidence == EvidenceInv /\ [EvidenceNext]_evidenceVars => EvidenceInv'
<1> SUFFICES ASSUME EvidenceInv, [EvidenceNext]_evidenceVars PROVE EvidenceInv'
  OBVIOUS
<1>1. CASE \E p \in Paths : WritePath(p)
  BY <1>1, WriteKeeps
<1>2. CASE RuntimeEnds
  BY <1>2, RuntimeEndsKeeps
<1>3. CASE VerifyClaim
  BY <1>3, VerifyClaimKeeps
<1>4. CASE InferSuites \/ \E s \in Suites : RunSuite(s)
  BY <1>4, SuitesKeep
<1>5. CASE SavePacket
  BY <1>5, SavePacketKeeps
<1>6. CASE RuntimeFailed \/ Decide
  BY <1>6, FailedOrDecidedKeeps
<1>7. CASE Merge
  BY <1>7, MergeKeeps
<1>8. CASE CloseBuild \/ BuildDies
  BY <1>8, ClosedOrDeadKeeps
<1>9. CASE UNCHANGED evidenceVars
  BY <1>9
  DEF evidenceVars, EvidenceInv, EvidenceTypeOK, ScopeTaken, MergeLast, ClaimJudged, BlockersFound,
      MergeReady, AgentGone, Verified, Judged, ScopeViolations, GovernanceClear
<1> QED
  BY <1>1, <1>2, <1>3, <1>4, <1>5, <1>6, <1>7, <1>8, <1>9 DEF EvidenceNext

LEMMA EvidenceAlways == EvidenceSpec => []EvidenceInv
  BY InitEvidence, StepEvidence, PTL DEF EvidenceSpec

-----------------------------------------------------------------------------
(* A merge is that of verified, tested, approved work.                     *)
LEMMA BackedByInv == EvidenceInv => MergeBacked
<1> SUFFICES ASSUME EvidenceInv, build.merged
             PROVE  /\ build.exit = "ok" /\ build.verification = "passed" /\ build.approved
                    /\ build.inferred = build.passed /\ "sensors" \notin build.blockers
                    /\ build.governance /\ build.tier # "C" => build.green
  BY DEF MergeBacked
<1>1. build.exit = "ok" /\ build.blockers = {} /\ GovernanceClear /\ build.approved
  BY DEF EvidenceInv, MergeReady
<1>2. build.verification \in {"none", "passed", "failed"} /\ build.tier \in Tiers
  BY DEF EvidenceInv, EvidenceTypeOK, Builds
<1>3. build.verification = "passed"
  <2>1. build.verification # "none"
    BY <1>1 DEF EvidenceInv, ClaimJudged, Verified
  <2>2. build.verification # "failed"
    BY <1>1 DEF EvidenceInv, BlockersFound, Judged
  <2> QED
    BY <1>2, <2>1, <2>2
<1>4. build.inferred = build.passed
  BY <1>1 DEF EvidenceInv, BlockersFound, Judged
<1>5. build.governance /\ build.tier # "C" => build.green
  <2>1. build.tier # "C" /\ ~build.green => TriageColor(build.tier, "trusted", build.green) = "red"
    BY <1>2 DEF TriageColor, Tiers
  <2> QED
    BY <1>1, <2>1 DEF GovernanceClear
<1> QED
  BY <1>1, <1>3, <1>4, <1>5

(* Everything changed is in the scope, and a profile is in none.           *)
LEMMA ScopedByInv == EvidenceInv => ScopeKept /\ ProfileNotLowered
<1> SUFFICES ASSUME EvidenceInv, build.merged PROVE ScopeKept /\ ProfileNotLowered
  BY DEF ScopeKept, ProfileNotLowered
<1>1. build.blockers = {}
  BY DEF EvidenceInv, MergeReady
<1>2. /\ ScopeViolations = {}
      /\ ~(build.yes /\ build.mode = "brownfield" /\ build.scope = {})
  BY <1>1 DEF EvidenceInv, BlockersFound, Judged
<1>3. build.scope # {} => changed \subseteq build.scope
  BY <1>2 DEF ScopeViolations
<1>4. Profile \notin build.scope
  BY DEF EvidenceInv, ScopeTaken
<1>5. build.mode = "greenfield" => build.scope = changed \ {Profile}
  BY DEF EvidenceInv, ScopeTaken, AgentGone
<1>6. ScopeKept
  BY <1>2, <1>3, <1>4, <1>5 DEF ScopeKept
<1>7. ProfileNotLowered
  BY <1>2, <1>3, <1>4 DEF ProfileNotLowered
<1> QED
  BY <1>6, <1>7

(* Whatever is written while the agent runs, by it or by anybody, and      *)
(* wherever the build dies: what is merged was verified, tested and        *)
(* approved, is in its scope, does not rest on a profile lowered by the    *)
(* same run, and its session knows of it.                                  *)
THEOREM EvidenceIsSound == EvidenceSpec => []EvidenceSound
<1>1. EvidenceInv => EvidenceTypeOK /\ SessionFollows
  BY DEF EvidenceInv, MergeLast, SessionFollows
<1>2. EvidenceInv => EvidenceSound
  BY <1>1, BackedByInv, ScopedByInv DEF EvidenceSound
<1> QED
  BY <1>2, EvidenceAlways, PTL

-----------------------------------------------------------------------------
(* The report of a builder session.  What report, diagnosis and plan make  *)
(* of the latest row is right because of what every command leaves in the  *)
(* row it replaces, wherever it is killed.                                 *)

(* Every manifest a row names there is, and a new one can be created where *)
(* the next write creates one.                                             *)
Numbered ==
  /\ session.manifest <= runs /\ session.approval <= runs /\ session.brief <= runs
  /\ subject <= runs /\ \A m \in unrecorded : m <= runs
  /\ doing \in {"captured", "runtime"} => runs < MaxRuns

(* A run between its first write of the manifest and its last but one.     *)
NotStarted == {"name", "supersede", "contract", "launch"}

Started == RunPhases \ ({"captured", "runtime"} \cup NotStarted)

(* Where a run is, and what it has written of its manifest.                *)
RunFits ==
  /\ doing \in {"runtime"} \cup NotStarted => session.stage \notin {"none", "completed"}
  /\ doing \in NotStarted \cup Started => runs # 0 /\ runs \notin unrecorded
  /\ doing \in NotStarted =>
       /\ session.manifest < runs /\ session.approval < runs
       /\ record[runs] = [NoRow EXCEPT !.state = "queued"]
  /\ doing \in Started =>
       /\ session.manifest = runs /\ session.approval < runs
       /\ session.last_error = "none"
       /\ session.stage = IF doing \in {"flight", "agent", "evidence", "gathered"}
                          THEN "running" ELSE "awaiting_review"
       /\ doing \in {"flight", "agent", "evidence", "gathered", "manifest", "decide"} =>
            record[runs].approval = "none"
       /\ doing = "flight" => record[runs].state = "queued"
       /\ doing \in {"agent", "evidence", "gathered", "manifest"} => record[runs].state = "in_flight"
       /\ doing \in {"approve", "close_approved", "close_merged"} => record[runs].approval = "approve"
       /\ doing \in {"reject", "close_rejected"} => record[runs].approval = "reject"
       /\ doing = "close_rejected" => record[runs].state = "rejected"

(* Where another command is, and what it has written of its subject.        *)
CommandFits ==
  /\ doing = "interrupted" =>
       session.stage = "blocked" /\ session.last_action = "runtime_interrupted"
  /\ doing \in {"confirm", "completing", "complete", "recovered", "auto_approve", "auto_close"} =>
       subject # None
  /\ doing \in {"recovered", "auto_approve", "auto_close"} => session.manifest # None
  /\ doing = "recovered" => session.stage = "blocked"
  /\ doing \in {"completing", "complete", "auto_close"} =>
       record[subject].approval = "approve" /\ subject \in unrecorded

(* A manifest that has started and was not decided on, but for a decision  *)
(* that the session does not know of.                                      *)
NotDecided(m) ==
  /\ m # None
  /\ \/ m \in unrecorded
     \/ record[m].approval = "none" /\ record[m].state \in {"queued", "in_flight", "rejected"}

(* What each kind of session row says of the manifests it names.           *)
SessionFits ==
  /\ session.stage = "none" => session = NoSession
  /\ session.stage # "completed" => session.approval <= session.manifest
  /\ session.next_action = "review_evidence" => session.manifest # None
  /\ session.next_action = "start_new_session" <=> session.stage = "completed"
  /\ session.stage = "running" =>
       /\ NotDecided(session.manifest) /\ session.approval < session.manifest
  /\ session.stage = "completed" =>
       /\ session.approval # None /\ record[session.approval].approval = "approve"
  /\ session.stage = "blocked" =>
       CASE session.last_action \in Replacing -> TRUE
         [] session.last_action \in {"runtime_failed", "runtime_interrupted"} ->
              NotDecided(session.manifest) /\ session.approval < session.manifest
         [] session.last_action = "approval_rejected" ->
              /\ session.approval = session.manifest /\ session.manifest # None
              /\ \/ session.manifest \in unrecorded
                 \/ /\ record[session.manifest].approval = "reject"
                    /\ record[session.manifest].state = "rejected"
         [] session.last_action = "merge_blocked" ->
              /\ session.approval = session.manifest /\ session.manifest # None
              /\ record[session.manifest].approval = "approve"
         [] OTHER -> FALSE

GuidanceInv == GuidanceTypeOK /\ Numbered /\ RunFits /\ CommandFits /\ SessionFits

LEMMA GuidanceKinds ==
  /\ NoEvidence \in EvidencePackets /\ NoRow \in ManifestRows /\ Approved \in ManifestRows /\ Approved.approval = "approve"
  /\ NoSession \in Sessions /\ Recovered \in EvidencePackets
<1>1. NoEvidence \in EvidencePackets /\ Recovered \in EvidencePackets
  BY DEF NoEvidence, EvidencePackets, Recovered
<1>2. NoRow \in ManifestRows
  BY <1>1 DEF NoRow, ManifestRows
<1>3. NoRow.packet = NoEvidence
  BY DEF NoRow
<1>4. [NoEvidence EXCEPT !.quality = "complete"] \in EvidencePackets
  BY <1>1 DEF EvidencePackets
<1>5. Approved \in ManifestRows /\ Approved.approval = "approve"
  BY <1>2, <1>3, <1>4 DEF Approved, ManifestRows
<1>6. NoSession \in Sessions
  BY GuidanceConstants DEF NoSession, Sessions, None
<1> QED
  BY <1>1, <1>2, <1>5, <1>6

LEMMA GuidanceStarts == GuidanceInit => GuidanceInv
<1> SUFFICES ASSUME GuidanceInit PROVE GuidanceInv
  OBVIOUS
<1> USE GuidanceConstants
<1>0. doing = "idle" /\ contract \in BOOLEAN /\ subject = 0 /\ unrecorded = {}
  BY DEF GuidanceInit, None
<1>1. CASE session = NoSession /\ runs = 0 /\ record = [m \in Manifests |-> NoRow] /\ briefed = FALSE
  <2>1. session \in Sessions /\ record \in [Manifests -> ManifestRows]
    BY <1>1, GuidanceKinds
  <2>2. GuidanceTypeOK
    <3>1. runs \in 0..MaxRuns /\ briefed \in BOOLEAN /\ doing \in Phases /\ contract \in BOOLEAN
      <4>1. runs \in 0..MaxRuns
        BY <1>1
      <4> QED
        BY <4>1, <1>1, <1>0 DEF Phases
    <3>2. subject \in 0..MaxRuns /\ unrecorded \subseteq Manifests
      BY <1>0
    <3> QED
      BY <3>1, <3>2, <2>1 DEF GuidanceTypeOK
  <2> QED
    BY <1>0, <1>1, <2>2 DEF GuidanceInv, Numbered, RunFits, CommandFits, SessionFits, NoSession, None,
                            NotStarted, Started, RunPhases
<1>2. CASE /\ runs = 1 /\ record = [m \in Manifests |-> IF m = 1 THEN Approved ELSE NoRow]
           /\ briefed = TRUE
  <2>1. record \in [Manifests -> ManifestRows] /\ record[1].approval = "approve"
    BY <1>2, GuidanceKinds DEF Manifests
  <2>2. PICK s \in Sessions :
          /\ session = s /\ s.manifest = 1 /\ s.approval = 1 /\ s.brief = 0
          /\ \/ s.stage = "completed" /\ s.next_action = "start_new_session"
             \/ s.stage = "blocked" /\ s.last_action = "merge_blocked"
                /\ s.next_action = "review_evidence"
    <3>1. CASE session = [NoSession EXCEPT !.stage = "completed", !.next_action = "start_new_session",
                !.last_action = "approval_recorded_merge_not_applied",
                !.last_error = "review_complete", !.manifest = 1, !.approval = 1]
      <4>1. PICK r : r = [NoSession EXCEPT !.stage = "completed", !.next_action = "start_new_session"]
        OBVIOUS
      <4>2. r \in Sessions /\ r.stage = "completed" /\ r.next_action = "start_new_session" /\ r.brief = 0
        BY <4>1, GuidanceKinds DEF Sessions, NoSession, None
      <4>3. PICK t : t = [r EXCEPT !.last_action = "approval_recorded_merge_not_applied", !.last_error = "review_complete"]
        OBVIOUS
      <4>4. /\ t \in Sessions /\ t.stage = "completed" /\ t.next_action = "start_new_session" /\ t.brief = 0
            /\ t.last_action = "approval_recorded_merge_not_applied"
        BY <4>2, <4>3 DEF Sessions
      <4>5. session = [t EXCEPT !.manifest = 1, !.approval = 1]
        BY <3>1, <4>1, <4>3
      <4> QED
        <5>1. 1 \in 0..MaxRuns
          OBVIOUS
        <5>2. session \in Sessions
          BY <4>4, <4>5, <5>1 DEF Sessions
        <5>3. /\ session.manifest = 1 /\ session.approval = 1 /\ session.brief = 0
              /\ session.stage = "completed" /\ session.next_action = "start_new_session"
          BY <4>4, <4>5 DEF Sessions
        <5> QED
          BY <5>2, <5>3
    <3>2. CASE session = [NoSession EXCEPT !.stage = "blocked", !.next_action = "review_evidence",
                !.last_action = "merge_blocked",
                !.last_error = "review_complete", !.manifest = 1, !.approval = 1]
      <4>1. PICK r : r = [NoSession EXCEPT !.stage = "blocked", !.next_action = "review_evidence"]
        OBVIOUS
      <4>2. r \in Sessions /\ r.stage = "blocked" /\ r.next_action = "review_evidence" /\ r.brief = 0
        BY <4>1, GuidanceKinds DEF Sessions, NoSession, None
      <4>3. PICK t : t = [r EXCEPT !.last_action = "merge_blocked", !.last_error = "review_complete"]
        OBVIOUS
      <4>4. /\ t \in Sessions /\ t.stage = "blocked" /\ t.next_action = "review_evidence" /\ t.brief = 0
            /\ t.last_action = "merge_blocked"
        BY <4>2, <4>3 DEF Sessions
      <4>5. session = [t EXCEPT !.manifest = 1, !.approval = 1]
        BY <3>2, <4>1, <4>3
      <4> QED
        <5>1. 1 \in 0..MaxRuns
          OBVIOUS
        <5>2. session \in Sessions
          BY <4>4, <4>5, <5>1 DEF Sessions
        <5>3. /\ session.manifest = 1 /\ session.approval = 1 /\ session.brief = 0
              /\ session.stage = "blocked" /\ session.last_action = "merge_blocked"
              /\ session.next_action = "review_evidence"
          BY <4>4, <4>5 DEF Sessions
        <5> QED
          BY <5>2, <5>3
    <3> QED
      BY <1>2, <3>1, <3>2 DEF GuidanceInit
  <2>3. GuidanceTypeOK
    BY <1>0, <1>2, <2>1, <2>2 DEF GuidanceTypeOK, Phases
  <2>4. RunFits /\ Numbered /\ CommandFits
    BY <1>0, <1>2, <2>2 DEF RunFits, Numbered, CommandFits, NotStarted, Started, RunPhases
  <2>5. SessionFits
    BY <2>1, <2>2 DEF SessionFits, Replacing, None
  <2> QED
    BY <2>3, <2>4, <2>5 DEF GuidanceInv
<1> QED
  BY <1>1, <1>2 DEF GuidanceInit

(* What a write of four fields leaves of the row.                          *)
LEMMA SaysWrites ==
  ASSUME session \in Sessions, NEW st, NEW na, NEW la, NEW le, NEW s, s = Says(st, na, la, le)
  PROVE  /\ s.stage = st /\ s.next_action = na /\ s.last_action = la /\ s.last_error = le
         /\ s.manifest = session.manifest /\ s.approval = session.approval
         /\ s.brief = session.brief
  BY DEF Says, Sessions

LEMMA RowsAre ==
  ASSUME GuidanceTypeOK
  PROVE  /\ session \in Sessions /\ runs \in 0..MaxRuns /\ runs \in Nat
         /\ record \in [Manifests -> ManifestRows]
         /\ session.manifest \in 0..MaxRuns /\ session.approval \in 0..MaxRuns
         /\ session.brief \in 0..MaxRuns /\ subject \in 0..MaxRuns /\ unrecorded \subseteq Manifests
  BY GuidanceConstants DEF GuidanceTypeOK, Sessions

LEMMA KilledKeeps ==
  ASSUME GuidanceInv, Killed
  PROVE  GuidanceInv'
<1>1. /\ session' = session /\ record' = record /\ runs' = runs /\ contract' = contract
      /\ briefed' = briefed /\ doing' = "idle" /\ subject' = 0 /\ unrecorded' = unrecorded
  BY DEF Killed, SessionOnly, None
<1>2. GuidanceTypeOK' /\ Numbered'
  BY <1>1, GuidanceConstants, RowsAre DEF GuidanceInv, GuidanceTypeOK, Phases, Numbered
<1> QED
  BY <1>1, <1>2 DEF GuidanceInv, RunFits, CommandFits, SessionFits, NotDecided,
                    NotStarted, Started, RunPhases

(* A write of the session alone, which says nothing of a manifest that its *)
(* rows do not.                                                            *)
LEMMA SessionWrites ==
  ASSUME GuidanceInv, NEW s \in Sessions, Session(s), doing' \in Phases
  PROVE  /\ GuidanceTypeOK' /\ session' = s
         /\ record' = record /\ runs' = runs /\ contract' = contract /\ briefed' = briefed
         /\ subject' = subject /\ unrecorded' = unrecorded
  BY DEF Session, SessionOnly, GuidanceInv, GuidanceTypeOK

(* The beginning of a run, before it has a manifest.                       *)
LEMMA BeginningKeeps ==
  ASSUME GuidanceInv, SaveBrief \/ SaveSession \/ EnsureLatest \/ Continue
  PROVE  GuidanceInv'
<1> USE GuidanceConstants, RowsAre DEF GuidanceInv
<1>1. CASE SaveBrief
  <2>1. session' = session /\ record' = record /\ runs' = runs /\ contract' = contract
        /\ subject' = subject /\ unrecorded' = unrecorded
        /\ briefed' = TRUE /\ doing = "idle" /\ doing' = "captured" /\ runs < MaxRuns
    BY <1>1 DEF SaveBrief, AtPhase
  <2>2. GuidanceTypeOK' /\ Numbered'
    BY <2>1 DEF GuidanceTypeOK, Phases, RunPhases, Numbered
  <2> QED
    BY <2>1, <2>2 DEF RunFits, CommandFits, SessionFits, NotDecided, NotStarted, Started, RunPhases
<1>2. CASE SaveSession \/ EnsureLatest
  <2> DEFINE row(l) == [NoSession EXCEPT !.stage = "ready_to_run", !.next_action = "run_continue",
                                         !.last_action = l]
  <2>0. PICK la : /\ la \in {"brief_captured", "legacy_brief_backfill"}
                  /\ Session(row(la)) /\ doing \in {"captured", "idle"}
                  /\ doing' \in {"runtime", "idle"}
                  /\ doing' = "runtime" => doing = "captured"
    <3>1. CASE SaveSession
      <4>1. Session(row("brief_captured")) /\ doing = "captured" /\ doing' = "runtime"
        BY <3>1 DEF SaveSession, AtPhase
      <4> HIDE DEF row
      <4> QED
        BY <4>1
    <3>2. CASE EnsureLatest
      <4>1. Session(row("legacy_brief_backfill")) /\ doing = "idle" /\ doing' = "idle"
        BY <3>2 DEF EnsureLatest, AtPhase
      <4> HIDE DEF row
      <4> QED
        BY <4>1
    <3> QED
      BY <1>2, <3>1, <3>2
  <2>1. PICK s :
        s = [NoSession EXCEPT !.stage = "ready_to_run", !.next_action = "run_continue",
                              !.last_action = la] /\ Session(s)
    BY <2>0
  <2> HIDE DEF row
  <2>2. /\ s.stage = "ready_to_run" /\ s.next_action = "run_continue"
        /\ s.manifest = 0 /\ s.approval = 0 /\ s.brief = 0
    BY <2>1 DEF NoSession, None
  <2>3. s \in Sessions
    BY <2>0, <2>1, GuidanceKinds, ZenonT(40) DEF Sessions
  <2>4. /\ GuidanceTypeOK' /\ session' = s /\ record' = record /\ runs' = runs
        /\ subject' = subject /\ unrecorded' = unrecorded
    <3>1. doing' \in Phases
      BY <2>0 DEF Phases, RunPhases
    <3> QED
      BY <2>1, <2>3, <3>1, SessionWrites
  <2> QED
    BY <2>0, <2>2, <2>4 DEF Numbered, RunFits, CommandFits, SessionFits, None,
                            NotStarted, Started, RunPhases
<1>3. CASE Continue
  <2>1. /\ session' = session /\ record' = record /\ runs' = runs /\ contract' = contract
        /\ subject' = subject /\ unrecorded' = unrecorded
        /\ briefed' = briefed /\ doing = "idle" /\ doing' = "runtime" /\ runs < MaxRuns
        /\ session.stage \notin {"none", "completed"}
    BY <1>3 DEF Continue, AtPhase, Session, SessionOnly
  <2>2. GuidanceTypeOK' /\ Numbered'
    BY <2>1 DEF GuidanceTypeOK, Phases, RunPhases, Numbered
  <2> QED
    BY <2>1, <2>2 DEF RunFits, CommandFits, SessionFits, NotDecided, NotStarted, Started, RunPhases
<1> QED
  BY <1>1, <1>2, <1>3

(* A session that is blocked without its manifests being looked at: no     *)
(* runtime, or a recovery whose verification failed.                       *)
LEMMA ReplacingKeeps ==
  ASSUME GuidanceInv, NotLaunched \/ RecoveryFails
  PROVE  GuidanceInv'
<1> USE GuidanceConstants, RowsAre DEF GuidanceInv
<1>1. PICK na, la, s :
        /\ s = Says("blocked", na, la, "other") /\ Session(s)
        /\ na \in {"install_runtime", "accept_runtime_side_effects", "fix_verification"}
        /\ la \in Replacing
        /\ doing \in {"runtime", "idle"} /\ doing' = "idle" /\ session.stage # "completed"
  BY DEF NotLaunched, RecoveryFails, AtPhase, Replacing, RunFits, PlanBlocked
<1>2. /\ s.stage = "blocked" /\ s.next_action = na /\ s.last_action = la
      /\ s.manifest = session.manifest /\ s.approval = session.approval
      /\ s.brief = session.brief
  BY <1>1, SaysWrites
<1>3. s \in Sessions
  BY <1>1 DEF Says, Sessions, Replacing
<1>4. /\ GuidanceTypeOK' /\ session' = s /\ record' = record /\ runs' = runs
      /\ subject' = subject /\ unrecorded' = unrecorded
  <2>1. doing' \in Phases
    BY <1>1 DEF Phases
  <2> QED
    BY <1>1, <1>3, <2>1, SessionWrites
<1>5. Numbered' /\ RunFits' /\ CommandFits'
  BY <1>1, <1>2, <1>4 DEF Numbered, RunFits, CommandFits, NotStarted, Started, RunPhases
<1>6. SessionFits'
  BY <1>1, <1>2, <1>4 DEF SessionFits, Replacing
<1> QED
  BY <1>4, <1>5, <1>6

(* A write of one row alone.                                               *)
LEMMA RowWrites ==
  ASSUME GuidanceInv, NEW m \in Manifests, NEW r \in ManifestRows, RowOnly(m, r)
  PROVE  /\ session' = session /\ runs' = runs /\ contract' = contract /\ briefed' = briefed
         /\ record' \in [Manifests -> ManifestRows]
         /\ record'[m] = r /\ \A n \in Manifests \ {m} : record'[n] = record[n]
<1>1. record' = [record EXCEPT ![m] = r]
  BY DEF RowOnly
<1> QED
  BY <1>1, RowsAre DEF RowOnly, GuidanceInv

LEMMA CreateManifestKeeps ==
  ASSUME GuidanceInv, CreateManifest
  PROVE  GuidanceInv'
<1> USE GuidanceConstants, RowsAre DEF GuidanceInv
<1>1. /\ runs' = runs + 1 /\ session' = session /\ contract' = contract /\ briefed' = briefed
      /\ subject' = subject /\ unrecorded' = unrecorded
      /\ doing = "runtime" /\ doing' = "name" /\ runs < MaxRuns
      /\ session.stage \notin {"none", "completed"}
  BY DEF CreateManifest, AtPhase, Numbered, RunFits
<1>2. PICK new : new = [NoRow EXCEPT !.state = "queued"]
  OBVIOUS
<1>3. new \in ManifestRows
  BY <1>2, GuidanceKinds DEF ManifestRows
<1>4. /\ record' \in [Manifests -> ManifestRows] /\ record'[runs + 1] = new
      /\ \A m \in Manifests : m <= runs => record'[m] = record[m]
  BY <1>1, <1>2, <1>3 DEF CreateManifest, Manifests
<1>5. GuidanceTypeOK'
  BY <1>1, <1>4 DEF GuidanceTypeOK, Phases, RunPhases
<1>6. Numbered' /\ runs + 1 \notin unrecorded
  BY <1>1 DEF Numbered, Manifests
<1>7. RunFits' /\ CommandFits'
  BY <1>1, <1>2, <1>4, <1>6 DEF Numbered, RunFits, CommandFits, NotStarted, Started, RunPhases
<1>8. SessionFits'
  BY <1>1, <1>4 DEF Numbered, SessionFits, NotDecided, Manifests, None
<1> QED
  BY <1>5, <1>6, <1>7, <1>8

(* Between the manifest and the launch.                                    *)
LEMMA PreparingKeeps ==
  ASSUME GuidanceInv, NameManifest \/ Supersede \/ WriteContract
  PROVE  GuidanceInv'
<1> USE GuidanceConstants, RowsAre DEF GuidanceInv
<1>0. /\ doing \in {"name", "supersede", "contract"} /\ doing' \in NotStarted /\ runs # 0
      /\ runs \notin unrecorded /\ session.manifest < runs /\ session.approval < runs
      /\ record[runs] = [NoRow EXCEPT !.state = "queued"]
      /\ session.stage \notin {"none", "completed"}
  BY DEF NameManifest, Supersede, WriteContract, AtPhase, RunFits, NotStarted
<1>00. doing' \in Phases /\ doing' \notin {"captured", "runtime"}
       /\ doing' \notin Started
  BY <1>0 DEF Phases, RunPhases, NotStarted, Started
<1>1. CASE NameManifest
  <2>1. PICK s : s = [session EXCEPT !.brief = runs] /\ Session(s)
    BY <1>1 DEF NameManifest
  <2>2. /\ s \in Sessions
        /\ s.stage = session.stage /\ s.next_action = session.next_action
        /\ s.last_action = session.last_action /\ s.last_error = session.last_error
        /\ s.manifest = session.manifest /\ s.approval = session.approval
        /\ s.brief = runs
    BY <2>1 DEF Sessions
  <2>3. /\ GuidanceTypeOK' /\ session' = s /\ record' = record /\ runs' = runs
        /\ subject' = subject /\ unrecorded' = unrecorded
    BY <1>00, <2>1, <2>2, SessionWrites
  <2>4. Numbered' /\ RunFits' /\ CommandFits'
    BY <1>0, <1>00, <2>2, <2>3 DEF Numbered, RunFits, CommandFits, NotStarted
  <2>5. SessionFits'
    BY <1>0, <2>2, <2>3 DEF SessionFits, NotDecided
  <2> QED
    BY <2>3, <2>4, <2>5
<1>2. CASE WriteContract \/ (Supersede /\ Session(session))
  <2>1. /\ session' = session /\ record' = record /\ runs' = runs /\ briefed' = briefed
        /\ subject' = subject /\ unrecorded' = unrecorded /\ contract' \in BOOLEAN
    BY <1>2 DEF WriteContract, Session, SessionOnly, GuidanceTypeOK
  <2>2. GuidanceTypeOK' /\ Numbered'
    BY <1>00, <2>1 DEF GuidanceTypeOK, Numbered
  <2>3. RunFits' /\ CommandFits'
    BY <1>0, <1>00, <2>1 DEF RunFits, CommandFits, NotStarted
  <2>4. SessionFits'
    BY <2>1 DEF SessionFits, NotDecided
  <2> QED
    BY <2>2, <2>3, <2>4
<1>3. CASE Supersede /\ ~Session(session)
  <2>1. PICK m : m = session.manifest
    OBVIOUS
  <2>2. /\ m # None /\ m \in Manifests /\ m # runs /\ session.last_action = "runtime_interrupted"
        /\ Row([record[m] EXCEPT !.state = "rejected"])
    BY <1>0, <1>3, <2>1 DEF Supersede, Manifests, None
  <2>3. PICK r : r = [record[m] EXCEPT !.state = "rejected"]
    OBVIOUS
  <2>4. r \in ManifestRows /\ r.state = "rejected" /\ r.approval = record[m].approval
    BY <2>2, <2>3 DEF ManifestRows
  <2>5. /\ session' = session /\ runs' = runs /\ contract' = contract /\ briefed' = briefed
        /\ subject' = subject /\ unrecorded' = unrecorded
        /\ record' \in [Manifests -> ManifestRows]
        /\ record'[m] = r /\ \A n \in Manifests \ {m} : record'[n] = record[n]
    BY <2>1, <2>2, <2>3, <2>4, RowWrites DEF Row
  <2>6. GuidanceTypeOK' /\ Numbered'
    BY <1>00, <2>5 DEF GuidanceTypeOK, Numbered
  <2>7. RunFits' /\ CommandFits'
    BY <1>0, <1>00, <2>2, <2>5 DEF RunFits, CommandFits, NotStarted, Manifests
  <2>8. SessionFits'
    BY <1>0, <2>1, <2>2, <2>4, <2>5 DEF SessionFits, NotDecided, Replacing
  <2> QED
    BY <2>6, <2>7, <2>8
<1> QED
  BY <1>1, <1>2, <1>3

LEMMA LaunchKeeps ==
  ASSUME GuidanceInv, Launch
  PROVE  GuidanceInv'
<1> USE GuidanceConstants, RowsAre DEF GuidanceInv
<1>1. PICK s, t : /\ s = Says("running", "review_evidence", "execution_started", "none")
                  /\ t = [s EXCEPT !.manifest = runs] /\ Session(t)
                  /\ doing = "launch" /\ doing' = "flight"
  BY DEF Launch, AtPhase
<1>2. s \in Sessions
  BY <1>1 DEF Says, Sessions
<1>3. /\ t.stage = "running" /\ t.next_action = "review_evidence"
      /\ t.last_error = "none" /\ t.manifest = runs
      /\ t.approval = session.approval /\ t.brief = session.brief
  BY <1>1, <1>2, SaysWrites DEF Sessions
<1>4. t \in Sessions
  BY <1>1, <1>2 DEF Sessions
<1>5. /\ GuidanceTypeOK' /\ session' = t /\ record' = record /\ runs' = runs
      /\ subject' = subject /\ unrecorded' = unrecorded
  <2>1. doing' \in Phases
    BY <1>1 DEF Phases, RunPhases
  <2> QED
    BY <1>1, <1>4, <2>1, SessionWrites
<1>6. /\ record[runs].approval = "none" /\ record[runs].state = "queued" /\ runs # 0
      /\ runs \notin unrecorded /\ session.approval < runs
  BY <1>1 DEF RunFits, NoRow, NotStarted
<1>7. Numbered' /\ RunFits' /\ CommandFits'
  BY <1>1, <1>3, <1>5, <1>6 DEF Numbered, RunFits, CommandFits, NotStarted, Started, RunPhases
<1>8. SessionFits'
  BY <1>3, <1>5, <1>6 DEF SessionFits, NotDecided, None
<1> QED
  BY <1>5, <1>7, <1>8

(* What all the writes of a run that has been launched have in common.     *)
LEMMA Launched ==
  ASSUME GuidanceInv, doing \in Started
  PROVE  /\ runs \in Manifests /\ runs # None /\ runs \notin unrecorded
         /\ session.manifest = runs /\ session.approval < runs
         /\ session.last_error = "none" /\ record[runs] \in ManifestRows
         /\ session.stage = IF doing \in {"flight", "agent", "evidence", "gathered"}
                            THEN "running" ELSE "awaiting_review"
<1>1. runs \in Manifests /\ runs # None
  BY GuidanceConstants, RowsAre DEF GuidanceInv, RunFits, Manifests, None
<1> QED
  BY <1>1, RowsAre DEF GuidanceInv, RunFits

(* A run writes its row, and the row is what the next write expects.       *)
LEMMA RowKeeps ==
  ASSUME GuidanceInv, doing \in Started, doing' \in Started,
         NEW r \in ManifestRows, Row(r),
         session.stage = IF doing' \in {"flight", "agent", "evidence", "gathered"}
                         THEN "running" ELSE "awaiting_review",
         doing' \in {"agent", "evidence", "gathered", "manifest", "decide"} => r.approval = "none",
         doing' # "flight",
         doing' \in {"agent", "evidence", "gathered", "manifest"} => r.state = "in_flight",
         doing' \in {"approve", "close_approved", "close_merged"} => r.approval = "approve",
         doing' \in {"reject", "close_rejected"} => r.approval = "reject",
         doing' = "close_rejected" => r.state = "rejected"
  PROVE  GuidanceInv'
<1> USE GuidanceConstants, RowsAre DEF GuidanceInv
<1>0. /\ runs \in Manifests /\ runs # None /\ runs \notin unrecorded
      /\ session.manifest = runs /\ session.approval < runs /\ session.last_error = "none"
  BY Launched
<1>1. /\ session' = session /\ runs' = runs /\ contract' = contract /\ briefed' = briefed
      /\ subject' = subject /\ unrecorded' = unrecorded
      /\ record' \in [Manifests -> ManifestRows]
      /\ record'[runs] = r /\ \A m \in Manifests \ {runs} : record'[m] = record[m]
  BY <1>0, RowWrites DEF Row
<1>2. doing' \in Phases /\ doing' \notin NotStarted
      /\ doing' \notin {"idle", "captured", "runtime"}
      /\ doing' \notin {"interrupted", "confirm", "completing", "complete", "recovered",
                        "auto_approve", "auto_close"}
  BY DEF Phases, Started, RunPhases, NotStarted
<1>3. GuidanceTypeOK' /\ Numbered'
  BY <1>1, <1>2 DEF GuidanceTypeOK, Numbered
<1>4. RunFits' /\ CommandFits'
  BY <1>0, <1>1, <1>2 DEF RunFits, CommandFits
<1>5. SessionFits'
  <2>1. session.stage \in {"running", "awaiting_review"}
    OBVIOUS
  <2>2. session.stage = "running" => r.approval = "none" /\ r.state \in {"in_flight"}
    <3>1. session.stage = "running" => doing' \in {"agent", "evidence", "gathered"}
      OBVIOUS
    <3> QED
      BY <3>1
  <2> QED
    BY <1>0, <1>1, <2>1, <2>2 DEF SessionFits, NotDecided
<1> QED
  BY <1>3, <1>4, <1>5

LEMMA RowsOfARunKeep ==
  ASSUME GuidanceInv,
         \/ TakeFlight \/ AgentEnds \/ SaveEvidence \/ SubmitForReview \/ SaveApproval
         \/ Settle \/ ApplyMerge
  PROVE  GuidanceInv'
<1> USE GuidanceConstants, RowsAre DEF GuidanceInv
<1> DEFINE mine == record[runs]
<1>0. /\ doing \in Started
      /\ doing \in {"flight", "agent", "evidence", "manifest", "decide", "approve", "reject",
                    "close_approved"}
  <2>1. doing \in {"flight", "agent", "evidence", "manifest", "decide", "approve", "reject",
                   "close_approved"}
    BY DEF TakeFlight, AgentEnds, SaveEvidence, SubmitForReview, SaveApproval, Settle, ApplyMerge,
           AtPhase
  <2> QED
    BY <2>1 DEF Started, RunPhases, NotStarted
<1>1. /\ session.manifest = runs /\ mine \in ManifestRows
      /\ session.stage = IF doing \in {"flight", "agent", "evidence", "gathered"}
                         THEN "running" ELSE "awaiting_review"
      /\ doing \in {"flight", "agent", "evidence", "manifest", "decide"} => mine.approval = "none"
      /\ doing \in {"agent", "evidence", "manifest"} => mine.state = "in_flight"
      /\ doing \in {"approve", "close_approved"} => mine.approval = "approve"
      /\ doing = "reject" => mine.approval = "reject"
  BY <1>0, Launched DEF RunFits
<1>2. CASE TakeFlight
  <2>1. PICK r : r = [mine EXCEPT !.state = "in_flight"]
    OBVIOUS
  <2>2. r \in ManifestRows /\ r.state = "in_flight" /\ r.approval = mine.approval
    BY <1>1, <2>1 DEF ManifestRows
  <2>3. Row(r) /\ doing = "flight" /\ doing' = "agent" /\ doing' \in Started
    BY <1>1, <1>2, <2>1 DEF TakeFlight, AtPhase, Started, RunPhases, NotStarted
  <2> QED
    BY <1>0, <1>1, <2>2, <2>3, RowKeeps
<1>3. CASE AgentEnds
  <2>1. PICK e \in {"ok", "failed"} :
          Row([record[session.manifest] EXCEPT !.executed = e])
    BY <1>3 DEF AgentEnds
  <2>2. PICK r : r = [mine EXCEPT !.executed = e]
    OBVIOUS
  <2>3. r \in ManifestRows /\ r.state = mine.state /\ r.approval = mine.approval
    BY <1>1, <2>2 DEF ManifestRows
  <2>4. Row(r) /\ doing = "agent" /\ doing' = "evidence" /\ doing' \in Started
    BY <1>1, <1>3, <2>1, <2>2 DEF AgentEnds, AtPhase, Started, RunPhases, NotStarted
  <2> QED
    BY <1>0, <1>1, <2>3, <2>4, RowKeeps
<1>4. CASE SaveEvidence
  <2>1. PICK p \in EvidencePackets : Row([record[session.manifest] EXCEPT !.packet = p])
    BY <1>4 DEF SaveEvidence, RunPackets
  <2>2. PICK r : r = [mine EXCEPT !.packet = p]
    OBVIOUS
  <2>3. r \in ManifestRows /\ r.state = mine.state /\ r.approval = mine.approval
    BY <1>1, <2>2 DEF ManifestRows
  <2>4. Row(r) /\ doing = "evidence" /\ doing' = "gathered" /\ doing' \in Started
    BY <1>1, <1>4, <2>1, <2>2 DEF SaveEvidence, AtPhase, Started, RunPhases, NotStarted
  <2> QED
    BY <1>0, <1>1, <2>3, <2>4, RowKeeps
<1>5. CASE SubmitForReview
  <2>1. PICK r : r = [mine EXCEPT !.state = "under_review"]
    OBVIOUS
  <2>2. r \in ManifestRows /\ r.approval = mine.approval
    BY <1>1, <2>1 DEF ManifestRows
  <2>3. Row(r) /\ doing = "manifest" /\ doing' = "decide" /\ doing' \in Started
    BY <1>1, <1>5, <2>1 DEF SubmitForReview, AtPhase, Started, RunPhases, NotStarted
  <2> QED
    BY <1>0, <1>1, <2>2, <2>3, RowKeeps
<1>6. CASE SaveApproval
  <2>1. PICK d \in {"approve", "reject"} :
          doing' = d /\ Row([record[session.manifest] EXCEPT !.approval = d])
    BY <1>6 DEF SaveApproval
  <2>2. PICK r : r = [mine EXCEPT !.approval = d]
    OBVIOUS
  <2>3. r \in ManifestRows /\ r.approval = d
    BY <1>1, <2>2 DEF ManifestRows
  <2>4. Row(r) /\ doing = "decide" /\ doing' \in Started
    BY <1>1, <1>6, <2>1, <2>2 DEF SaveApproval, Started, RunPhases, NotStarted
  <2> QED
    BY <1>0, <1>1, <2>1, <2>3, <2>4, RowKeeps
<1>7. CASE Settle \/ ApplyMerge
  <2>1. PICK st \in {"approved", "merged", "rejected"} :
          /\ Row([record[session.manifest] EXCEPT !.state = st])
          /\ \/ doing = "approve" /\ doing' = "close_approved"
             \/ doing = "reject" /\ doing' = "close_rejected" /\ st = "rejected"
             \/ doing = "close_approved" /\ doing' = "close_merged"
    BY <1>7 DEF Settle, ApplyMerge, AtPhase
  <2>2. PICK r : r = [mine EXCEPT !.state = st]
    OBVIOUS
  <2>3. r \in ManifestRows /\ r.approval = mine.approval /\ r.state = st
    BY <1>1, <2>2 DEF ManifestRows
  <2>4. Row(r) /\ doing' \in Started
    BY <1>1, <2>1, <2>2 DEF Started, RunPhases, NotStarted
  <2> QED
    BY <1>0, <1>1, <2>1, <2>3, <2>4, RowKeeps
<1> QED
  BY <1>2, <1>3, <1>4, <1>5, <1>6, <1>7

(* The security scan stops a run, or its agent has failed.                 *)
LEMMA RunFailsKeeps ==
  ASSUME GuidanceInv, ScanStops \/ RunFails
  PROVE  GuidanceInv'
<1> USE GuidanceConstants, RowsAre DEF GuidanceInv
<1>0. /\ doing \in {"agent", "manifest"} /\ doing \in Started /\ doing' = "idle"
      /\ Session(Says("blocked", "retry_runtime", "runtime_failed", "other"))
  BY DEF ScanStops, RunFails, AtPhase, Started, RunPhases, NotStarted
<1>1. /\ runs # None /\ session.manifest = runs /\ session.approval < runs
      /\ record[runs].approval = "none" /\ record[runs].state = "in_flight"
  BY <1>0, Launched DEF RunFits
<1>2. PICK s : s = Says("blocked", "retry_runtime", "runtime_failed", "other")
  OBVIOUS
<1>3. s \in Sessions
  BY <1>2 DEF Says, Sessions
<1>4. /\ s.stage = "blocked" /\ s.next_action = "retry_runtime"
      /\ s.last_action = "runtime_failed" /\ s.manifest = runs
      /\ s.approval = session.approval /\ s.brief = session.brief
  BY <1>1, <1>2, SaysWrites
<1>5. /\ GuidanceTypeOK' /\ session' = s /\ record' = record /\ runs' = runs
      /\ subject' = subject /\ unrecorded' = unrecorded
  <2>1. doing' \in Phases
    BY <1>0 DEF Phases
  <2> QED
    BY <1>0, <1>2, <1>3, <2>1, SessionWrites
<1>6. Numbered' /\ RunFits' /\ CommandFits'
  BY <1>0, <1>1, <1>4, <1>5 DEF Numbered, RunFits, CommandFits, NotStarted, Started, RunPhases
<1>7. SessionFits'
  BY <1>1, <1>4, <1>5 DEF SessionFits, NotDecided, Replacing
<1> QED
  BY <1>5, <1>6, <1>7

LEMMA EvidenceReadyKeeps ==
  ASSUME GuidanceInv, EvidenceReady
  PROVE  GuidanceInv'
<1> USE GuidanceConstants, RowsAre DEF GuidanceInv
<1>0. doing = "gathered" /\ doing \in Started /\ doing' = "manifest"
  BY DEF EvidenceReady, AtPhase, Started, RunPhases, NotStarted
<1>1. /\ runs # None /\ session.manifest = runs /\ session.approval < runs
      /\ session.last_error = "none" /\ runs # 0 /\ runs \notin unrecorded
      /\ record[runs].approval = "none" /\ record[runs].state = "in_flight"
  BY <1>0, Launched DEF RunFits
<1>2. PICK s : s = Says("awaiting_review", "review_evidence", "evidence_ready", "none")
  OBVIOUS
<1>3. s \in Sessions
  BY <1>2 DEF Says, Sessions
<1>4. /\ s.stage = "awaiting_review" /\ s.next_action = "review_evidence"
      /\ s.last_error = "none" /\ s.manifest = runs
      /\ s.approval = session.approval /\ s.brief = session.brief
  BY <1>1, <1>2, SaysWrites
<1>5. /\ GuidanceTypeOK' /\ session' = s /\ record' = record /\ runs' = runs
      /\ subject' = subject /\ unrecorded' = unrecorded
  <2>1. doing' \in Phases
    BY <1>0 DEF Phases, RunPhases
  <2>2. Session(s)
    BY <1>1, <1>2 DEF EvidenceReady
  <2> QED
    BY <1>3, <2>1, <2>2, SessionWrites
<1>6. Numbered' /\ RunFits' /\ CommandFits'
  BY <1>0, <1>1, <1>4, <1>5 DEF Numbered, RunFits, CommandFits, NotStarted, Started, RunPhases
<1>7. SessionFits'
  BY <1>1, <1>4, <1>5 DEF SessionFits, None
<1> QED
  BY <1>5, <1>6, <1>7

LEMMA CloseRunKeeps ==
  ASSUME GuidanceInv, CloseRun
  PROVE  GuidanceInv'
<1> USE GuidanceConstants, RowsAre DEF GuidanceInv
<1>0. /\ doing \in {"close_approved", "close_merged", "close_rejected"} /\ doing' = "idle"
      /\ doing \in Started
  BY DEF CloseRun, AtPhase, Started, RunPhases, NotStarted
<1>1. /\ runs # None /\ runs \in Manifests /\ session.manifest = runs /\ session.approval < runs
      /\ record[runs].approval = IF doing = "close_rejected" THEN "reject" ELSE "approve"
      /\ doing = "close_rejected" => record[runs].state = "rejected"
  BY <1>0, Launched DEF RunFits
<1>2. PICK answer : answer = [session EXCEPT !.approval = runs]
  OBVIOUS
<1>3. /\ answer \in Sessions /\ answer.approval = runs /\ answer.manifest = runs
      /\ answer.brief = session.brief
  BY <1>1, <1>2 DEF Sessions, Manifests
<1>4. doing' \in Phases
  BY <1>0 DEF Phases
<1>5. CASE doing = "close_merged"
  <2>1. PICK s : /\ s = [answer EXCEPT !.stage = "completed", !.next_action = "start_new_session",
                           !.last_action = "approval_recorded", !.last_error = "none"]
                 /\ Session(s)
    BY <1>1, <1>2, <1>5 DEF CloseRun, AtPhase
  <2>2. /\ s \in Sessions
        /\ s.stage = "completed" /\ s.next_action = "start_new_session"
        /\ s.approval = runs /\ s.manifest = runs /\ s.brief = session.brief
    BY <1>3, <2>1 DEF Sessions
  <2>3. /\ GuidanceTypeOK' /\ session' = s /\ record' = record /\ runs' = runs
        /\ subject' = subject /\ unrecorded' = unrecorded
    BY <1>4, <2>1, <2>2, SessionWrites
  <2>4. Numbered' /\ RunFits' /\ CommandFits'
    BY <1>0, <1>1, <2>2, <2>3 DEF Numbered, RunFits, CommandFits, NotStarted, Started, RunPhases
  <2>5. SessionFits'
    BY <1>1, <1>5, <2>2, <2>3 DEF SessionFits
  <2> QED
    BY <2>3, <2>4, <2>5
<1>6. CASE doing # "close_merged"
  <2>1. PICK a \in {"approval_rejected", "merge_blocked"} :
          /\ Session([answer EXCEPT !.stage = "blocked", !.next_action = "review_evidence",
                                    !.last_action = a])
          /\ a = IF doing = "close_approved" THEN "merge_blocked" ELSE "approval_rejected"
    BY <1>0, <1>1, <1>2, <1>6 DEF CloseRun, AtPhase
  <2>2. PICK s : s = [answer EXCEPT !.stage = "blocked", !.next_action = "review_evidence",
                                    !.last_action = a]
    OBVIOUS
  <2>3. /\ s \in Sessions
        /\ s.stage = "blocked" /\ s.next_action = "review_evidence" /\ s.last_action = a
        /\ s.approval = runs /\ s.manifest = runs /\ s.brief = session.brief
    BY <1>3, <2>1, <2>2, ZenonT(40) DEF Sessions
  <2>4. /\ GuidanceTypeOK' /\ session' = s /\ record' = record /\ runs' = runs
        /\ subject' = subject /\ unrecorded' = unrecorded
    BY <1>4, <2>1, <2>2, <2>3, SessionWrites
  <2>5. Numbered' /\ RunFits' /\ CommandFits'
    BY <1>0, <1>1, <2>3, <2>4 DEF Numbered, RunFits, CommandFits, NotStarted, Started, RunPhases
  <2>6. SessionFits'
    <3>1. CASE doing = "close_approved"
      <4>1. s.last_action = "merge_blocked" /\ record[runs].approval = "approve"
        BY <1>1, <2>1, <2>3, <3>1
      <4> QED
        BY <1>1, <2>3, <2>4, <4>1 DEF SessionFits, Replacing
    <3>2. CASE doing = "close_rejected"
      <4>1. /\ s.last_action = "approval_rejected" /\ record[runs].approval = "reject"
            /\ record[runs].state = "rejected"
        BY <1>1, <2>1, <2>3, <3>2
      <4> QED
        BY <1>1, <2>3, <2>4, <4>1 DEF SessionFits, Replacing
    <3> QED
      BY <1>0, <1>6, <3>1, <3>2
  <2> QED
    BY <2>4, <2>5, <2>6
<1> QED
  BY <1>5, <1>6

LEMMA ReconcileKeeps ==
  ASSUME GuidanceInv, Reconcile \/ RejectInterrupted
  PROVE  GuidanceInv'
<1> USE GuidanceConstants, RowsAre DEF GuidanceInv
<1>1. CASE Reconcile
  <2>1. PICK s : /\ s = Says("blocked", "retry_runtime", "runtime_interrupted", "other")
                 /\ Session(s)
                 /\ doing = "idle" /\ doing' = "interrupted" /\ session.stage = "running"
    BY <1>1 DEF Reconcile, AtPhase
  <2>2. NotDecided(session.manifest) /\ session.approval < session.manifest
    BY <2>1 DEF SessionFits
  <2>3. s \in Sessions
    BY <2>1 DEF Says, Sessions
  <2>4. /\ s.stage = "blocked" /\ s.next_action = "retry_runtime"
        /\ s.last_action = "runtime_interrupted" /\ s.manifest = session.manifest
        /\ s.approval = session.approval /\ s.brief = session.brief
    BY <2>1, SaysWrites
  <2>5. /\ GuidanceTypeOK' /\ session' = s /\ record' = record /\ runs' = runs
        /\ subject' = subject /\ unrecorded' = unrecorded
    <3>1. doing' \in Phases
      BY <2>1 DEF Phases
    <3> QED
      BY <2>1, <2>3, <3>1, SessionWrites
  <2>6. Numbered' /\ RunFits' /\ CommandFits'
    BY <2>1, <2>4, <2>5 DEF Numbered, RunFits, CommandFits, NotStarted, Started, RunPhases
  <2>7. SessionFits'
    BY <2>2, <2>4, <2>5 DEF SessionFits, NotDecided, Replacing
  <2> QED
    BY <2>5, <2>6, <2>7
<1>2. CASE RejectInterrupted
  <2>1. PICK m : m = session.manifest
    OBVIOUS
  <2>2. /\ doing = "interrupted" /\ doing' = "idle"
        /\ Row([record[m] EXCEPT !.state = "rejected"])
    BY <1>2, <2>1 DEF RejectInterrupted, AtPhase
  <2>3. /\ session.stage = "blocked" /\ session.last_action = "runtime_interrupted"
        /\ NotDecided(m) /\ m \in Manifests
    <3>1. session.stage = "blocked" /\ session.last_action = "runtime_interrupted"
      BY <2>2 DEF CommandFits
    <3> QED
      BY <2>1, <3>1 DEF SessionFits, NotDecided, Replacing, None, Manifests
  <2>4. PICK r : r = [record[m] EXCEPT !.state = "rejected"]
    OBVIOUS
  <2>5. r \in ManifestRows /\ r.state = "rejected" /\ r.approval = record[m].approval
    BY <2>3, <2>4 DEF ManifestRows
  <2>6. /\ session' = session /\ runs' = runs /\ contract' = contract /\ briefed' = briefed
        /\ subject' = subject /\ unrecorded' = unrecorded
        /\ record' \in [Manifests -> ManifestRows]
        /\ record'[m] = r /\ \A n \in Manifests \ {m} : record'[n] = record[n]
    BY <2>1, <2>2, <2>3, <2>4, <2>5, RowWrites DEF Row
  <2>7. GuidanceTypeOK' /\ Numbered'
    BY <2>2, <2>6 DEF GuidanceTypeOK, Numbered, Phases
  <2>8. RunFits' /\ CommandFits'
    BY <2>2, <2>6 DEF RunFits, CommandFits, NotStarted, Started, RunPhases
  <2>9. SessionFits'
    BY <2>1, <2>3, <2>5, <2>6 DEF SessionFits, NotDecided, Replacing
  <2> QED
    BY <2>7, <2>8, <2>9
<1> QED
  BY <1>1, <1>2

(* A completion or a recovery writes the row of its subject, for which the  *)
(* sessions that name it have provided.                                    *)
LEMMA TargetWrites ==
  ASSUME GuidanceInv, NEW m \in Manifests, m <= runs, NEW r \in ManifestRows, RowOnly(m, r),
         doing' \in {"confirm", "completing", "complete", "recovered", "auto_approve", "auto_close"},
         subject' = m, unrecorded' \in {unrecorded, unrecorded \cup {m}},
         \/ r.state = record[m].state /\ r.approval = record[m].approval
         \/ r.approval = "approve" /\ m \in unrecorded',
         doing' \in {"completing", "complete", "auto_close"} =>
           r.approval = "approve" /\ m \in unrecorded',
         doing' \in {"recovered", "auto_approve", "auto_close"} => session.manifest # None,
         doing' = "recovered" => session.stage = "blocked"
  PROVE  GuidanceInv'
<1> USE GuidanceConstants, RowsAre DEF GuidanceInv
<1>1. /\ session' = session /\ runs' = runs /\ contract' = contract /\ briefed' = briefed
      /\ record' \in [Manifests -> ManifestRows]
      /\ record'[m] = r /\ \A n \in Manifests \ {m} : record'[n] = record[n]
  BY RowWrites
<1>2. \A n : n \in unrecorded => n \in unrecorded'
  OBVIOUS
<1>3. GuidanceTypeOK' /\ Numbered'
  <2>1. m \in 0..MaxRuns /\ doing' \in Phases /\ doing' \notin {"captured", "runtime"}
    BY DEF Manifests, Phases
  <2>2. \A n \in unrecorded' : n \in Manifests /\ n <= runs
    BY DEF Numbered
  <2> QED
    BY <1>1, <2>1, <2>2 DEF GuidanceTypeOK, Numbered
<1>4. RunFits' /\ CommandFits'
  <2>1. doing' \notin {"idle", "interrupted", "captured", "runtime"} \cup NotStarted \cup Started
    BY DEF NotStarted, Started, RunPhases
  <2>2. m # None
    BY DEF Manifests, None
  <2> QED
    BY <1>1, <2>1, <2>2 DEF RunFits, CommandFits
<1>5. SessionFits'
  <2>1. \A n \in Manifests : NotDecided(n) => NotDecided(n)'
    <3>1. CASE r.state = record[m].state /\ r.approval = record[m].approval
      BY <1>1, <1>2, <3>1 DEF NotDecided
    <3>2. CASE m \in unrecorded'
      BY <1>1, <1>2, <3>2 DEF NotDecided, Manifests, None
    <3> QED
      BY <3>1, <3>2
  <2>2. session.stage = "running" => NotDecided(session.manifest)'
    <3> SUFFICES ASSUME session.stage = "running" PROVE NotDecided(session.manifest)'
      OBVIOUS
    <3>1. NotDecided(session.manifest) /\ session.manifest \in Manifests
      BY DEF SessionFits, NotDecided, Manifests, None
    <3> QED
      BY <1>1, <2>1, <3>1
  <2>3. session.stage = "completed" => record'[session.approval].approval = "approve"
    BY <1>1 DEF SessionFits, Manifests, None
  <2>4. session.stage = "blocked" =>
          CASE session.last_action \in Replacing -> TRUE
            [] session.last_action \in {"runtime_failed", "runtime_interrupted"} ->
                 NotDecided(session.manifest)' /\ session.approval < session.manifest
            [] session.last_action = "approval_rejected" ->
                 /\ session.approval = session.manifest /\ session.manifest # None
                 /\ \/ session.manifest \in unrecorded'
                    \/ /\ record'[session.manifest].approval = "reject"
                       /\ record'[session.manifest].state = "rejected"
            [] session.last_action = "merge_blocked" ->
                 /\ session.approval = session.manifest /\ session.manifest # None
                 /\ record'[session.manifest].approval = "approve"
            [] OTHER -> FALSE
    <3> SUFFICES ASSUME session.stage = "blocked", session.last_action \notin Replacing
                 PROVE  CASE session.last_action \in {"runtime_failed", "runtime_interrupted"} ->
                 NotDecided(session.manifest)' /\ session.approval < session.manifest
            [] session.last_action = "approval_rejected" ->
                 /\ session.approval = session.manifest /\ session.manifest # None
                 /\ \/ session.manifest \in unrecorded'
                    \/ /\ record'[session.manifest].approval = "reject"
                       /\ record'[session.manifest].state = "rejected"
            [] session.last_action = "merge_blocked" ->
                 /\ session.approval = session.manifest /\ session.manifest # None
                 /\ record'[session.manifest].approval = "approve"
            [] OTHER -> FALSE
      BY DEF Replacing
    <3>1. CASE session.last_action \in {"runtime_failed", "runtime_interrupted"}
      <4>1. NotDecided(session.manifest) /\ session.approval < session.manifest
        BY <3>1 DEF SessionFits
      <4>2. session.manifest \in Manifests
        BY <4>1 DEF NotDecided, Manifests, None
      <4> QED
        BY <1>1, <2>1, <3>1, <4>1, <4>2
    <3>2. CASE session.last_action = "approval_rejected"
      BY <1>1, <1>2, <3>2 DEF SessionFits, Manifests, None
    <3>3. CASE session.last_action = "merge_blocked"
      BY <1>1, <3>3 DEF SessionFits, Manifests, None
    <3> QED
      BY <3>1, <3>2, <3>3 DEF SessionFits
  <2> QED
    BY <1>1, <2>2, <2>3, <2>4 DEF SessionFits
<1> QED
  BY <1>3, <1>4, <1>5

LEMMA RecoverKeeps ==
  ASSUME GuidanceInv, NEW auto \in BOOLEAN, Recover(auto)
  PROVE  GuidanceInv'
<1> USE GuidanceConstants, RowsAre DEF GuidanceInv
<1>1. PICK m : m = Target
  OBVIOUS
<1>2. /\ session.stage = "blocked" /\ m # None /\ doing' \in {"auto_approve", "recovered"}
      /\ subject' = m /\ unrecorded' = unrecorded
      /\ RowOnly(m, [record[m] EXCEPT !.packet = Recovered])
  BY <1>1 DEF Recover, PlanBlocked
<1>3. m \in Manifests /\ m <= runs /\ session.manifest # None
  BY <1>1, <1>2 DEF Target, OneOf, None, Manifests, Numbered, SessionFits
<1>4. PICK r : r = [record[m] EXCEPT !.packet = Recovered]
  OBVIOUS
<1>5. r \in ManifestRows /\ r.state = record[m].state /\ r.approval = record[m].approval
  BY <1>3, <1>4, GuidanceKinds DEF ManifestRows
<1> QED
  BY <1>2, <1>3, <1>4, <1>5, TargetWrites

LEMMA EvidenceRecoveredKeeps ==
  ASSUME GuidanceInv, EvidenceRecovered
  PROVE  GuidanceInv'
<1> USE GuidanceConstants, RowsAre DEF GuidanceInv
<1>1. PICK s : /\ s = Says("awaiting_review", "review_evidence",
                           "self_recovery_evidence_ready", "none")
               /\ session' = s /\ record' = record /\ runs' = runs
               /\ contract' = contract /\ briefed' = briefed
               /\ subject' = 0 /\ unrecorded' = unrecorded
               /\ doing = "recovered" /\ doing' = "idle"
  BY DEF EvidenceRecovered, SessionOnly, AtPhase, None
<1>2. s \in Sessions
  BY <1>1 DEF Says, Sessions
<1>3. /\ s.stage = "awaiting_review" /\ s.next_action = "review_evidence"
      /\ s.manifest = session.manifest /\ s.approval = session.approval
      /\ s.brief = session.brief
  BY <1>1, SaysWrites
<1>4. session.stage = "blocked" /\ session.manifest # None
  BY <1>1 DEF CommandFits
<1>5. GuidanceTypeOK' /\ Numbered'
  BY <1>1, <1>2, <1>3 DEF GuidanceTypeOK, Phases, Numbered
<1>6. RunFits' /\ CommandFits'
  BY <1>1 DEF RunFits, CommandFits, NotStarted, Started, RunPhases
<1>7. SessionFits'
  BY <1>1, <1>3, <1>4 DEF SessionFits
<1> QED
  BY <1>5, <1>6, <1>7

LEMMA CompleteKeeps ==
  ASSUME GuidanceInv, NEW m \in Manifests, CompleteManifest(m)
  PROVE  GuidanceInv'
<1> USE GuidanceConstants, RowsAre DEF GuidanceInv
<1>0. /\ doing = "idle" /\ doing' = "confirm" /\ m <= runs /\ m # None
      /\ subject' = m /\ unrecorded' = unrecorded
  BY DEF CompleteManifest, AtPhase, Manifests, None
<1>1. CASE Attach(m)
  <2>1. PICK v \in BOOLEAN :
          RowOnly(m, [record[m] EXCEPT !.packet = [findings |-> FALSE, verified |-> v,
                                                 quality |-> "complete"]])
    <3>1. record[m].packet.verified \in BOOLEAN
      BY DEF ManifestRows, EvidencePackets
    <3>2. PICK v \in {FALSE, record[m].packet.verified} :
          RowOnly(m, [record[m] EXCEPT !.packet = [findings |-> FALSE, verified |-> v,
                                                 quality |-> "complete"]])
      BY <1>1 DEF Attach
    <3> QED
      BY <3>1, <3>2
  <2>2. PICK p : p = [findings |-> FALSE, verified |-> v, quality |-> "complete"]
    OBVIOUS
  <2>3. p \in EvidencePackets
    BY <2>2 DEF EvidencePackets
  <2>4. PICK r : r = [record[m] EXCEPT !.packet = p]
    OBVIOUS
  <2>5. r \in ManifestRows /\ r.state = record[m].state /\ r.approval = record[m].approval
    BY <2>3, <2>4 DEF ManifestRows
  <2>6. RowOnly(m, r)
    BY <2>1, <2>2, <2>4
  <2> QED
    BY <1>0, <2>5, <2>6, TargetWrites
<1>2. CASE SessionOnly(session)
  <2>1. /\ session' = session /\ record' = record /\ runs' = runs
        /\ contract' = contract /\ briefed' = briefed
    BY <1>2 DEF SessionOnly
  <2>2. GuidanceTypeOK' /\ Numbered'
    BY <1>0, <2>1 DEF GuidanceTypeOK, Phases, Numbered, Manifests
  <2>3. RunFits' /\ CommandFits'
    BY <1>0, <2>1 DEF RunFits, CommandFits, NotStarted, Started, RunPhases
  <2>4. SessionFits'
    BY <1>0, <2>1 DEF SessionFits, NotDecided
  <2> QED
    BY <2>2, <2>3, <2>4
<1> QED
  BY <1>1, <1>2 DEF CompleteManifest

(* The approval of the subject, before and after the state machine is asked.*)
LEMMA ApproveKeeps ==
  ASSUME GuidanceInv, AutoApprove \/ ApproveManually \/ ReconcileManually
  PROVE  GuidanceInv'
<1> USE GuidanceConstants, RowsAre DEF GuidanceInv
<1>1. PICK m : m = subject
  OBVIOUS
<1>2. /\ doing \in {"confirm", "completing", "auto_approve"}
      /\ doing' \in {"completing", "complete", "auto_close"}
      /\ doing' = "auto_close" => doing = "auto_approve"
      /\ subject' = m
  BY <1>1 DEF AutoApprove, ApproveManually, ReconcileManually, ApproveSubject, AtPhase
<1>3. m \in Manifests /\ m <= runs /\ (doing' = "auto_close" => session.manifest # None)
  BY <1>1, <1>2 DEF CommandFits, Numbered, None, Manifests
<1>4. CASE AutoApprove \/ ApproveManually
  <2>1. /\ RowOnly(m, [record[m] EXCEPT !.approval = "approve"])
        /\ unrecorded' = unrecorded \cup {m}
    BY <1>1, <1>4 DEF AutoApprove, ApproveManually, ApproveSubject
  <2>2. PICK r : r = [record[m] EXCEPT !.approval = "approve"]
    OBVIOUS
  <2>3. r \in ManifestRows /\ r.approval = "approve" /\ RowOnly(m, r) /\ m \in unrecorded'
    BY <1>3, <2>1, <2>2 DEF ManifestRows
  <2> QED
    BY <1>2, <1>3, <2>1, <2>3, TargetWrites
<1>5. CASE ReconcileManually
  <2>1. /\ RowOnly(m, [record[m] EXCEPT !.state = "approved"]) /\ unrecorded' = unrecorded
        /\ m \in unrecorded /\ record[m].approval = "approve"
    BY <1>1, <1>5 DEF ReconcileManually, AtPhase, CommandFits
  <2>2. PICK r : r = [record[m] EXCEPT !.state = "approved"]
    OBVIOUS
  <2>3. r \in ManifestRows /\ r.approval = "approve" /\ RowOnly(m, r) /\ m \in unrecorded'
    BY <1>3, <2>1, <2>2 DEF ManifestRows
  <2> QED
    BY <1>2, <1>3, <2>1, <2>3, TargetWrites
<1> QED
  BY <1>4, <1>5

LEMMA CloseKeeps ==
  ASSUME GuidanceInv, AutoComplete \/ CompleteManually
  PROVE  GuidanceInv'
<1> USE GuidanceConstants, RowsAre DEF GuidanceInv
<1>1. PICK action \in {"self_recovery_completed", "manual_completion_reconciled"} :
        Close(action) /\ doing \in {"auto_close", "complete"} /\ doing' = "idle"
  BY DEF AutoComplete, CompleteManually, AtPhase
<1>2. PICK s, t : /\ s = Says("completed", "start_new_session", action, "none")
                  /\ t = [s EXCEPT !.approval = subject]
  OBVIOUS
<1>3. /\ session' = t /\ record' = record /\ runs' = runs /\ contract' = contract /\ briefed' = briefed
      /\ subject' = 0 /\ unrecorded' = unrecorded \ {subject}
  BY <1>1, <1>2 DEF Close, SessionOnly, None
<1>4. s \in Sessions
  BY <1>1, <1>2 DEF Says, Sessions
<1>5. /\ s.stage = "completed" /\ s.next_action = "start_new_session"
      /\ s.manifest = session.manifest /\ s.brief = session.brief
  BY <1>2, SaysWrites
<1>6. /\ t \in Sessions /\ t.stage = "completed" /\ t.next_action = "start_new_session"
      /\ t.manifest = session.manifest /\ t.brief = session.brief /\ t.approval = subject
  BY <1>2, <1>4, <1>5 DEF Sessions
<1>7. subject # None /\ record[subject].approval = "approve"
  BY <1>1 DEF CommandFits
<1>8. GuidanceTypeOK' /\ Numbered'
  BY <1>1, <1>3, <1>6 DEF GuidanceTypeOK, Phases, Numbered
<1>9. RunFits' /\ CommandFits'
  BY <1>1, <1>3 DEF RunFits, CommandFits, NotStarted, Started, RunPhases
<1>10. SessionFits'
  BY <1>3, <1>6, <1>7 DEF SessionFits
<1> QED
  BY <1>8, <1>9, <1>10

LEMMA GuidanceKeeps == GuidanceInv /\ [GuidanceNext]_guidanceVars => GuidanceInv'
<1> SUFFICES ASSUME GuidanceInv, [GuidanceNext]_guidanceVars PROVE GuidanceInv'
  OBVIOUS
<1>1. CASE UNCHANGED guidanceVars
  BY <1>1 DEF guidanceVars, GuidanceInv, GuidanceTypeOK, Numbered, RunFits, CommandFits,
              SessionFits, NotDecided
<1>2. CASE BuildStep
  BY <1>2, BeginningKeeps, ReplacingKeeps, CreateManifestKeeps, PreparingKeeps, LaunchKeeps,
     RowsOfARunKeep, RunFailsKeeps, EvidenceReadyKeeps, CloseRunKeeps DEF BuildStep
<1> QED
  BY <1>1, <1>2, BeginningKeeps, KilledKeeps, ReplacingKeeps, ReconcileKeeps, RecoverKeeps,
     EvidenceRecoveredKeeps, CompleteKeeps, ApproveKeeps, CloseKeeps DEF GuidanceNext

LEMMA GuidanceFollows == GuidanceInv => GuidanceSound
<1> SUFFICES ASSUME GuidanceInv PROVE GuidanceSound
  OBVIOUS
<1> USE GuidanceConstants, RowsAre DEF GuidanceInv
<1>1. /\ SnapshotManifest = IF session.manifest # 0 THEN session.manifest ELSE session.brief
      /\ Target = IF session.approval # 0 THEN session.approval ELSE session.manifest
  BY DEF SnapshotManifest, Target, OneOf, None
<1>2. PICK d : d = SnapshotApproval
  OBVIOUS
<1>3. /\ session.approval # 0 => d = record[session.approval].approval
      /\ session.approval = 0 /\ session.manifest # 0 => d = record[session.manifest].approval
  BY <1>1, <1>2 DEF SnapshotApproval, DecidedOn, RowOf, OneOf, None
<1>4. PICK shot : shot = Snapshot
  OBVIOUS
<1>5. /\ shot.manifest = SnapshotManifest /\ shot.approval = d
      /\ session.manifest # 0 => shot.workflow_state = record[session.manifest].state
  BY <1>1, <1>2, <1>4 DEF Snapshot, RowOf, None
<1>6. PICK r : r = TheReport
  OBVIOUS
<1>7. /\ r.review_state = ReviewState(session, shot) /\ r.latest_outcome = LatestOutcome(session, shot)
      /\ r.next_step = ReportNextStep(session) /\ r.approval = d
      /\ r.workflow_state = EffectiveWorkflowState(session, shot)
      /\ r.last_action = session.last_action
  BY <1>4, <1>5, <1>6 DEF TheReport, BuilderReport
<1>8. CompletedIsClear
  <2> SUFFICES ASSUME session.stage = "completed"
               PROVE  /\ r.review_state = "approved" /\ Diagnosis(r) = "none" /\ PlanCommands = {}
    BY <1>6 DEF CompletedIsClear
  <2>1. d = "approve" /\ shot.approval = "approve"
    BY <1>3, <1>5 DEF SessionFits, None
  <2>2. ~IsHardMergeBlock(session)
    BY DEF IsHardMergeBlock
  <2>3. r.review_state = "approved" /\ r.latest_outcome \in {"approved", "approved_unmerged"}
    BY <1>7, <2>1, <2>2 DEF ReviewState, LatestOutcome
  <2> QED
    BY <1>7, <2>1, <2>3 DEF Diagnosis, IsApproved, PlanCommands
<1>9. ASSUME session.stage = "blocked", session.last_action = "approval_rejected", ~Unrecorded
      PROVE  Diagnosis(r) \notin {"none", "runtime_failed"}
  <2>1. /\ d = "reject" /\ shot.workflow_state = "rejected"
    <3>1. session.approval = session.manifest /\ session.manifest \notin unrecorded
      BY <1>1, <1>9 DEF SessionFits, Replacing, Unrecorded, DecidedOn, OneOf, None
    <3> QED
      BY <1>3, <1>5, <1>9, <3>1 DEF SessionFits, Replacing, None
  <2>2. ~IsHardMergeBlock(session)
    BY <1>9 DEF IsHardMergeBlock
  <2>3. /\ r.review_state = "rejected" /\ r.latest_outcome = "rejected"
        /\ r.workflow_state = "rejected" /\ r.approval = "reject"
        /\ r.last_action = "approval_rejected"
    BY <1>5, <1>7, <1>9, <2>1, <2>2 DEF ReviewState, LatestOutcome, EffectiveWorkflowState
  <2> QED
    BY <2>3 DEF Diagnosis, IsApproved, LooksLikeRuntimeFailure
<1>10. ASSUME session.stage = "blocked", session.last_action = "merge_blocked",
              session.last_error # "review_complete"
       PROVE  /\ Diagnosis(r) = "blocked"
              /\ PlanCommands \cap {"recover --auto-evidence", "verify"} # {}
  <2>1. IsHardMergeBlock(session) /\ ~ApprovedMergeBlock
    BY <1>10 DEF IsHardMergeBlock, IsSoftMergeNotApplied, ApprovedMergeBlock
  <2> QED
    BY <1>7, <1>10, <2>1 DEF ReviewState, Diagnosis, PlanCommands
<1>11. ASSUME session.stage = "blocked", session.approval = None, ~Unrecorded,
              session.last_action \in {"runtime_failed", "runtime_interrupted"}
       PROVE  /\ Diagnosis(r) # "none"
              /\ session.last_action = "runtime_failed" => Diagnosis(r) = "runtime_failed"
  <2>1. /\ d = "none" /\ shot.workflow_state \in {"queued", "in_flight", "rejected"}
    <3>1. session.manifest # None /\ session.manifest \notin unrecorded
      BY <1>1, <1>11 DEF SessionFits, NotDecided, Replacing, Unrecorded, DecidedOn, OneOf, None
    <3> QED
      BY <1>3, <1>5, <1>11, <3>1 DEF SessionFits, NotDecided, Replacing, None
  <2>2. ~IsHardMergeBlock(session)
    BY <1>11 DEF IsHardMergeBlock
  <2>3. /\ r.review_state \in {"queued", "in_flight", "rejected"}
        /\ r.latest_outcome \in {"runtime_failed", "evidence_ready", "manifest_ready",
                                 "brief_captured"}
        /\ r.workflow_state \in {"queued", "in_flight", "rejected"} /\ r.approval = "none"
    BY <1>5, <1>7, <1>11, <2>1, <2>2 DEF ReviewState, LatestOutcome, EffectiveWorkflowState
  <2> QED
    BY <1>7, <2>3 DEF Diagnosis, IsApproved, LooksLikeRuntimeFailure
<1>12. BlocksAreReported
  BY <1>6, <1>9, <1>10, <1>11 DEF BlocksAreReported
<1>13. ClearWhileBlocked
  <2> SUFFICES ASSUME Diagnosis(r) = "none", PlanBlocked, ~Stale, ~Unrecorded,
                      session.last_action \notin Replacing
               PROVE  FALSE
    BY <1>6 DEF ClearWhileBlocked
  <2>1. session.stage = "blocked" /\ ~ApprovedMergeBlock
    BY DEF PlanBlocked
  <2>2. CASE session.last_action \in {"runtime_failed", "runtime_interrupted"}
    <3>1. session.approval = None
      BY <1>1, <2>1, <2>2 DEF Stale, SessionFits, NotDecided, None
    <3> QED
      BY <1>11, <2>1, <2>2, <3>1
  <2>3. CASE session.last_action = "merge_blocked"
    <3>1. session.last_error # "review_complete"
      BY <1>1, <2>1, <2>3 DEF ApprovedMergeBlock, SessionFits, Replacing, RowOf, None
    <3> QED
      BY <1>10, <2>1, <2>3, <3>1
  <2> QED
    BY <1>9, <2>1, <2>2, <2>3 DEF SessionFits
<1>14. AdviceIsTakeable
  <2>1. /\ r.next_step = "continue" => session.stage # "completed"
        /\ r.next_step = "build" => session.stage = "completed"
        /\ r.next_step = "review the evidence" => session.next_action = "review_evidence"
    BY <1>7 DEF ReportNextStep, NextStep, SessionFits
  <2> QED
    BY <1>1, <1>6, <2>1 DEF AdviceIsTakeable, SessionFits, None
<1>15. RecoversWhatRan
  BY <1>1 DEF RecoversWhatRan, SessionFits
<1> QED
  BY <1>8, <1>12, <1>13, <1>14, <1>15 DEF GuidanceSound

(* Whatever builds, continues, recoveries and completions did, and         *)
(* whichever of their writes they were killed before: report, diagnosis    *)
(* and plan of the latest session say what its rows say, and a blocked     *)
(* session is given the all-clear only over a decision of an earlier run,  *)
(* a command that replaced the record of the block, or an approval that a  *)
(* completion or a recovery stored and did not live to record.             *)
THEOREM GuidanceIsSound == GuidanceSpec => []GuidanceSound
BY GuidanceStarts, GuidanceKeeps, GuidanceFollows, PTL DEF GuidanceSpec

-----------------------------------------------------------------------------
(* Project readiness.  What holds of the scan of every project is proved   *)
(* of its operators; what a plan of four scans says follows from what the  *)
(* scans before have left in it, as long as nobody edits.                  *)

(* The first thing needed, or none.                                        *)
LEMMA FirstIs ==
  ASSUME NEW needs, DOMAIN needs \subseteq Nat, NEW wanted, NEW otherwise, NEW i \in DOMAIN needs,
         needs[i][2] \cap wanted # {},
         \A j \in DOMAIN needs : j < i => needs[j][2] \cap wanted = {}
  PROVE  FirstNeeded(needs, wanted, otherwise) = needs[i][1]
<1> DEFINE hit == {k \in DOMAIN needs : needs[k][2] \cap wanted # {}}
<1>1. i \in hit /\ \A j \in hit : j \in Nat /\ i <= j
  OBVIOUS
<1>2. \A k \in hit : (\A j \in hit : k <= j) => k = i
  BY <1>1
<1>3. (CHOOSE k \in hit : \A j \in hit : k <= j) = i
  <2> HIDE DEF hit
  <2> QED
    BY <1>1, <1>2
<1> QED
  BY <1>1, <1>3 DEF FirstNeeded

LEMMA NoneNeeded ==
  ASSUME NEW needs, NEW wanted, NEW otherwise,
         \A j \in DOMAIN needs : needs[j][2] \cap wanted = {}
  PROVE  FirstNeeded(needs, wanted, otherwise) = otherwise
BY DEF FirstNeeded

(* A project stands on the highest rung it reaches.                        *)
LEMMA RungIs ==
  /\ DOMAIN Ladder = 1..5 /\ Len(Ladder) = 5
  /\ Ladder[1] = "prototype" /\ Ladder[2] = "local" /\ Ladder[3] = "shareable"
  /\ Ladder[4] = "candidate" /\ Ladder[5] = "ready"
  /\ \A i \in 1..5 : Rung(Ladder[i]) = i
<1>1. /\ DOMAIN Ladder = 1..5 /\ Len(Ladder) = 5
      /\ Ladder[1] = "prototype" /\ Ladder[2] = "local" /\ Ladder[3] = "shareable"
      /\ Ladder[4] = "candidate" /\ Ladder[5] = "ready"
  BY DEF Ladder
<1>2. \A i, j \in 1..5 : Ladder[i] = Ladder[j] => i = j
  <2> SUFFICES ASSUME NEW i \in 1..5, NEW j \in 1..5, Ladder[i] = Ladder[j] PROVE i = j
    OBVIOUS
  <2>1. i \in {1, 2, 3, 4, 5} /\ j \in {1, 2, 3, 4, 5}
    OBVIOUS
  <2> QED
    BY <1>1, <2>1
<1>3. ASSUME NEW i \in 1..5 PROVE Rung(Ladder[i]) = i
  BY <1>1, <1>2 DEF Rung
<1> QED
  BY <1>1, <1>3

LEMMA MaturityIs ==
  ASSUME NEW s, NEW f
  PROVE  \E i \in 1..5 : /\ Maturity(s, f) = Ladder[i] /\ Reaches(Ladder[i], s, f)
                         /\ \A j \in 1..5 : Reaches(Ladder[j], s, f) => j <= i
<1> DEFINE reached == {i \in DOMAIN Ladder : Reaches(Ladder[i], s, f)}
<1>1. Reaches("prototype", s, f)
  BY DEF Reaches
<1>2. reached \subseteq 1..5 /\ 1 \in reached
  BY <1>1, RungIs
<1>3. \E i \in reached : \A j \in reached : j <= i
  BY <1>2
<1>4. Maturity(s, f) = Ladder[CHOOSE i \in reached : \A j \in reached : j <= i]
  BY DEF Maturity
<1>5. PICK i : i = CHOOSE k \in reached : \A j \in reached : j <= k
  OBVIOUS
<1>6. i \in reached /\ \A j \in reached : j <= i
  <2> HIDE DEF reached
  <2> QED
    BY <1>3, <1>5
<1> QED
  BY <1>2, <1>4, <1>5, <1>6, RungIs

(* What rungs ask for, one by one.                                         *)
LEMMA ReachesIs ==
  ASSUME NEW s, NEW f
  PROVE  /\ Reaches(Ladder[1], s, f)
         /\ Reaches(Ladder[2], s, f) <=> \/ Has(s, PackageFiles \cup {"Dockerfile"})
                                         \/ MissingFrom(s) = {}
         /\ Reaches(Ladder[3], s, f) <=> /\ Has(s, TestSignals)
                                         /\ Has(s, QualitySignals) \/ "github-actions" \in s
         /\ Reaches(Ladder[4], s, f) <=> /\ Has(s, TestSignals) /\ Has(s, QualitySignals)
                                         /\ "github-actions" \in s /\ Severe(f) = {}
         /\ Reaches(Ladder[5], s, f) <=> /\ Reaches(Ladder[4], s, f)
                                         /\ Has(s, RuntimeSignals) /\ Has(s, CesSignals)
BY RungIs DEF Reaches

LEMMA MissingIs ==
  ASSUME NEW s
  PROVE  /\ MissingFrom(s) \subseteq {"readme", "tests", "quality", "ci", "runtime", "profile"}
         /\ "readme" \in MissingFrom(s) <=> "README.md" \notin s
         /\ "tests" \in MissingFrom(s) <=> ~Has(s, TestSignals)
         /\ "quality" \in MissingFrom(s) <=> ~Has(s, QualitySignals)
         /\ "ci" \in MissingFrom(s) <=> "github-actions" \notin s
         /\ "runtime" \in MissingFrom(s) <=> ~Has(s, RuntimeSignals)
         /\ "profile" \in MissingFrom(s) <=> ~Has(s, ProfileSignals)
<1>1. DOMAIN Supplies = {"readme", "tests", "quality", "ci", "runtime", "profile"}
  BY DEF Supplies
<1>2. /\ Supplies["readme"] = {"README.md"} /\ Supplies["tests"] = TestSignals
      /\ Supplies["quality"] = QualitySignals /\ Supplies["ci"] = {"github-actions"}
      /\ Supplies["runtime"] = RuntimeSignals /\ Supplies["profile"] = ProfileSignals
  BY DEF Supplies
<1> QED
  BY <1>1, <1>2 DEF MissingFrom, Has

LEMMA SeverityIs ==
  ASSUME NEW p
  PROVE  /\ Severe(RisksOf(p)) = p \cap {"secret", "swallower"}
         /\ OfCategory(RisksOf(p), "secrets") = p \cap {"secret"}
         /\ OfCategory(RisksOf(p), "slop") = p \cap {"swallower", "weak_tests", "clutter"}
<1>1. /\ FindingKinds["secret"] = <<"high", "secrets">> /\ FindingKinds["large"] = <<"medium", "upkeep">>
      /\ FindingKinds["no_readme"] = <<"medium", "upkeep">> /\ FindingKinds["todo"] = <<"low", "upkeep">>
      /\ FindingKinds["swallower"] = <<"high", "slop">>
      /\ FindingKinds["weak_tests"] = <<"medium", "slop">> /\ FindingKinds["clutter"] = <<"low", "slop">>
  BY DEF FindingKinds
<1>2. RisksOf(p) \subseteq Ills \cup {"no_readme"} /\ RisksOf(p) \cap Ills = p \cap Ills
  BY DEF RisksOf, Ills
<1> QED
  BY <1>1, <1>2 DEF Severe, OfCategory, Ills

(* More signals and no more severe findings never cost a rung.             *)
LEMMA MoreIsNoLess ==
  ASSUME NEW s, NEW f, NEW t, NEW g, s \subseteq t, Severe(g) \subseteq Severe(f)
  PROVE  Rung(Maturity(t, g)) >= Rung(Maturity(s, f))
<1>1. PICK i \in 1..5 : Maturity(s, f) = Ladder[i] /\ Reaches(Ladder[i], s, f)
  BY MaturityIs
<1>2. PICK k \in 1..5 : /\ Maturity(t, g) = Ladder[k]
                        /\ \A j \in 1..5 : Reaches(Ladder[j], t, g) => j <= k
  BY MaturityIs
<1>3. \A X : Has(s, X) => Has(t, X)
  BY DEF Has
<1>4. MissingFrom(t) \subseteq MissingFrom(s)
  BY <1>3 DEF MissingFrom
<1>5. i \in {1, 2, 3, 4, 5}
  OBVIOUS
<1>6. Reaches(Ladder[i], t, g)
  BY <1>1, <1>3, <1>4, <1>5, ReachesIs
<1> QED
  BY <1>1, <1>2, <1>6, RungIs

LEMMA SignalsAre ==
  ASSUME NEW p, NEW q, p \subseteq q
  PROVE  /\ Signals(p) \subseteq Signals(q)
         /\ \A x \in PlainSignals : x \in p => x \in Signals(p)
         /\ "README.md" \in Signals(p) <=> "README.md" \in p
BY DEF Signals, PlainSignals, PackageFiles, RuntimeSignals, CesSignals, ProfileSignals,
       PythonTools, NodeTools

LEMMA IllsAreNoSignals ==
  ASSUME NEW p, NEW ills, ills \subseteq Ills
  PROVE  Signals(p \ ills) = Signals(p)
BY DEF Signals, PlainSignals, PackageFiles, RuntimeSignals, CesSignals, ProfileSignals,
       PythonTools, NodeTools, Ills

LEMMA ClimbListed == ClimbIsListed
<1> SUFFICES ASSUME NEW report, report = ScanOf(project)
             PROVE  LET mended == project \ Severe(report.findings)
                        Rise(p) == Rung(Maturity(Signals(p), RisksOf(p)))
                        Supplied(r, c) ==
                          {x \in {"README.md", "tests-directory", "typescript",
                                  "github-actions", r, c} :
                             \E m \in report.missing : x \in Supplies[m]}
                    IN  /\ \A r \in RuntimeSignals, c \in ProfileSignals :
                             Maturity(Signals(mended \cup Supplied(r, c)), RisksOf(mended)) = "ready"
                        /\ \A t \in PlainSignals : Rise(project \cup {t}) >= Rung(report.maturity)
                        /\ \A t \in project \cap Ills : Rise(project \ {t}) >= Rung(report.maturity)
  BY DEF ClimbIsListed
<1>1. /\ report.findings = RisksOf(project) /\ report.missing = MissingFrom(Signals(project))
      /\ report.maturity = Maturity(Signals(project), RisksOf(project))
  BY DEF ScanOf
<1> DEFINE mended == project \ Severe(report.findings)
<1>2. mended = project \ {"secret", "swallower"}
  BY <1>1, SeverityIs
<1>3. Severe(RisksOf(mended)) = {}
  BY <1>2, SeverityIs
<1>4. Signals(mended) = Signals(project)
  BY <1>2, IllsAreNoSignals DEF Ills
<1>5. ASSUME NEW r \in RuntimeSignals, NEW c \in ProfileSignals, NEW supplied,
             supplied = {x \in {"README.md", "tests-directory", "typescript",
                                "github-actions", r, c} :
                           \E m \in report.missing : x \in Supplies[m]}
      PROVE  Maturity(Signals(mended \cup supplied), RisksOf(mended)) = "ready"
  <2>0. PICK s : s = Signals(mended \cup supplied)
    OBVIOUS
  <2>1. Signals(project) \subseteq s
    BY <1>4, <2>0, SignalsAre
  <2>2. \A x \in PlainSignals : x \in supplied => x \in s
    BY <2>0, SignalsAre
  <2>3. /\ Supplies["tests"] = TestSignals
        /\ Supplies["quality"] = QualitySignals /\ Supplies["ci"] = {"github-actions"}
        /\ Supplies["runtime"] = RuntimeSignals /\ Supplies["profile"] = ProfileSignals
    BY DEF Supplies
  <2>4. \A X : Has(Signals(project), X) => Has(s, X)
    BY <2>1 DEF Has
  <2>5. Has(s, TestSignals)
    <3>1. CASE "tests" \in report.missing
      <4>1. "tests-directory" \in supplied
        BY <1>5, <2>3, <3>1 DEF TestSignals
      <4> QED
        BY <2>2, <4>1 DEF Has, TestSignals, PlainSignals
    <3> QED
      BY <1>1, <2>4, <3>1, MissingIs
  <2>6. Has(s, QualitySignals)
    <3>1. CASE "quality" \in report.missing
      <4>1. "typescript" \in supplied
        BY <1>5, <2>3, <3>1 DEF QualitySignals
      <4> QED
        BY <2>2, <4>1 DEF Has, QualitySignals, PlainSignals
    <3> QED
      BY <1>1, <2>4, <3>1, MissingIs
  <2>7. "github-actions" \in s
    <3>1. CASE "ci" \in report.missing
      <4>1. "github-actions" \in supplied
        BY <1>5, <2>3, <3>1
      <4> QED
        BY <2>2, <4>1 DEF PlainSignals
    <3> QED
      BY <1>1, <2>1, <3>1, MissingIs
  <2>8. Has(s, RuntimeSignals)
    <3>1. CASE "runtime" \in report.missing
      <4>1. r \in supplied
        BY <1>5, <2>3, <3>1
      <4> QED
        BY <2>2, <4>1 DEF Has, PlainSignals
    <3> QED
      BY <1>1, <2>4, <3>1, MissingIs
  <2>9. Has(s, CesSignals)
    <3>1. CASE "profile" \in report.missing
      <4>1. c \in supplied
        BY <1>5, <2>3, <3>1
      <4> QED
        BY <2>2, <4>1 DEF Has, PlainSignals, CesSignals
    <3>2. Has(s, ProfileSignals) => Has(s, CesSignals)
      BY DEF Has, CesSignals
    <3> QED
      BY <1>1, <2>4, <3>1, <3>2, MissingIs
  <2>10. Reaches(Ladder[5], s, RisksOf(mended))
    BY <1>3, <2>5, <2>6, <2>7, <2>8, <2>9, ReachesIs
  <2>11. PICK i \in 1..5 : /\ Maturity(s, RisksOf(mended)) = Ladder[i]
                           /\ \A j \in 1..5 : Reaches(Ladder[j], s, RisksOf(mended)) => j <= i
    BY MaturityIs
  <2>12. i = 5
    BY <2>10, <2>11
  <2> QED
    BY <2>0, <2>11, <2>12, RungIs
<1>6. ASSUME NEW t \in PlainSignals
      PROVE  Rung(Maturity(Signals(project \cup {t}), RisksOf(project \cup {t})))
               >= Rung(report.maturity)
  <2>1. Severe(RisksOf(project \cup {t})) = Severe(RisksOf(project))
    <3>1. t \notin {"secret", "swallower"}
      BY DEF PlainSignals, PackageFiles, RuntimeSignals, CesSignals, ProfileSignals
    <3> QED
      BY <3>1, SeverityIs
  <2>2. Signals(project) \subseteq Signals(project \cup {t})
    BY SignalsAre
  <2> QED
    BY <1>1, <2>1, <2>2, MoreIsNoLess
<1>7. ASSUME NEW t \in project \cap Ills
      PROVE  Rung(Maturity(Signals(project \ {t}), RisksOf(project \ {t}))) >= Rung(report.maturity)
  <2>1. Severe(RisksOf(project \ {t})) \subseteq Severe(RisksOf(project))
    BY SeverityIs
  <2>2. Signals(project \ {t}) = Signals(project)
    BY IllsAreNoSignals
  <2> QED
    BY <1>1, <2>1, <2>2, MoreIsNoLess
<1> QED
  BY <1>5, <1>6, <1>7

LEMMA CommandIs ==
  ASSUME NEW p, NEW report, report = ScanOf(p)
  PROVE  /\ CommandFor(report) \in {"harden", "scratch", "add_signal", "verify"}
         /\ CommandFor(report) = "harden" <=> "secret" \in p
         /\ CommandFor(report) = "scratch" <=> Greenfield(report) /\ "secret" \notin p
         /\ CommandFor(report) = "verify" => report.missing = {}
<1> DEFINE needs == << <<"harden", {"secrets"}>>, <<"scratch", {"empty"}>>,
                       <<"add_signal", {"missing"}>> >>
<1> DEFINE reasons == {FindingKinds[f][2] : f \in report.findings}
                 \cup (IF Greenfield(report) THEN {"empty"} ELSE {})
                 \cup (IF report.missing # {} THEN {"missing"} ELSE {})
<1>1. CommandFor(report) = FirstNeeded(needs, reasons, "verify")
  BY DEF CommandFor
<1>2. /\ DOMAIN needs = 1..3 /\ needs[1] = <<"harden", {"secrets"}>>
      /\ needs[2] = <<"scratch", {"empty"}>> /\ needs[3] = <<"add_signal", {"missing"}>>
  OBVIOUS
<1>3. \A f \in report.findings : FindingKinds[f][2] \in {"secrets", "upkeep", "slop"}
  BY DEF ScanOf, RisksOf, Ills, FindingKinds
<1>4. "secrets" \in reasons <=> "secret" \in p
  <2>1. report.findings = RisksOf(p)
    BY DEF ScanOf
  <2> QED
    BY <2>1, SeverityIs DEF OfCategory
<1>5. /\ "empty" \in reasons <=> Greenfield(report)
      /\ "missing" \in reasons <=> report.missing # {}
  BY <1>3
<1> HIDE DEF needs, reasons
<1>6. CASE "secret" \in p
  <2>1. CommandFor(report) = needs[1][1]
    <3>1. 1 \in 1..3 /\ needs[1][2] \cap reasons # {} /\ \A j \in 1..3 : j < 1 => FALSE
      BY <1>2, <1>4, <1>6
    <3> QED
      BY <1>1, <1>2, <3>1, FirstIs
  <2> QED
    BY <1>2, <1>6, <2>1
<1>7. CASE "secret" \notin p /\ Greenfield(report)
  <2>1. CommandFor(report) = needs[2][1]
    <3>1. 2 \in 1..3 /\ needs[2][2] \cap reasons # {}
          /\ \A j \in 1..3 : j < 2 => needs[j][2] \cap reasons = {}
      BY <1>2, <1>4, <1>5, <1>7
    <3> QED
      BY <1>1, <1>2, <3>1, FirstIs
  <2> QED
    BY <1>2, <1>7, <2>1
<1>8. CASE "secret" \notin p /\ ~Greenfield(report) /\ report.missing # {}
  <2>1. CommandFor(report) = needs[3][1]
    <3>1. 3 \in 1..3 /\ needs[3][2] \cap reasons # {}
          /\ \A j \in 1..3 : j < 3 => needs[j][2] \cap reasons = {}
      <4>1. \A j \in 1..3 : j < 3 => j = 1 \/ j = 2
        OBVIOUS
      <4> QED
        BY <1>2, <1>4, <1>5, <1>8, <4>1
    <3> QED
      BY <1>1, <1>2, <3>1, FirstIs
  <2> QED
    BY <1>2, <1>8, <2>1
<1>9. CASE "secret" \notin p /\ ~Greenfield(report) /\ report.missing = {}
  <2>1. CommandFor(report) = "verify"
    <3>1. \A j \in 1..3 : needs[j][2] \cap reasons = {}
      <4>1. \A j \in 1..3 : j = 1 \/ j = 2 \/ j = 3
        OBVIOUS
      <4> QED
        BY <1>2, <1>4, <1>5, <1>9, <4>1
    <3> QED
      BY <1>1, <1>2, <3>1, NoneNeeded
  <2> QED
    BY <1>9, <2>1
<1> QED
  BY <1>6, <1>7, <1>8, <1>9

LEMMA MeasuresDo == MeasuresAgree
<1> SUFFICES ASSUME NEW report, report = ScanOf(project),
                    NEW action, action = Action(report),
                    NEW score, score = Score(report.signals)
             PROVE  /\ action.command = "verify" => action.maturity = "ready" \/ action.paused
                    /\ action.maturity = "ready" => score >= 90
                    /\ score = 100 /\ ~action.paused => action.maturity = "ready"
  BY DEF MeasuresAgree
<1>1. PICK s, f : s = Signals(project) /\ f = RisksOf(project)
  OBVIOUS
<1>2. /\ report.signals = s /\ report.findings = f /\ report.missing = MissingFrom(s)
      /\ report.maturity = Maturity(s, f)
  BY <1>1 DEF ScanOf
<1>3. /\ action.maturity = Maturity(s, f) /\ action.command = CommandFor(report)
      /\ action.paused <=> Severe(f) # {}
  BY <1>2 DEF Action
<1>4. Maturity(s, f) = "ready" <=> Reaches(Ladder[5], s, f)
  <2>1. PICK i \in 1..5 : /\ Maturity(s, f) = Ladder[i] /\ Reaches(Ladder[i], s, f)
                          /\ \A j \in 1..5 : Reaches(Ladder[j], s, f) => j <= i
    BY MaturityIs
  <2>2. Ladder[i] = "ready" <=> i = 5
    BY RungIs
  <2>3. Reaches(Ladder[5], s, f) => i = 5
    BY <2>1
  <2> QED
    BY <2>1, <2>2, <2>3
<1>5. action.command = "verify" => action.maturity = "ready" \/ action.paused
  <2> SUFFICES ASSUME action.command = "verify", Severe(f) = {} PROVE action.maturity = "ready"
    BY <1>3
  <2>1. MissingFrom(s) = {}
    BY <1>2, <1>3, CommandIs
  <2>2. Has(s, ProfileSignals) => Has(s, CesSignals)
    BY DEF Has, CesSignals
  <2> QED
    BY <1>3, <1>4, <2>1, <2>2, MissingIs, ReachesIs
<1>6. PICK a \in {0, 10}, b \in {0, 10}, c \in {0, 20}, d \in {0, 15}, e \in {0, 20}, g \in {0, 15},
           h \in {0, 10} :
        /\ score = a + b + c + d + e + g + h /\ a = 10
        /\ c = 20 <=> Has(s, TestSignals)
        /\ d = 15 <=> Has(s, QualitySignals)
        /\ e = 20 <=> Has(s, {"github-actions"})
        /\ g = 15 <=> Has(s, RuntimeSignals)
        /\ h = 10 <=> Has(s, CesSignals)
  <2>1. /\ Categories["project"] = <<10, PackageFiles \cup {"Dockerfile", "project-type"}>>
        /\ Categories["documentation"] = <<10, {"README.md"}>>
        /\ Categories["tests"] = <<20, TestSignals>> /\ Categories["quality"] = <<15, QualitySignals>>
        /\ Categories["ci"] = <<20, {"github-actions"}>>
        /\ Categories["runtime"] = <<15, RuntimeSignals>> /\ Categories["ces"] = <<10, CesSignals>>
    BY DEF Categories
  <2>2. Has(s, PackageFiles \cup {"Dockerfile", "project-type"})
    BY <1>1 DEF Has, Signals
  <2> DEFINE Points(x) == IF Has(s, Categories[x][2]) THEN Categories[x][1] ELSE 0
  <2>3. score = Points("project") + Points("documentation") + Points("tests") + Points("quality")
                + Points("ci") + Points("runtime") + Points("ces")
    BY <1>2 DEF Score
  <2> QED
    BY <2>1, <2>2, <2>3
<1>7. "github-actions" \in s <=> Has(s, {"github-actions"})
  BY DEF Has
<1>8. action.maturity = "ready" => score >= 90
  BY <1>3, <1>4, <1>6, <1>7, ReachesIs
<1>9. score = 100 /\ ~action.paused => action.maturity = "ready"
  <2> SUFFICES ASSUME score = 100, Severe(f) = {} PROVE Reaches(Ladder[5], s, f)
    BY <1>3, <1>4
  <2>1. c = 20 /\ d = 15 /\ e = 20 /\ g = 15 /\ h = 10
    BY <1>6
  <2> QED
    BY <1>6, <1>7, <2>1, ReachesIs
<1> QED
  BY <1>5, <1>8, <1>9

(* Which step of a rescue comes first.                                     *)
LEMMA RescueStepIs ==
  ASSUME NEW gaps, NEW slop, NEW step, step = RescueStep(gaps, slop)
  PROVE  /\ step \in {"document", "test", "unslop", "profile", "gate", "runtime", "improve"}
         /\ step \in {"runtime", "improve"} =>
              /\ slop = {}
              /\ gaps \cap {"readme", "instructions", "tests", "profile", "quality", "ci"} = {}
         /\ step = "unslop" => slop # {} \/ "slop" \in gaps
         /\ step = "profile" => "profile" \in gaps
<1> DEFINE needs == << <<"document", {"readme", "instructions"}>>, <<"test", {"tests"}>>,
                 <<"unslop", {"slop"}>>, <<"profile", {"profile"}>>,
                 <<"gate", {"quality", "ci"}>>, <<"runtime", {"runtime"}>> >>
<1> DEFINE wanted == gaps \cup (IF slop = {} THEN {} ELSE {"slop"})
<1>1. step = FirstNeeded(needs, wanted, "improve")
  BY DEF RescueStep
<1>2. /\ DOMAIN needs = 1..6
      /\ needs[1] = <<"document", {"readme", "instructions"}>> /\ needs[2] = <<"test", {"tests"}>>
      /\ needs[3] = <<"unslop", {"slop"}>> /\ needs[4] = <<"profile", {"profile"}>>
      /\ needs[5] = <<"gate", {"quality", "ci"}>> /\ needs[6] = <<"runtime", {"runtime"}>>
  OBVIOUS
<1>3. \/ \A i \in 1..6 : needs[i][2] \cap wanted = {}
      \/ \E i \in 1..6 : /\ needs[i][2] \cap wanted # {}
                         /\ \A j \in 1..6 : j < i => needs[j][2] \cap wanted = {}
  <2> DEFINE hit(i) == needs[i][2] \cap wanted # {}
  <2> HIDE DEF hit
  <2>1. \/ \A i \in 1..6 : ~hit(i)
        \/ \E i \in 1..6 : hit(i) /\ \A j \in 1..6 : j < i => ~hit(j)
    <3>1. \A i \in 1..6 : i = 1 \/ i = 2 \/ i = 3 \/ i = 4 \/ i = 5 \/ i = 6
      OBVIOUS
    <3> QED
      BY <3>1
  <2> QED
    BY <2>1 DEF hit
<1>4. "slop" \in wanted <=> slop # {} \/ "slop" \in gaps
  OBVIOUS
<1>5. \A x : x # "slop" => (x \in wanted <=> x \in gaps)
  OBVIOUS
<1> HIDE DEF needs, wanted
<1>6. CASE \A i \in 1..6 : needs[i][2] \cap wanted = {}
  <2>1. step = "improve"
    BY <1>1, <1>2, <1>6, NoneNeeded
  <2>2. \A i \in 1..6 : \A x \in needs[i][2] : x \notin wanted
    BY <1>6
  <2>3. {"readme", "instructions", "tests", "profile", "quality", "ci", "slop"} \cap wanted = {}
    BY <1>2, <2>2
  <2> QED
    BY <1>4, <1>5, <2>1, <2>3
<1>7. ASSUME NEW i \in 1..6, needs[i][2] \cap wanted # {},
             \A j \in 1..6 : j < i => needs[j][2] \cap wanted = {}
      PROVE  /\ step \in {"document", "test", "unslop", "profile", "gate", "runtime", "improve"}
             /\ step \in {"runtime", "improve"} =>
                  /\ slop = {}
                  /\ gaps \cap {"readme", "instructions", "tests", "profile", "quality", "ci"} = {}
             /\ step = "unslop" => slop # {} \/ "slop" \in gaps
             /\ step = "profile" => "profile" \in gaps
  <2>1. step = needs[i][1]
    <3>1. DOMAIN needs \subseteq Nat
      BY <1>2
    <3> QED
      BY <1>1, <1>2, <1>7, <3>1, FirstIs
  <2>2. i = 1 \/ i = 2 \/ i = 3 \/ i = 4 \/ i = 5 \/ i = 6
    OBVIOUS
  <2>3. CASE i = 6
    <3>1. \A j \in 1..5 : \A x \in needs[j][2] : x \notin wanted
      BY <1>7, <2>3
    <3>2. {"readme", "instructions", "tests", "profile", "quality", "ci", "slop"} \cap wanted = {}
      BY <1>2, <3>1
    <3> QED
      BY <1>2, <1>4, <1>5, <2>1, <2>3, <3>2
  <2>4. CASE i \in {1, 2, 5}
    BY <1>2, <2>1, <2>4
  <2>5. CASE i = 3
    BY <1>2, <1>4, <1>7, <2>1, <2>5
  <2>6. CASE i = 4
    BY <1>2, <1>5, <1>7, <2>1, <2>6
  <2> QED
    BY <2>2, <2>3, <2>4, <2>5, <2>6
<1> QED
  BY <1>3, <1>6, <1>7

LEMMA FirstSlopIs ==
  ASSUME NEW slop, slop # {}, slop \subseteq {"swallower", "weak_tests", "clutter"}
  PROVE  FirstSlop(slop) \in slop
<1> DEFINE needs == << <<"swallower", {"swallower"}>>, <<"weak_tests", {"weak_tests"}>>,
                       <<"clutter", {"clutter"}>> >>
<1>1. FirstSlop(slop) = FirstNeeded(needs, slop, "none")
  BY DEF FirstSlop
<1>2. /\ DOMAIN needs = 1..3 /\ needs[1] = <<"swallower", {"swallower"}>>
      /\ needs[2] = <<"weak_tests", {"weak_tests"}>> /\ needs[3] = <<"clutter", {"clutter"}>>
  OBVIOUS
<1> HIDE DEF needs
<1>3. \E i \in 1..3 : /\ needs[i][2] \cap slop # {}
                      /\ \A j \in 1..3 : j < i => needs[j][2] \cap slop = {}
  <2>1. \A j \in 1..3 : j = 1 \/ j = 2 \/ j = 3
    OBVIOUS
  <2>2. CASE "swallower" \in slop
    <3>1. needs[1][2] \cap slop # {} /\ \A j \in 1..3 : j < 1 => FALSE
      BY <1>2, <2>2
    <3> QED
      BY <3>1
  <2>3. CASE "swallower" \notin slop /\ "weak_tests" \in slop
    <3>1. needs[2][2] \cap slop # {} /\ needs[1][2] \cap slop = {}
      BY <1>2, <2>3
    <3> QED
      BY <2>1, <3>1
  <2>4. CASE "swallower" \notin slop /\ "weak_tests" \notin slop
    <3>0. "clutter" \in slop
      BY <2>4
    <3>1. needs[3][2] \cap slop # {} /\ needs[1][2] \cap slop = {} /\ needs[2][2] \cap slop = {}
      BY <1>2, <2>4, <3>0
    <3> QED
      BY <2>1, <3>1
  <2> QED
    BY <2>2, <2>3, <2>4
<1>4. PICK i \in 1..3 : /\ needs[i][2] \cap slop # {}
                        /\ \A j \in 1..3 : j < i => needs[j][2] \cap slop = {}
  BY <1>3
<1>5. FirstSlop(slop) = needs[i][1]
  <2>1. DOMAIN needs \subseteq Nat
    BY <1>2
  <2> QED
    BY <1>1, <1>2, <1>4, <2>1, FirstIs
<1>6. i = 1 \/ i = 2 \/ i = 3
  OBVIOUS
<1> QED
  BY <1>2, <1>4, <1>5, <1>6

(* Three gaps are three of what a scan of a project lists.                 *)
LEMMA GapsAre ==
  ASSUME NEW p, NEW gaps, gaps = Gaps(p, ScanOf(p))
  PROVE  /\ gaps \subseteq {"readme", "tests", "quality", "ci", "runtime", "profile", "instructions"}
         /\ gaps \subseteq {"runtime"} => ~(Cardinality(gaps) >= 3)
<1>1. gaps \subseteq {"readme", "tests", "quality", "ci", "runtime", "profile", "instructions"}
  BY MissingIs DEF Gaps, ScanOf
<1>2. ASSUME gaps \subseteq {"runtime"} PROVE ~(Cardinality(gaps) >= 3)
  <2>1. gaps = {} \/ gaps = {"runtime"}
    BY <1>2
  <2>2. Cardinality({}) = 0 /\ Cardinality({"runtime"}) = 1
    BY FS_EmptySet, FS_Singleton
  <2> QED
    BY <2>1, <2>2
<1> QED
  BY <1>1, <1>2

LEMMA AdviceIs == AdviceCanBeTaken
<1> DEFINE o == [given |-> FALSE, risky |-> FALSE, criteria |-> FALSE]
<1> SUFFICES ASSUME NEW c, c = Contract(project, o),
                    NEW gaps, gaps = Gaps(project, ScanOf(project))
             PROVE  /\ c.step \notin {"runtime", "improve"}
                    /\ c.status = "blocked" => c.step = "unslop"
                    /\ c.step = "unslop" => c.quoted \in c.areas \cup {"clutter"}
                    /\ c.step = "profile" => "profile" \in c.areas
                    /\ c.step = "gate" /\ "ci" \in gaps => "ci" \in c.areas
  BY DEF AdviceCanBeTaken
<1>1. PICK report, mode, slop, step :
        /\ report = ScanOf(project) /\ mode = Mode(gaps, report) /\ slop = Slop(report)
        /\ step = IF mode = "rescue" THEN RescueStep(gaps, slop) ELSE "whole"
  OBVIOUS
<1>2. /\ c.mode = mode /\ c.step = step /\ c.areas = Areas(mode, gaps, report)
      /\ c.quoted = FirstSlop(slop)
      /\ c.status = "blocked" => OwnWordsRisky(project, step)
  <2>1. c = [mode |-> mode, step |-> step, areas |-> Areas(mode, gaps, report),
             quoted |-> FirstSlop(slop),
             status |-> IF OwnWordsRisky(project, step) THEN "blocked" ELSE "implementable"]
    BY <1>1 DEF Contract
  <2> QED
    BY <2>1
<1>3. /\ slop = project \cap {"swallower", "weak_tests", "clutter"}
      /\ report.findings = RisksOf(project)
  BY <1>1, SeverityIs DEF Slop, ScanOf
<1>4. CASE mode # "rescue"
  BY <1>1, <1>2, <1>4 DEF OwnWordsRisky
<1>5. CASE mode = "rescue"
  <2>1. step = RescueStep(gaps, slop)
    BY <1>1, <1>5
  <2>2. ThinRescue(gaps, report)
    BY <1>1, <1>5 DEF Mode
  <2>3. step \notin {"runtime", "improve"}
    <3> SUFFICES ASSUME step \in {"runtime", "improve"} PROVE FALSE
      OBVIOUS
    <3>1. slop = {} /\ gaps \cap {"readme", "instructions", "tests", "profile", "quality", "ci"} = {}
      BY <2>1, RescueStepIs
    <3>2. gaps \subseteq {"runtime"}
      BY <1>1, <3>1, GapsAre
    <3>3. ~(Cardinality(gaps) >= 3)
      BY <3>2, GapsAre
    <3> QED
      BY <1>1, <2>2, <3>1, <3>3 DEF ThinRescue
  <2>4. step = "unslop" => c.quoted \in c.areas \cup {"clutter"}
    <3> SUFFICES ASSUME step = "unslop" PROVE c.quoted \in c.areas \cup {"clutter"}
      OBVIOUS
    <3>1. slop # {}
      BY <2>1, RescueStepIs, GapsAre
    <3>2. c.quoted \in slop
      BY <1>2, <1>3, <3>1, FirstSlopIs
    <3>3. \A x \in slop : x \in report.findings
      BY <1>3 DEF RisksOf, Ills
    <3> QED
      BY <1>2, <1>3, <1>5, <3>2, <3>3 DEF Areas
  <2>5. step = "profile" => "profile" \in c.areas
    <3>1. step = "profile" => "profile" \in gaps
      BY <2>1, RescueStepIs
    <3> QED
      BY <1>2, <1>5, <3>1 DEF Areas
  <2>6. step = "gate" /\ "ci" \in gaps => "ci" \in c.areas
    BY <1>2, <1>5 DEF Areas
  <2> QED
    BY <1>2, <2>3, <2>4, <2>5, <2>6 DEF OwnWordsRisky
<1> QED
  BY <1>4, <1>5

LEMMA ReadyUnchallenged == ReadyIsUnchallenged
<1> SUFFICES ASSUME NEW w \in Words, Brief(plan.contract, {w}).decision = "ready", Challenged(w)
             PROVE  w.common /\ ~w.documented
  BY DEF ReadyIsUnchallenged
<1>1. {v \in {w} : Overloaded(v)} = {}
  BY DEF Brief
<1> QED
  BY <1>1 DEF Overloaded, Challenged

(* What was scanned still holds while nobody edits, and who saw the        *)
(* project empty remembers it.                                             *)
ScansFit ==
  plan.at # "idle" =>
    /\ Greenfield(ScanOf(project)) => plan.empty
    /\ plan.action.command \in {"harden", "scratch", "add_signal", "verify"}
    /\ plan.action.command = "scratch" => plan.empty
    /\ plan.edits = 0 =>
         /\ plan.action = Action(ScanOf(project))
         /\ plan.at # "advised" =>
              (plan.contract.mode = "greenfield" <=> Greenfield(ScanOf(project)))
         /\ plan.at \in {"aimed", "made"} => plan.aim = Action(ScanOf(project)).target

PlanIsRecord ==
  plan = [at |-> plan.at, action |-> plan.action, contract |-> plan.contract, aim |-> plan.aim,
          commands |-> plan.commands, recommended |-> plan.recommended, empty |-> plan.empty,
          edits |-> plan.edits]

AdviceInv == ReadinessTypeOK /\ PlanIsRecord /\ ScansFit /\ PlanAgrees

LEMMA ActionIs ==
  ASSUME NEW p, NEW action, action = Action(ScanOf(p))
  PROVE  /\ action.maturity \in {Ladder[i] : i \in DOMAIN Ladder}
         /\ action.command = CommandFor(ScanOf(p))
BY MaturityIs, RungIs DEF Action, ScanOf

LEMMA GreenfieldMode ==
  ASSUME NEW p, NEW o
  PROVE  Contract(p, o).mode = "greenfield" <=> Greenfield(ScanOf(p))
BY DEF Contract, Mode

LEMMA AdviceStarts == ReadinessInit => AdviceInv
<1> SUFFICES ASSUME ReadinessInit PROVE AdviceInv
  OBVIOUS
<1>1. /\ project \in StartingProjects /\ plan.at = "idle" /\ plan.edits = 0
      /\ plan.action = NoAction /\ PlanIsRecord
  BY DEF ReadinessInit, PlanIsRecord
<1>2. NoAction.maturity = Ladder[1] /\ 1 \in DOMAIN Ladder
  BY RungIs DEF NoAction
<1>3. ReadinessTypeOK
  BY <1>1, <1>2, ReadinessConstants DEF ReadinessTypeOK, PlanPhases
<1> QED
  BY <1>1, <1>3 DEF AdviceInv, ScansFit, PlanAgrees

LEMMA GuidedIs ==
  ASSUME NEW commands, DOMAIN commands \subseteq Nat, NEW i \in DOMAIN commands,
         commands[i] \in BuildCommands,
         \A j \in DOMAIN commands : j # i => commands[j] \notin BuildCommands
  PROVE  GuidedBuild(commands) = commands[i]
<1>1. {j \in DOMAIN commands : commands[j] \in BuildCommands} = {i}
  OBVIOUS
<1>2. (CHOOSE k \in {i} : \A j \in {i} : k <= j) = i
  <2>1. i \in Nat /\ i <= i
    OBVIOUS
  <2> QED
    BY <2>1
<1> QED
  BY <1>1, <1>2 DEF GuidedBuild

LEMMA ScansKeep ==
  ASSUME AdviceInv, Advise \/ Compile \/ Aim
  PROVE  AdviceInv'
<1>1. CASE Advise
  <2>1. PICK report, action : report = ScanOf(project) /\ action = Action(report)
    OBVIOUS
  <2>2. /\ plan.at = "idle" /\ project' = project
        /\ plan' = [plan EXCEPT !.at = "advised", !.action = action, !.empty = Greenfield(report)]
    BY <1>1, <2>1 DEF Advise
  <2>3. /\ plan'.at = "advised" /\ plan'.action = action /\ plan'.edits = plan.edits
        /\ plan'.empty = Greenfield(report) /\ PlanIsRecord'
    BY <2>2 DEF AdviceInv, PlanIsRecord
  <2>4. /\ action.maturity \in {Ladder[i] : i \in DOMAIN Ladder}
        /\ action.command \in {"harden", "scratch", "add_signal", "verify"}
        /\ action.command = "scratch" => Greenfield(report)
    BY <2>1, ActionIs, CommandIs
  <2>5. ReadinessTypeOK'
    BY <2>2, <2>3, <2>4 DEF AdviceInv, ReadinessTypeOK, PlanPhases
  <2>6. ScansFit'
    BY <2>1, <2>2, <2>3, <2>4 DEF ScansFit
  <2>7. PlanAgrees'
    BY <2>3 DEF PlanAgrees
  <2> QED
    BY <2>3, <2>5, <2>6, <2>7 DEF AdviceInv
<1>2. CASE Compile
  <2>1. PICK o \in Requests : /\ plan.at = "advised" /\ project' = project
          /\ plan' = [plan EXCEPT !.at = "contracted", !.contract = Contract(project, o)]
    BY <1>2 DEF Compile
  <2>2. PICK c : c = Contract(project, o)
    OBVIOUS
  <2>3. /\ plan'.at = "contracted" /\ plan'.action = plan.action /\ plan'.edits = plan.edits
        /\ plan'.empty = plan.empty /\ plan'.contract = c /\ PlanIsRecord'
    BY <2>1, <2>2 DEF AdviceInv, PlanIsRecord
  <2>4. c.mode = "greenfield" <=> Greenfield(ScanOf(project))
    BY <2>2, GreenfieldMode
  <2>5. ReadinessTypeOK'
    BY <2>1, <2>3 DEF AdviceInv, ReadinessTypeOK, PlanPhases
  <2>6. ScansFit'
    BY <2>1, <2>3, <2>4 DEF AdviceInv, ScansFit
  <2>7. PlanAgrees'
    BY <2>3 DEF PlanAgrees
  <2> QED
    BY <2>3, <2>5, <2>6, <2>7 DEF AdviceInv
<1>3. CASE Aim
  <2>1. PICK a : a = Action(ScanOf(project)).target
    OBVIOUS
  <2>2. /\ plan.at = "contracted" /\ project' = project
        /\ plan' = [plan EXCEPT !.at = "aimed", !.aim = a]
    BY <1>3, <2>1 DEF Aim
  <2>3. /\ plan'.at = "aimed" /\ plan'.action = plan.action /\ plan'.edits = plan.edits
        /\ plan'.empty = plan.empty /\ plan'.contract = plan.contract /\ plan'.aim = a
        /\ PlanIsRecord'
    BY <2>2 DEF AdviceInv, PlanIsRecord
  <2>5. ReadinessTypeOK'
    BY <2>2, <2>3 DEF AdviceInv, ReadinessTypeOK, PlanPhases
  <2>6. ScansFit'
    BY <2>1, <2>2, <2>3 DEF AdviceInv, ScansFit
  <2>7. PlanAgrees'
    BY <2>3 DEF PlanAgrees
  <2> QED
    BY <2>3, <2>5, <2>6, <2>7 DEF AdviceInv
<1> QED
  BY <1>1, <1>2, <1>3

LEMMA MakePlanKeeps ==
  ASSUME AdviceInv, MakePlan
  PROVE  AdviceInv'
<1>e. PICK empty : empty = Greenfield(ScanOf(project))
  OBVIOUS
<1>r. PICK recommended : recommended = IF empty THEN "scratch" ELSE plan.action.command
  OBVIOUS
<1>m. PICK middle : middle = IF empty THEN <<"scratch">>
                     ELSE <<"mri", "next", "next_prompt">>
                          \o (IF recommended = "verify" THEN <<>> ELSE <<recommended>>)
  OBVIOUS
<1>c. PICK commands :
        commands = <<"doctor">> \o middle \o <<"verify", "proof", "passport", "rehearsal">>
  OBVIOUS
<1>p. /\ plan' = [plan EXCEPT !.at = "made", !.recommended = recommended, !.commands = commands]
      /\ plan.at = "aimed" /\ project' = project
  BY <1>e, <1>r, <1>m, <1>c, Zenon DEF MakePlan
<1>1. /\ empty = Greenfield(ScanOf(project))
      /\ recommended = IF empty THEN "scratch" ELSE plan.action.command
      /\ middle = IF empty THEN <<"scratch">>
                  ELSE <<"mri", "next", "next_prompt">>
                       \o (IF recommended = "verify" THEN <<>> ELSE <<recommended>>)
      /\ commands = <<"doctor">> \o middle \o <<"verify", "proof", "passport", "rehearsal">>
      /\ plan' = [plan EXCEPT !.at = "made", !.recommended = recommended, !.commands = commands]
      /\ plan.at = "aimed" /\ project' = project
  BY <1>e, <1>r, <1>m, <1>c, <1>p, Zenon
<1>2. /\ plan'.at = "made" /\ plan'.action = plan.action /\ plan'.edits = plan.edits
      /\ plan'.empty = plan.empty /\ plan'.contract = plan.contract /\ plan'.aim = plan.aim
      /\ plan'.recommended = recommended /\ plan'.commands = commands /\ PlanIsRecord'
  BY <1>1 DEF AdviceInv, PlanIsRecord
<1>3. plan.action.command \in {"harden", "scratch", "add_signal", "verify"}
  BY <1>1 DEF AdviceInv, ScansFit
<1>4. /\ GuidedBuild(commands) = IF recommended = "verify" THEN "none" ELSE recommended
      /\ \A i \in DOMAIN commands : commands[i] = "scratch" => recommended = "scratch"
  <2> DEFINE names == {"doctor", "mri", "next", "next_prompt", "harden", "scratch", "add_signal",
                        "verify", "proof", "passport", "rehearsal"}
  <2>0. PICK last : last = <<"verify", "proof", "passport", "rehearsal">>
    OBVIOUS
  <2>l. last \in Seq(names) /\ Len(last) = 4 /\ last[1] = "verify" /\ last[2] = "proof"
        /\ last[3] = "passport" /\ last[4] = "rehearsal"
    BY <2>0
  <2>1. CASE empty
    <3>1. PICK s : s = <<"doctor">> \o <<"scratch">>
      OBVIOUS
    <3>2. /\ DOMAIN commands = 1..6 /\ commands[1] = "doctor" /\ commands[2] = "scratch"
          /\ commands[3] = "verify" /\ commands[4] = "proof" /\ commands[5] = "passport"
          /\ commands[6] = "rehearsal"
      <4>1. commands = s \o <<"verify", "proof", "passport", "rehearsal">>
        BY <1>1, <2>1, <3>1
      <4> QED
        BY <3>1, <4>1
    <3>3. \A j \in 1..6 : j = 1 \/ j = 2 \/ j = 3 \/ j = 4 \/ j = 5 \/ j = 6
      OBVIOUS
    <3>4. \A j \in DOMAIN commands : j # 2 => commands[j] \notin BuildCommands
      BY <3>2, <3>3 DEF BuildCommands
    <3>5. GuidedBuild(commands) = commands[2]
      <4>1. 2 \in DOMAIN commands /\ DOMAIN commands \subseteq Nat /\ commands[2] \in BuildCommands
        BY <3>2 DEF BuildCommands
      <4> QED
        BY <3>4, <4>1, GuidedIs
    <3> QED
      BY <1>1, <2>1, <3>2, <3>5
  <2>2. CASE ~empty /\ recommended = "verify"
    <3>1. PICK m, s : m = <<"mri", "next", "next_prompt">> \o <<>> /\ s = <<"doctor">> \o m
      OBVIOUS
    <3>2. /\ DOMAIN commands = 1..8 /\ commands[1] = "doctor" /\ commands[2] = "mri"
          /\ commands[3] = "next" /\ commands[4] = "next_prompt" /\ commands[5] = "verify"
          /\ commands[6] = "proof" /\ commands[7] = "passport" /\ commands[8] = "rehearsal"
      <4>1. commands = s \o <<"verify", "proof", "passport", "rehearsal">>
        BY <1>1, <2>2, <3>1
      <4>2. m = <<"mri", "next", "next_prompt">>
        BY <3>1
      <4>3. s \in Seq(names) /\ DOMAIN s = 1..4 /\ Len(s) = 4
            /\ s[1] = "doctor" /\ s[2] = "mri" /\ s[3] = "next" /\ s[4] = "next_prompt"
        BY <3>1, <4>2
      <4>5. commands = s \o last
        BY <4>1, <2>0
      <4>6. /\ Len(commands) = 4 + 4 /\ DOMAIN commands = 1..(4 + 4)
            /\ \A j \in 1..4 : commands[j] = s[j]
            /\ \A k \in 1..4 : commands[k + 4] = last[k]
        <5>1. /\ commands \in Seq(names) /\ Len(commands) = Len(s) + Len(last)
              /\ \A i \in 1 .. Len(s) + Len(last) :
                   commands[i] = IF i <= Len(s) THEN s[i] ELSE last[i - Len(s)]
          <6> HIDE DEF names
          <6> QED
            BY <4>3, <2>l, <4>5, ConcatProperties
        <5>2. Len(s) = 4 /\ Len(last) = 4
          BY <4>3, <2>l
        <5> QED
          BY <5>1, <5>2
      <4>7. commands[4 + 1] = last[1] /\ commands[4 + 2] = last[2]
            /\ commands[4 + 3] = last[3] /\ commands[4 + 4] = last[4]
        BY <4>6
      <4> QED
        BY <2>l, <4>3, <4>6, <4>7
    <3>3. \A j \in 1..8 : j = 1 \/ j = 2 \/ j = 3 \/ j = 4 \/ j = 5 \/ j = 6 \/ j = 7 \/ j = 8
      OBVIOUS
    <3>4. \A j \in DOMAIN commands : commands[j] \notin BuildCommands
      BY <3>2, <3>3 DEF BuildCommands
    <3>5. GuidedBuild(commands) = "none"
      BY <3>4 DEF GuidedBuild
    <3> QED
      BY <2>2, <3>4, <3>5 DEF BuildCommands
  <2>3. CASE ~empty /\ recommended # "verify"
    <3>1. PICK m, s : /\ m = <<"mri", "next", "next_prompt">> \o <<recommended>>
                      /\ s = <<"doctor">> \o m
      OBVIOUS
    <3>2. /\ DOMAIN commands = 1..9 /\ commands[1] = "doctor" /\ commands[2] = "mri"
          /\ commands[3] = "next" /\ commands[4] = "next_prompt" /\ commands[5] = recommended
          /\ commands[6] = "verify" /\ commands[7] = "proof" /\ commands[8] = "passport"
          /\ commands[9] = "rehearsal"
      <4>1. commands = s \o <<"verify", "proof", "passport", "rehearsal">>
        BY <1>1, <2>3, <3>1
      <4>2. recommended \in names
        BY <1>1, <1>3
      <4>3. m \in Seq(names) /\ DOMAIN m = 1..4 /\ Len(m) = 4
            /\ m[1] = "mri" /\ m[2] = "next" /\ m[3] = "next_prompt" /\ m[4] = recommended
        BY <3>1, <4>2
      <4>4. s \in Seq(names) /\ DOMAIN s = 1..5 /\ Len(s) = 5 /\ s[1] = "doctor"
            /\ s[2] = "mri" /\ s[3] = "next" /\ s[4] = "next_prompt" /\ s[5] = recommended
        BY <3>1, <4>3
      <4>5. commands = s \o last
        BY <4>1, <2>0
      <4>6. /\ Len(commands) = 4 + 5 /\ DOMAIN commands = 1..(4 + 5)
            /\ \A j \in 1..5 : commands[j] = s[j]
            /\ \A k \in 1..4 : commands[k + 5] = last[k]
        <5>1. /\ commands \in Seq(names) /\ Len(commands) = Len(s) + Len(last)
              /\ \A i \in 1 .. Len(s) + Len(last) :
                   commands[i] = IF i <= Len(s) THEN s[i] ELSE last[i - Len(s)]
          <6> HIDE DEF names
          <6> QED
            BY <4>4, <2>l, <4>5, ConcatProperties
        <5>2. Len(s) = 5 /\ Len(last) = 4
          BY <4>4, <2>l
        <5> QED
          BY <5>1, <5>2
      <4>7. commands[5 + 1] = last[1] /\ commands[5 + 2] = last[2]
            /\ commands[5 + 3] = last[3] /\ commands[5 + 4] = last[4]
        BY <4>6
      <4> QED
        BY <2>l, <4>4, <4>6, <4>7
    <3>3. \A j \in 1..9 : j = 1 \/ j = 2 \/ j = 3 \/ j = 4 \/ j = 5 \/ j = 6 \/ j = 7 \/ j = 8
                            \/ j = 9
      OBVIOUS
    <3>4. \A j \in DOMAIN commands : j # 5 => commands[j] \notin BuildCommands
      BY <3>2, <3>3 DEF BuildCommands
    <3>5. GuidedBuild(commands) = commands[5]
      <4>1. 5 \in DOMAIN commands /\ DOMAIN commands \subseteq Nat /\ commands[5] \in BuildCommands
        BY <1>1, <1>3, <2>3, <3>2 DEF BuildCommands
      <4> QED
        BY <3>4, <4>1, GuidedIs
    <3> QED
      BY <2>3, <3>2, <3>4, <3>5 DEF BuildCommands
  <2> QED
    BY <2>1, <2>2, <2>3
<1>5. recommended = "scratch" => plan.empty
  BY <1>1 DEF AdviceInv, ScansFit
<1>6. ASSUME plan.edits = 0
      PROVE  /\ recommended = "scratch" <=> plan.contract.mode = "greenfield"
             /\ plan.aim = plan.action.target
             /\ recommended # plan.action.command => "secret" \in project
  <2>1. /\ plan.action = Action(ScanOf(project)) /\ plan.aim = Action(ScanOf(project)).target
        /\ plan.contract.mode = "greenfield" <=> empty
    BY <1>1, <1>6 DEF AdviceInv, ScansFit
  <2>2. /\ plan.action.command = "scratch" => empty
        /\ plan.action.command = "scratch" <=> empty /\ "secret" \notin project
    BY <1>1, <2>1, ActionIs, CommandIs
  <2> QED
    BY <1>1, <2>1, <2>2
<1>7. PlanAgrees'
  BY <1>1, <1>2, <1>4, <1>5, <1>6 DEF PlanAgrees
<1>8. ReadinessTypeOK'
  BY <1>1, <1>2 DEF AdviceInv, ReadinessTypeOK, PlanPhases
<1>9. ScansFit'
  BY <1>1, <1>2 DEF AdviceInv, ScansFit
<1> QED
  BY <1>2, <1>7, <1>8, <1>9 DEF AdviceInv

LEMMA EditProjectKeeps ==
  ASSUME AdviceInv, EditProject
  PROVE  AdviceInv'
<1>1. /\ plan.at \notin {"idle", "made"} /\ plan.edits < MaxEdits
      /\ plan' = [plan EXCEPT !.edits = plan.edits + 1,
                              !.empty = plan.empty \/ Greenfield(ScanOf(project'))]
      /\ project' \subseteq Things
  BY ReadinessConstants DEF EditProject, AdviceInv, ReadinessTypeOK
<1>2. PICK green : green = Greenfield(ScanOf(project'))
  OBVIOUS
<1>3. /\ plan'.at = plan.at /\ plan'.action = plan.action /\ plan'.edits = plan.edits + 1
      /\ plan'.contract = plan.contract /\ plan'.aim = plan.aim
      /\ plan'.empty = (plan.empty \/ green) /\ PlanIsRecord'
  BY <1>1, <1>2 DEF AdviceInv, PlanIsRecord
<1>4. plan.edits \in Nat /\ plan.edits + 1 \in 0..MaxEdits /\ plan.edits + 1 # 0
  BY <1>1, ReadinessConstants DEF AdviceInv, ReadinessTypeOK
<1>5. ReadinessTypeOK'
  BY <1>1, <1>3, <1>4 DEF AdviceInv, ReadinessTypeOK
<1>6. ScansFit'
  BY <1>1, <1>2, <1>3, <1>4 DEF AdviceInv, ScansFit
<1>7. PlanAgrees'
  BY <1>1, <1>3 DEF PlanAgrees
<1> QED
  BY <1>3, <1>5, <1>6, <1>7 DEF AdviceInv

LEMMA AdviceKeeps == AdviceInv /\ [ReadinessNext]_readinessVars => AdviceInv'
<1> SUFFICES ASSUME AdviceInv, [ReadinessNext]_readinessVars PROVE AdviceInv'
  OBVIOUS
<1>1. CASE UNCHANGED readinessVars
  BY <1>1 DEF readinessVars, AdviceInv, ReadinessTypeOK, PlanIsRecord, ScansFit, PlanAgrees
<1> QED
  BY <1>1, ScansKeep, MakePlanKeeps, EditProjectKeeps DEF ReadinessNext

(* For every project and whatever is edited while a plan is made: what a   *)
(* scan lists is all that is in the way, its measures agree, its advice    *)
(* can be taken, and a plan of an untouched project agrees with itself.    *)
THEOREM AdviceIsSound == ReadinessSpec => []AdviceSound
<1>1. AdviceInv => AdviceSound
  BY ClimbListed, MeasuresDo, AdviceIs, ReadyUnchallenged DEF AdviceInv, AdviceSound
<1> QED
  BY <1>1, AdviceStarts, AdviceKeeps, PTL DEF ReadinessSpec

-----------------------------------------------------------------------------
(* The lessons of a harness.  What an operator's write makes of a lesson   *)
(* and what a draft leaves of it keep in step with the last decision; the  *)
(* list keeps every lesson once.                                           *)

LEMMA KeepingFacts ==
  ASSUME NEW S, NEW list \in Seq(S), NEW these
  PROVE  /\ Keeping(list, these) \in Seq(S)
         /\ ToSet(Keeping(list, these)) = ToSet(list) \cap these
         /\ IsInjective(list) => IsInjective(Keeping(list, these))
<1> DEFINE n == Len(list)
           T == Seq(S)
           Grown(i, s) == IF list[i] \in these THEN Append(s, list[i]) ELSE s
           Defines(f) == f = [i \in 0..n |-> IF i = 0 THEN <<>> ELSE Grown(i, f[i - 1])]
           step == [i \in 1..n |-> [s \in T |-> Grown(i, s)]]
<1>1. n \in Nat /\ <<>> \in T /\ \A i \in 1..n : list[i] \in S
  BY EmptySeq
<1>2. ASSUME NEW i \in 1..n, NEW s \in T PROVE Grown(i, s) \in T
  BY <1>1, AppendProperties
<1>3. \E f : Defines(f)
  <2>1. step \in StepsOf(n, T)
    BY <1>2 DEF StepsOf
  <2>2. PICK f : Iterates(f, <<>>, step, n, T)
    <3> HIDE DEF step, T, n
    <3> QED
      BY <1>1, <2>1, Iteration
  <2>3. /\ f \in [0..n -> T] /\ f[0] = <<>>
        /\ \A i \in 1..n : f[i] = step[i][f[i - 1]]
    <3> HIDE DEF step, T
    <3> QED
      BY <2>2 DEF Iterates
  <2>4. ASSUME NEW i \in 1..n PROVE f[i] = Grown(i, f[i - 1])
    <3> HIDE DEF Grown, T, n
    <3>1. i - 1 \in 0..n /\ f[i - 1] \in T
      BY <1>1, <2>3
    <3> QED
      BY <2>3, <3>1
  <2> HIDE DEF Grown, T, n
  <2>5. ASSUME NEW i \in 0..n
        PROVE  f[i] = IF i = 0 THEN <<>> ELSE Grown(i, f[i - 1])
    <3>1. CASE i = 0
      BY <2>3, <3>1
    <3>2. CASE i \in 1..n
      BY <2>4, <3>2
    <3> QED
      BY <1>1, <3>1, <3>2
  <2> QED
    BY <2>3, <2>5
<1> DEFINE g == CHOOSE h : Defines(h)
<1>5. Defines(g)
  BY <1>3
<1>6. Keeping(list, these) = g[n]
  BY DEF Keeping
<1>7. g[0] = <<>> /\ \A i \in 1..n : g[i] = Grown(i, g[i - 1])
  <2> HIDE DEF g, Grown, n
  <2>1. g = [i \in 0..n |-> IF i = 0 THEN <<>> ELSE Grown(i, g[i - 1])]
    BY <1>5
  <2>2. \A i \in 0..n : g[i] = IF i = 0 THEN <<>> ELSE Grown(i, g[i - 1])
    BY <2>1
  <2>3. g[0] = <<>>
    BY <1>1, <2>2
  <2>4. ASSUME NEW i \in 1..n PROVE g[i] = Grown(i, g[i - 1])
    <3>1. i \in 0..n /\ i # 0
      BY <1>1
    <3> QED
      BY <2>2, <3>1
  <2> QED
    BY <2>3, <2>4
<1> HIDE DEF g
<1> DEFINE KeptFirst(s, m) ==
             /\ s \in T /\ ToSet(s) = {list[i] : i \in 1..m} \cap these
             /\ IsInjective(list) => IsInjective(s)
           Good == {m \in Nat : m <= n => KeptFirst(g[m], m)}
<1>8. 0 \in Good
  <2>1. ToSet(<<>>) = {} /\ IsInjective(<<>>) /\ 1..0 = {}
    BY DEF ToSet, IsInjective
  <2> QED
    BY <1>1, <1>7, <2>1
<1>9. ASSUME NEW m \in Nat, m \in Good PROVE m + 1 \in Good
  <2>1. SUFFICES ASSUME m + 1 <= n PROVE KeptFirst(g[m + 1], m + 1)
    OBVIOUS
  <2>2. m + 1 \in 1..n /\ (m + 1) - 1 = m /\ KeptFirst(g[m], m)
    BY <1>1, <1>9, <2>1
  <2>3. g[m + 1] = Grown(m + 1, g[m])
    <3> HIDE DEF Grown, KeptFirst, n
    <3> QED
      BY <1>7, <2>2
  <2>4. PICK s, x : s = g[m] /\ x = list[m + 1]
    OBVIOUS
  <2>5. s \in Seq(S) /\ x \in S
    BY <1>1, <2>2, <2>4
  <2>6. {list[i] : i \in 1..(m + 1)} = {list[i] : i \in 1..m} \cup {x}
    <3>1. 1..(m + 1) = (1..m) \cup {m + 1}
      OBVIOUS
    <3> QED
      BY <2>4, <3>1
  <2>7. CASE x \notin these
    BY <2>2, <2>3, <2>4, <2>6, <2>7
  <2>8. CASE x \in these
    <3>1. g[m + 1] = Append(s, x)
      BY <2>3, <2>4, <2>8
    <3>2. /\ Append(s, x) \in Seq(S) /\ DOMAIN Append(s, x) = 1..(Len(s) + 1)
          /\ Append(s, x)[Len(s) + 1] = x /\ \A i \in 1..Len(s) : Append(s, x)[i] = s[i]
      BY <2>5
    <3>3. ToSet(Append(s, x)) = ToSet(s) \cup {x}
      BY <2>5, <3>2 DEF ToSet
    <3>4. ASSUME IsInjective(list) PROVE IsInjective(Append(s, x))
      <4>1. IsInjective(s)
        BY <2>2, <2>4, <3>4
      <4>2. x \notin ToSet(s)
        <5>1. \A i \in 1..m : list[i] # x
          BY <2>2, <2>4, <3>4 DEF IsInjective
        <5> QED
          BY <2>2, <2>4, <5>1
      <4> QED
        BY <2>5, <3>2, <4>1, <4>2 DEF IsInjective, ToSet
    <3> QED
      BY <2>2, <2>4, <2>6, <2>8, <3>1, <3>2, <3>3, <3>4
  <2> QED
    BY <2>7, <2>8
<1>10. \A m \in Nat : m \in Good
  <2> HIDE DEF Good
  <2> QED
    BY <1>8, <1>9, Induction
<1>11. KeptFirst(g[n], n)
  <2>1. n \in Good
    BY <1>1, <1>10
  <2> QED
    BY <1>1, <2>1
<1>12. ToSet(list) = {list[i] : i \in 1..n}
  BY DEF ToSet
<1> QED
  BY <1>6, <1>11, <1>12

LEMMA SaveLessonKeeps ==
  ASSUME LessonTypeOK, NEW l \in Lessons, NEW st \in {"draft", "active", "archived"},
         SaveLesson(l, st)
  PROVE  /\ shelf' \in Seq(Lessons) /\ IsInjective(shelf')
         /\ standing' \in [Lessons -> {"absent", "draft", "active", "archived"}]
         /\ standing'[l] = KeptStatus(l, st) /\ standing'[l] # "absent"
         /\ \A k \in Lessons \ {l} : standing'[k] = standing[k]
         /\ \A k \in Lessons : standing'[k] = "absent" <=> k \notin ToSet(shelf')
<1>1. PICK r : r = Keeping(shelf, Lessons \ {l})
  OBVIOUS
<1>2. r \in Seq(Lessons) /\ ToSet(r) = ToSet(shelf) \ {l} /\ IsInjective(r)
  <2>1. shelf \in Seq(Lessons) /\ IsInjective(shelf)
    BY DEF LessonTypeOK
  <2>2. ToSet(shelf) \subseteq Lessons
    BY <2>1 DEF ToSet
  <2> QED
    BY <1>1, <2>1, <2>2, KeepingFacts
<1>3. shelf' = <<l>> \o r
  BY <1>1 DEF SaveLesson
<1>4. /\ shelf' \in Seq(Lessons) /\ DOMAIN shelf' = 1..(Len(r) + 1)
      /\ shelf'[1] = l /\ \A i \in 1..Len(r) : shelf'[i + 1] = r[i]
  <2>1. <<l>> \in Seq(Lessons) /\ Len(<<l>>) = 1 /\ <<l>>[1] = l
    OBVIOUS
  <2>2. PICK one : one = <<l>>
    OBVIOUS
  <2>3. one \in Seq(Lessons) /\ Len(one) = 1 /\ one[1] = l /\ shelf' = one \o r
    BY <1>3, <2>1, <2>2
  <2>4. /\ shelf' \in Seq(Lessons) /\ Len(shelf') = Len(one) + Len(r)
        /\ \A i \in 1 .. Len(one) + Len(r) :
             shelf'[i] = IF i <= Len(one) THEN one[i] ELSE r[i - Len(one)]
    <3>1. one \in Seq(Lessons) /\ r \in Seq(Lessons)
      BY <1>2, <2>3
    <3>2. /\ one \o r \in Seq(Lessons) /\ Len(one \o r) = Len(one) + Len(r)
          /\ \A i \in 1 .. Len(one) + Len(r) :
               (one \o r)[i] = IF i <= Len(one) THEN one[i] ELSE r[i - Len(one)]
      BY <3>1, ConcatProperties
    <3> QED
      BY <2>3, <3>2
  <2>5. Len(r) \in Nat /\ Len(shelf') = Len(r) + 1
    BY <1>2, <2>3, <2>4
  <2>6. \A i \in 1..Len(r) : i + 1 \in 1 .. Len(one) + Len(r) /\ ~(i + 1 <= Len(one))
                            /\ (i + 1) - Len(one) = i
    BY <2>3, <2>5
  <2>7. \A i \in 1..Len(r) : shelf'[i + 1] = r[i]
    BY <2>4, <2>6
  <2>8. shelf'[1] = l
    BY <2>3, <2>4, <2>5
  <2> QED
    BY <2>4, <2>5, <2>7, <2>8
<1>5. ToSet(shelf') = ToSet(r) \cup {l}
  <2>0. Len(r) \in Nat /\ DOMAIN r = 1..Len(r)
    BY <1>2
  <2>1. \A i \in 1..(Len(r) + 1) : i = 1 \/ \E j \in 1..Len(r) : i = j + 1
    <3> SUFFICES ASSUME NEW i \in 1..(Len(r) + 1), i # 1 PROVE i - 1 \in 1..Len(r) /\ i = (i - 1) + 1
      OBVIOUS
    <3> QED
      BY <2>0
  <2>2. \A j \in 1..Len(r) : j + 1 \in 1..(Len(r) + 1)
    BY <2>0
  <2>3. 1 \in 1..(Len(r) + 1)
    BY <2>0
  <2>4. ToSet(shelf') \subseteq ToSet(r) \cup {l}
    <3> SUFFICES ASSUME NEW i \in 1..(Len(r) + 1) PROVE shelf'[i] \in ToSet(r) \cup {l}
      BY <1>4 DEF ToSet
    <3>1. CASE i = 1
      BY <1>4, <3>1
    <3>2. ASSUME NEW j \in 1..Len(r), i = j + 1 PROVE shelf'[i] \in ToSet(r)
      BY <1>4, <2>0, <3>2 DEF ToSet
    <3> QED
      BY <2>1, <3>1, <3>2
  <2>5. ToSet(r) \cup {l} \subseteq ToSet(shelf')
    BY <1>4, <2>0, <2>2, <2>3 DEF ToSet
  <2> QED
    BY <2>4, <2>5
<1>6. IsInjective(shelf')
  <2> SUFFICES ASSUME NEW a \in 1..(Len(r) + 1), NEW b \in 1..(Len(r) + 1),
                      shelf'[a] = shelf'[b], a < b
               PROVE  FALSE
    BY <1>2, <1>4 DEF IsInjective
  <2>1. b - 1 \in 1..Len(r) /\ shelf'[b] = r[b - 1]
    BY <1>2, <1>4
  <2>2. CASE a = 1
    BY <1>2, <1>4, <2>1, <2>2 DEF ToSet
  <2>3. CASE a # 1
    <3>1. a - 1 \in 1..Len(r) /\ shelf'[a] = r[a - 1]
      BY <1>2, <1>4, <2>3
    <3> QED
      BY <1>2, <2>1, <3>1 DEF IsInjective
  <2> QED
    BY <2>2, <2>3
<1>7. /\ standing' = [standing EXCEPT ![l] = KeptStatus(l, st)]
      /\ KeptStatus(l, st) \in {"draft", "active", "archived"}
  BY DEF SaveLesson, KeptStatus
<1>8. /\ standing' \in [Lessons -> {"absent", "draft", "active", "archived"}]
      /\ standing'[l] = KeptStatus(l, st) /\ standing'[l] # "absent"
      /\ \A k \in Lessons \ {l} : standing'[k] = standing[k]
  BY <1>7 DEF LessonTypeOK
<1>9. \A k \in Lessons : standing'[k] = "absent" <=> k \notin ToSet(shelf')
  BY <1>2, <1>5, <1>8 DEF LessonTypeOK
<1> QED
  BY <1>4, <1>6, <1>8, <1>9

LEMMA SelectedAre ==
  ASSUME LessonTypeOK
  PROVE  /\ SelectActive \in Seq(Lessons) /\ Len(SelectActive) <= MaxActive
         /\ PromptIsFull
<1>1. PICK active : active = Keeping(shelf, {l \in Lessons : standing[l] = "active"})
  OBVIOUS
<1>2. /\ active \in Seq(Lessons)
      /\ ToSet(active) = ToSet(shelf) \cap {l \in Lessons : standing[l] = "active"}
  BY <1>1, KeepingFacts DEF LessonTypeOK
<1>3. PICK n \in Nat : n = IF Len(active) < MaxActive THEN Len(active) ELSE MaxActive
  BY <1>2, LessonConstants
<1>4. SelectActive = SubSeq(active, 1, n)
  BY <1>1, <1>3 DEF SelectActive
<1>5. n <= Len(active) /\ n <= MaxActive
  BY <1>2, <1>3, LessonConstants
<1>6. SelectActive \in Seq(Lessons) /\ Len(SelectActive) = n
      /\ \A i \in 1..n : SelectActive[i] = active[i]
  BY <1>2, <1>4, <1>5
<1>7. ASSUME NEW l \in Lessons, standing[l] = "active", n # MaxActive
      PROVE  l \in ToSet(SelectActive)
  <2>1. n = Len(active)
    BY <1>3, <1>7
  <2>2. l \in ToSet(active)
    BY <1>2, <1>7 DEF LessonTypeOK
  <2> QED
    BY <1>2, <1>6, <2>1, <2>2 DEF ToSet
<1> QED
  BY <1>5, <1>6, <1>7 DEF PromptIsFull

LessonInv == LessonTypeOK /\ ActiveWasActivated

LEMMA LessonStarts == LessonInit => LessonInv
<1> SUFFICES ASSUME LessonInit PROVE LessonInv
  OBVIOUS
<1>1. shelf = <<>> /\ ToSet(<<>>) = {} /\ IsInjective(<<>>) /\ <<>> \in Seq(Lessons)
  BY EmptySeq DEF LessonInit, ToSet, IsInjective
<1> QED
  BY <1>1, LessonConstants DEF LessonInit, LessonInv, LessonTypeOK, ActiveWasActivated

LEMMA LessonKeeps == LessonInv /\ [LessonNext]_lessonVars => LessonInv'
<1> SUFFICES ASSUME LessonInv, [LessonNext]_lessonVars PROVE LessonInv'
  OBVIOUS
<1>0. LessonTypeOK /\ ActiveWasActivated
  BY DEF LessonInv
<1>1. ASSUME NEW l \in Lessons, DraftLesson(l) PROVE LessonInv'
  <2>1. SaveLesson(l, "draft") /\ revising' = revising /\ decided' = decided /\ prompt' = prompt
    BY <1>1 DEF DraftLesson
  <2>2. KeptStatus(l, "draft") = "active" => standing[l] = "active"
    BY DEF KeptStatus
  <2> QED
    BY <1>0, <2>1, <2>2, SaveLessonKeeps DEF LessonInv, LessonTypeOK, ActiveWasActivated
<1>2. ASSUME NEW p \in Operators, NEW l \in Lessons, NEW st \in {"active", "archived"},
             ReadLesson(p, l, st)
      PROVE  LessonInv'
  BY <1>0, <1>2 DEF ReadLesson, LessonInv, LessonTypeOK, ActiveWasActivated
<1>3. ASSUME NEW p \in Operators, WriteLesson(p) PROVE LessonInv'
  <2>1. PICK l \in Lessons, st \in {"active", "archived"} :
          revising[p] = [lesson |-> l, status |-> st]
    BY <1>0, <1>3 DEF WriteLesson, LessonTypeOK
  <2>2. /\ SaveLesson(l, st) /\ decided' = [decided EXCEPT ![l] = st]
        /\ revising' = [revising EXCEPT ![p] = Idle] /\ prompt' = prompt
    BY <1>3, <2>1 DEF WriteLesson
  <2>3. KeptStatus(l, st) = st
    BY DEF KeptStatus
  <2>4. /\ shelf' \in Seq(Lessons) /\ IsInjective(shelf')
        /\ standing' \in [Lessons -> {"absent", "draft", "active", "archived"}]
        /\ standing'[l] = st
        /\ \A k \in Lessons \ {l} : standing'[k] = standing[k]
        /\ \A k \in Lessons : standing'[k] = "absent" <=> k \notin ToSet(shelf')
    BY <1>0, <2>2, <2>3, SaveLessonKeeps
  <2>5. LessonTypeOK'
    BY <1>0, <2>2, <2>4 DEF LessonTypeOK
  <2>6. ActiveWasActivated'
    BY <1>0, <2>2, <2>4 DEF ActiveWasActivated, LessonTypeOK
  <2> QED
    BY <2>5, <2>6 DEF LessonInv
<1>4. ASSUME NEW p \in Operators, OperatorDies(p) PROVE LessonInv'
  BY <1>0, <1>4 DEF OperatorDies, LessonInv, LessonTypeOK, ActiveWasActivated
<1>5. CASE StartRun
  BY <1>0, <1>5, SelectedAre DEF StartRun, LessonInv, LessonTypeOK, ActiveWasActivated
<1>6. CASE UNCHANGED lessonVars
  BY <1>0, <1>6 DEF lessonVars, LessonInv, LessonTypeOK, ActiveWasActivated
<1> QED
  BY <1>1, <1>2, <1>3, <1>4, <1>5, <1>6 DEF LessonNext

LEMMA LessonsAreSafe == LessonSpec => []LessonsSafe
<1>1. LessonInv => LessonsSafe
  BY SelectedAre DEF LessonInv, LessonsSafe
<1> QED
  BY <1>1, LessonStarts, LessonKeeps, PTL DEF LessonSpec

-----------------------------------------------------------------------------
(* The verdicts on changes.  Comparisons have distinct times, so that among *)
(* those that are saved there is one that is the latest.                   *)

VerdictsFit ==
  /\ verdicts \subseteq Verdicts /\ manifests \subseteq HarnessIds
  /\ compared \in 0..MaxVerdicts
  /\ comparing \in [Comparers -> {NotComparing} \cup {{v} : v \in Verdicts}]
  /\ \A v \in verdicts : v.at <= compared
  /\ \A p \in Comparers : \A v \in comparing[p] :
       /\ v.at <= compared
       /\ \A w \in verdicts : w.at = v.at => w = v
       /\ \A q \in Comparers : \A w \in comparing[q] : w.at = v.at => w = v
  /\ \A v, w \in verdicts : v.at = w.at => v = w

LEMMA VerdictsStart == ChangesInit => VerdictsFit
BY VerdictBound DEF ChangesInit, VerdictsFit, NotComparing

LEMMA VerdictsKeep == VerdictsFit /\ [ChangesNext]_changeVars => VerdictsFit'
<1> SUFFICES ASSUME VerdictsFit, [ChangesNext]_changeVars PROVE VerdictsFit'
  OBVIOUS
<1> USE VerdictBound
<1>1. ASSUME NEW c \in HarnessIds, AddChange(c) PROVE VerdictsFit'
  BY <1>1 DEF AddChange, VerdictsFit
<1>2. ASSUME NEW p \in Comparers, NEW c \in HarnessIds, NEW f \in Comparisons, CompareChange(p, c, f)
      PROVE  VerdictsFit'
  <2>1. PICK v : v = [change |-> c, found |-> f, at |-> compared + 1]
    OBVIOUS
  <2>2. v \in Verdicts /\ v.at = compared + 1 /\ compared + 1 \in 0..MaxVerdicts /\ compared \in Nat
    BY <1>2, <2>1 DEF CompareChange, Verdicts, VerdictsFit
  <2>3. /\ compared' = compared + 1 /\ comparing' = [comparing EXCEPT ![p] = {v}]
        /\ manifests' = manifests /\ verdicts' = verdicts
    BY <1>2, <2>1 DEF CompareChange
  <2>4. /\ comparing'[p] = {v} /\ \A q \in Comparers \ {p} : comparing'[q] = comparing[q]
        /\ comparing' \in [Comparers -> {NotComparing} \cup {{w} : w \in Verdicts}]
    BY <2>2, <2>3 DEF VerdictsFit
  <2>5. \A w \in verdicts : w.at \in Nat /\ w.at <= compared /\ w.at <= compared + 1
    BY <2>2 DEF VerdictsFit, Verdicts
  <2>6. \A q \in Comparers : \A w \in comparing[q] :
          w.at \in Nat /\ w.at <= compared /\ w.at <= compared + 1
    BY <2>2 DEF VerdictsFit, Verdicts, NotComparing
  <2>7. ASSUME NEW q \in Comparers, NEW w \in comparing'[q]
        PROVE  /\ w.at <= compared' /\ \A x \in verdicts' : x.at = w.at => x = w
               /\ \A r \in Comparers : \A x \in comparing'[r] : x.at = w.at => x = w
    <3>1. CASE q = p
      <4>1. w = v
        BY <2>4, <2>7, <3>1
      <4> QED
        BY <2>2, <2>3, <2>4, <2>5, <2>6, <4>1
    <3>2. CASE q # p
      <4>1. w \in comparing[q]
        BY <2>4, <2>7, <3>2
      <4> QED
        BY <2>2, <2>3, <2>4, <2>5, <2>6, <4>1 DEF VerdictsFit
    <3> QED
      BY <3>1, <3>2
  <2> QED
    BY <2>2, <2>3, <2>4, <2>5, <2>7 DEF VerdictsFit
<1>3. ASSUME NEW p \in Comparers, SaveVerdict(p) PROVE VerdictsFit'
  <2>1. PICK v \in Verdicts : comparing[p] = {v}
    BY <1>3 DEF SaveVerdict, VerdictsFit
  <2>2. /\ verdicts' = verdicts \cup {v} /\ comparing' = [comparing EXCEPT ![p] = NotComparing]
        /\ manifests' = manifests /\ compared' = compared
    BY <1>3, <2>1 DEF SaveVerdict
  <2>3. /\ comparing'[p] = {} /\ \A q \in Comparers \ {p} : comparing'[q] = comparing[q]
        /\ comparing' \in [Comparers -> {NotComparing} \cup {{w} : w \in Verdicts}]
    BY <2>2 DEF VerdictsFit, NotComparing
  <2>4. /\ v.at <= compared /\ \A w \in verdicts : w.at = v.at => w = v
        /\ \A q \in Comparers : \A w \in comparing[q] : w.at = v.at => w = v
    BY <2>1 DEF VerdictsFit
  <2> QED
    BY <2>1, <2>2, <2>3, <2>4 DEF VerdictsFit
<1>4. ASSUME NEW p \in Comparers, ComparerDies(p) PROVE VerdictsFit'
  <2>1. /\ verdicts' = verdicts /\ comparing' = [comparing EXCEPT ![p] = NotComparing]
        /\ manifests' = manifests /\ compared' = compared
    BY <1>4 DEF ComparerDies
  <2>2. /\ comparing'[p] = {} /\ \A q \in Comparers \ {p} : comparing'[q] = comparing[q]
        /\ comparing' \in [Comparers -> {NotComparing} \cup {{w} : w \in Verdicts}]
    BY <2>1 DEF VerdictsFit, NotComparing
  <2> QED
    BY <2>1, <2>2 DEF VerdictsFit
<1>5. CASE UNCHANGED changeVars
  BY <1>5 DEF changeVars, VerdictsFit
<1> QED
  BY <1>1, <1>2, <1>3, <1>4, <1>5 DEF ChangesNext

LEMMA LatestIsThere ==
  ASSUME VerdictsFit, NEW c, VerdictsOf(c) # {}
  PROVE  /\ LatestVerdict(c) \in VerdictsOf(c)
         /\ \A w \in VerdictsOf(c) : w.at <= LatestVerdict(c).at
<1> DEFINE T == {MaxVerdicts - v.at : v \in VerdictsOf(c)}
<1>1. \A v \in VerdictsOf(c) : v.at \in 1..MaxVerdicts
  BY DEF VerdictsOf, VerdictsFit, Verdicts
<1>2. T \subseteq Nat /\ T # {}
  BY <1>1, VerdictBound
<1>3. PICK x \in T : \A y \in T : x <= y
  <2> HIDE DEF T
  <2> QED
    BY <1>2, LeastNumber
<1>4. PICK v \in VerdictsOf(c) : x = MaxVerdicts - v.at
  BY <1>3
<1>5. \A w \in VerdictsOf(c) : w.at <= v.at
  <2> SUFFICES ASSUME NEW w \in VerdictsOf(c) PROVE w.at <= v.at
    OBVIOUS
  <2>1. x <= MaxVerdicts - w.at
    BY <1>3
  <2> QED
    BY <1>1, <1>4, <2>1, VerdictBound
<1> QED
  BY <1>5 DEF LatestVerdict

LEMMA ReportFollows == VerdictsFit => ReportHonest
<1> SUFFICES ASSUME VerdictsFit PROVE ReportHonest
  OBVIOUS
<1>1. QuietReport
  <2> SUFFICES ASSUME Recommendations = {}
               PROVE  /\ RollbackCandidates = {}
                      /\ \A c \in manifests : \E v \in VerdictsOf(c) :
                           /\ \A w \in VerdictsOf(c) : w.at <= v.at
                           /\ ~v.found.predicted
                           /\ v.found.fixes = "all" \/
                              (v.found.fixes = "none"
                                 /\ ClassifyOutcome(v.found.transcript) = "unknown")
    BY DEF QuietReport
  <2>1. manifests = WithVerdict /\ \A c \in manifests : ~LatestIs(c, "rollback") /\ ~LatestIs(c, "revise")
    BY DEF Recommendations
  <2>2. ASSUME NEW c \in manifests
        PROVE  /\ c \in WithVerdict /\ LatestVerdict(c) \in VerdictsOf(c)
               /\ \A w \in VerdictsOf(c) : w.at <= LatestVerdict(c).at
               /\ NetVerdict(LatestVerdict(c).found) \notin {"rollback", "revise"}
    BY <2>1, <2>2, LatestIsThere DEF LatestIs, WithVerdict
  <2>3. ASSUME NEW f, NetVerdict(f) \notin {"rollback", "revise"}
        PROVE  /\ ~f.predicted /\ ~Unexpected(f)
               /\ \/ f.fixes = "all"
                  \/ f.fixes = "none" /\ ClassifyOutcome(f.transcript) = "unknown"
    BY <2>3 DEF NetVerdict, Missed
  <2>4. RollbackCandidates = {}
    <3> SUFFICES ASSUME NEW c \in RollbackCandidates PROVE FALSE
      OBVIOUS
    <3>1. /\ c \in manifests
          /\ \/ NetVerdict(LatestVerdict(c).found) = "rollback"
             \/ Unexpected(LatestVerdict(c).found) \/ LatestVerdict(c).found.predicted
      BY DEF RollbackCandidates, WithVerdict
    <3> QED
      BY <2>2, <2>3, <3>1
  <2> QED
    BY <2>2, <2>3, <2>4
<1>2. KeptRunsPassed
  <2> SUFFICES ASSUME NEW v \in verdicts, NetVerdict(v.found) = "keep",
                      v.found.transcript.failMarker
               PROVE  v.found.named = "part"
    BY DEF KeptRunsPassed
  <2>1. PICK f \in Comparisons : f = v.found
    BY DEF VerdictsFit, Verdicts
  <2>2. ~f.predicted /\ ~Unexpected(f)
    BY <2>1 DEF NetVerdict
  <2>3. f.named \in {"no", "part", "whole"} /\ (f.named = "whole" => f.predicted)
    BY DEF Comparisons
  <2>4. ClassifyOutcome(f.transcript) = "fail"
    BY <2>1 DEF ClassifyOutcome
  <2>5. SuspectedCause(f.transcript) # "insufficient evidence"
    BY <2>4 DEF SuspectedCause
  <2> QED
    BY <2>1, <2>2, <2>3, <2>4, <2>5 DEF Unexpected
<1> QED
  BY <1>1, <1>2 DEF ReportHonest

LEMMA ReportsAreHonest == ChangesSpec => []ReportHonest
BY VerdictsStart, VerdictsKeep, ReportFollows, PTL DEF ChangesSpec

(* What a harness has evolved into can be trusted: its lessons (LessonsSafe) *)
(* and what it reports of its changes (ReportHonest), which share no state.  *)
THEOREM HarnessIsSafe == LessonSpec /\ ChangesSpec => []HarnessSafe
<1>1. LessonsSafe /\ ReportHonest => HarnessSafe
  BY DEF HarnessSafe
<1> QED
  BY <1>1, LessonsAreSafe, ReportsAreHonest, PTL
=============================================================================
