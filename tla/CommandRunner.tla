--------------------------- MODULE CommandRunner ---------------------------
(***************************************************************************)
(* How ces runs a command: a leader in a process group of its own, the     *)
(* descendants it forks, pipes or files for what it says, and a limit.     *)
(* Three callers differ in what they wait for and in whom they clean up:   *)
(*                                                                         *)
(*   async    run_async_command, for model providers and git              *)
(*   sync     run_sync_command, for verification commands                  *)
(*   runtime  _run_controlled_subprocess, for the coding agent             *)
(*                                                                         *)
(* Processes exit when they like: one that ignores SIGTERM is one that     *)
(* does not exit.  Nothing of theirs is fair; the caller and its timers    *)
(* are.  Time is abstract: a timer may run out as soon as it is armed.     *)
(***************************************************************************)
EXTENDS Integers, FiniteSets

CONSTANTS
  Descendants,    \* processes the leader may fork, directly or not
  Leader,
  MaxInterrupts   \* bound on the signals and cancellations ces receives

ASSUME RunnerConstants ==
  Leader \notin Descendants /\ MaxInterrupts \in Nat

VARIABLES
  runner,     \* which caller this is
  traits,     \* of each process: is it in the group, does it hold the pipes
  reads,      \* whether the leader reads what it is sent, if anything is
  alive,      \* the processes running now
  forked,     \* the processes that ever ran
  calling,    \* where the call is: one of Labels
  result,     \* what the caller gets
  timedOut,   \* the limit has passed: clean up and report a timeout
  interrupts

environment == <<traits, reads, alive, forked>>
runnerVars == <<runner, environment, calling, result, timedOut, interrupts>>

Members == Descendants \cup {Leader}

Runners == {"async", "sync", "runtime"}

Traits == [grouped : BOOLEAN, holds : BOOLEAN]

(* exit_code and timed_out; a call that raises without a result has "none".*)
Results == {[code |-> "none", timed_out |-> FALSE],
            [code |-> "own", timed_out |-> FALSE],
            [code |-> "124", timed_out |-> TRUE]}

NoResult == [code |-> "none", timed_out |-> FALSE]

Labels == {"start", "feed", "wait", "drain", "terminate", "grace", "kill",
           "regrace", "collect", "done"}

RunnerTypeOK ==
  /\ runner \in Runners
  /\ traits \in [Members -> Traits] /\ reads \in BOOLEAN
  /\ alive \subseteq forked /\ forked \subseteq Members
  /\ calling \in Labels /\ result \in Results
  /\ timedOut \in BOOLEAN /\ interrupts \in 0..MaxInterrupts

(* start_new_session: the leader leads its group and cannot leave it.      *)
RunnerInit ==
  /\ runner \in Runners
  /\ traits \in {t \in [Members -> Traits] : t[Leader].grouped /\ t[Leader].holds}
  /\ reads \in BOOLEAN /\ (runner = "sync" => reads)
  /\ alive = {Leader} /\ forked = {Leader}
  /\ calling = CASE runner = "async" -> "feed" [] runner = "sync" -> "wait"
            [] runner = "runtime" -> "start"
  /\ result = NoResult /\ timedOut = FALSE /\ interrupts = 0

-----------------------------------------------------------------------------
(* The processes                                                           *)

(* A child inherits the group and the pipes, or leaves and closes them.    *)
Fork(p, c) ==
  /\ p \in alive /\ c \in Descendants \ forked
  /\ traits[c].grouped => traits[p].grouped
  /\ traits[c].holds => traits[p].holds
  /\ alive' = alive \cup {c} /\ forked' = forked \cup {c}
  /\ UNCHANGED <<runner, traits, reads, calling, result, timedOut, interrupts>>

Exit(p) ==
  /\ p \in alive /\ alive' = alive \ {p}
  /\ UNCHANGED <<runner, traits, reads, forked, calling, result, timedOut, interrupts>>

Group == {p \in alive : traits[p].grouped}

PipesClosed == \A p \in alive : ~traits[p].holds

LeaderGone == Leader \notin alive

(* The standard input is delivered, or nobody is left who could read it.   *)
InputDelivered == reads \/ PipesClosed

-----------------------------------------------------------------------------
(* The callers                                                             *)

At(label) == calling = label /\ UNCHANGED <<runner, interrupts>>

Goes(label) ==
  calling' = label /\ UNCHANGED <<environment, result, timedOut>>

Returns(r) ==
  calling' = "done" /\ result' = r /\ UNCHANGED <<environment, timedOut>>

OwnCode == [code |-> "own", timed_out |-> FALSE]
Code124 == [code |-> "124", timed_out |-> TRUE]

(* The signal handlers of the runtime adapter are installed after Popen.   *)
Armed == At("start") /\ Goes("wait")

(* Standard input is written before the limit begins to run.               *)
Fed == At("feed") /\ InputDelivered /\ Goes("wait")

(* wait ends with the leader, communicate with the pipes too.              *)
Finished ==
  /\ At("wait") /\ LeaderGone
  /\ CASE runner = "async"   -> Goes("drain")
       [] runner = "sync"    -> PipesClosed /\ Returns(OwnCode)
       [] runner = "runtime" -> InputDelivered /\ Returns(OwnCode)

(* The readers of the pipes are gathered without a limit.                  *)
Drained == At("drain") /\ PipesClosed /\ Returns(OwnCode)

LimitPasses ==
  /\ At("wait")
  /\ calling' = "terminate" /\ timedOut' = TRUE
  /\ UNCHANGED <<environment, result>>

(* killpg(SIGTERM): who heeds it exits.                                    *)
Terminate == At("terminate") /\ Goes("grace")

(* After the signals: sync and async report the timeout, the runtime       *)
(* adapter raises TimeoutExpired, which run_task turns into exit code 124, *)
(* and an interrupted call raises.                                         *)
Report ==
  IF ~timedOut THEN Returns(NoResult)
  ELSE IF runner = "async" THEN Goes("collect")
  ELSE Returns(Code124)

(* _collect_reader_tasks: the readers end, or are cancelled.               *)
Collected == At("collect") /\ Returns(Code124)

(* Faulty variant, used by a mutant of PROJECT.json only: the runtime      *)
(* adapter too is content when the leader has gone.                        *)
CleanLeaderOnly == LeaderGone /\ (runner = "sync" => PipesClosed)

(* What a caller waits for after a signal: async for the leader, sync for  *)
(* the leader and the pipes, runtime for the whole group.                  *)
Clean ==
  CASE runner = "async"   -> LeaderGone
    [] runner = "sync"    -> LeaderGone /\ PipesClosed
    [] runner = "runtime" -> Group = {}

CleanedUp == calling \in {"grace", "regrace"} /\ At(calling) /\ Clean /\ Report

(* Faulty variant, used by a mutant of PROJECT.json only: the grace period *)
(* has no end.                                                             *)
GraceForever == At("grace") /\ Clean /\ Goes("kill")

GraceEnds == At("grace") /\ Goes("kill")

(* Faulty variant, used by a mutant of PROJECT.json only: the leader is    *)
(* killed, its group is not.                                               *)
KillLeader ==
  /\ At("kill") /\ calling' = "regrace"
  /\ alive' = alive \ {Leader}
  /\ UNCHANGED <<traits, reads, forked, result, timedOut>>

(* killpg(SIGKILL) ends every process of the group at once.                *)
Kill ==
  /\ At("kill") /\ calling' = "regrace"
  /\ alive' = alive \ Group
  /\ UNCHANGED <<traits, reads, forked, result, timedOut>>

RegraceEnds == At("regrace") /\ Report

(* A cancellation (async), a KeyboardInterrupt or SIGTERM (sync), a signal *)
(* (runtime).  Async cleans up unless it is cleaning up already; sync      *)
(* never does; the handler of the runtime adapter cleans up from the start *)
(* each time, once it is installed.                                        *)
Interrupt ==
  /\ calling # "done" /\ interrupts < MaxInterrupts /\ interrupts' = interrupts + 1
  /\ UNCHANGED runner
  /\ runner = "async" => calling \notin {"terminate", "kill"}   \* no await there
  /\ IF \/ runner = "async" /\ calling \in {"feed", "wait", "drain"}
        \/ runner = "runtime" /\ calling # "start"
     THEN /\ calling' = "terminate" /\ timedOut' = FALSE
          /\ UNCHANGED <<environment, result>>
     ELSE Returns(NoResult)

Timer == LimitPasses \/ GraceEnds \/ RegraceEnds

Caller ==
  \/ Armed \/ Fed \/ Finished \/ Drained \/ Terminate \/ CleanedUp \/ Kill
  \/ Collected

RunnerNext ==
  \/ Caller \/ Timer \/ Interrupt
  \/ \E p \in Members : Exit(p) \/ \E c \in Descendants : Fork(p, c)

(* The caller is scheduled and its timers run out.                         *)
RunnerSpec ==
  /\ RunnerInit /\ [][RunnerNext]_runnerVars
  /\ WF_runnerVars(Caller) /\ WF_runnerVars(Timer)

-----------------------------------------------------------------------------

(* A run of the agent that was stopped, by its limit or by a signal that   *)
(* reached the handlers, leaves no process of its group behind to edit the *)
(* workspace, whatever was forked meanwhile.                               *)
AgentGroupGone ==
  [][runner = "runtime" /\ calling # "done" /\ calling' = "done"
       /\ (timedOut \/ calling \in {"grace", "regrace"})
       => Group' = {}]_runnerVars

(* A timed out call always outlives its leader, and one that reads pipes   *)
(* until they close leaves no process of the group that could write more.  *)
TimeoutCleans ==
  calling = "done" /\ result.timed_out =>
    /\ LeaderGone
    /\ runner = "sync" => \A p \in Group : ~traits[p].holds

(* A result that is not a timeout is complete: whoever could have added to *)
(* the output a caller read through pipes has gone.                        *)
OutputComplete ==
  calling = "done" /\ result.code = "own" =>
    LeaderGone /\ (runner # "runtime" => PipesClosed)

(* What a caller is told of its command, and what is left of it, is as the *)
(* result says.                                                            *)
RunnerSafe == RunnerTypeOK /\ TimeoutCleans /\ OutputComplete

(* Every call ends, but for an async one before its input is read or after *)
(* its leader has gone: there it waits, without a limit, as long as any    *)
(* process holds its pipes.                                                *)
CallEnds ==
  \/ <>(calling = "done")
  \/ <>[](runner = "async" /\ calling \in {"feed", "drain"} /\ ~PipesClosed)
=============================================================================
