----------------------------- MODULE RepairLoop -----------------------------
(***************************************************************************)
(* What bounds an agent that tries again: the loop of ces execute with     *)
(* --auto-repair, which stops an agent that keeps making the same claim    *)
(* (execute_cmd.py), and the budget of retries, tokens and delegations     *)
(* that an orchestrator asks before it acts (self_correction_manager.py).  *)
(*                                                                         *)
(* The orchestrator is not in the repository: it is assumed to ask first,  *)
(* as each method's comment tells it to, and to look at the breaker either *)
(* before or after it counts a delegation.                                 *)
(***************************************************************************)
EXTENDS Integers, FiniteSets

CONSTANTS
  Claims,       \* claims an agent makes (summary and files)
  RepairLimits,  \* values of --auto-repair
  RetryLimit,   \* max_retries of the engine and of a task (3)
  TokenBudget,  \* tokens of a task
  Costs,        \* tokens one retry may use
  Models,       \* roster of models
  MaxDepth,     \* delegation depth at which the breaker trips (3)
  MaxSpawns     \* spawns at which it trips (10)

ASSUME RepairBounds ==
  /\ RepairLimits \subseteq Nat /\ RetryLimit \in Nat \ {0} /\ TokenBudget \in Nat
  /\ Costs \subseteq Nat \ {0} /\ Models # {}
  /\ MaxDepth \in Nat /\ MaxSpawns \in Nat /\ MaxDepth <= MaxSpawns

-----------------------------------------------------------------------------
(* The prompt of a repair: findings by kind, worst kind first.  A finding  *)
(* is its kind (in alphabetical order) and its severity (0 is critical).   *)

FindingKinds == 1..3
SeverityRanks == 0..3
Findings == [kind : FindingKinds, severity : SeverityRanks]
WorstOf(kind, batch) ==
  CHOOSE s \in {f.severity : f \in {g \in batch : g.kind = kind}} :
    \A f \in batch : f.kind = kind => s <= f.severity

\* f stands before g in the prompt
PromptedBefore(f, g, batch) ==
  LET worstF == WorstOf(f.kind, batch)  worstG == WorstOf(g.kind, batch) IN
  IF f.kind = g.kind THEN f.severity < g.severity
  ELSE worstF < worstG \/ (worstF = worstG /\ f.kind < g.kind)

-----------------------------------------------------------------------------
VARIABLES
  loop,     \* one run of ces execute
  task,     \* the retries and tokens of a task
  breaker,  \* its delegations
  second    \* the models asked for a second opinion, with the retry it was

repairVars == <<loop, task, breaker, second>>

NewLoop(limit) ==
  [at |-> "agent", limit |-> limit, attempt |-> 0, retries |-> 0,
   claimed |-> [c \in Claims |-> 0], verified |-> [c \in Claims |-> 0]]
NoTask == [tier |-> "C", retries |-> 0, tokens |-> 0, careful |-> TRUE, model |-> CHOOSE m \in Models : TRUE]
NewBreaker == [depth |-> 0, spawns |-> 0, tripped |-> FALSE, dispatched |-> 0]

RepairInit ==
  /\ \E limit \in RepairLimits : loop = NewLoop(limit)
  /\ \E tier \in {"A", "B"}, careful \in BOOLEAN :
       task = [NoTask EXCEPT !.tier = tier, !.careful = careful]
  /\ breaker = NewBreaker /\ second = {}

LoopOnly == task.retries = 0 /\ breaker = NewBreaker /\ UNCHANGED <<task, breaker, second>>
TaskOnly == loop.attempt = 0 /\ loop.at = "agent" /\ UNCHANGED loop

(* Every claim is noted; the same one more than three times is a stall.    *)
DetectNoProgress(claimed) == \E c \in Claims : claimed[c] > 3

AgentClaimsAgain ==
  /\ loop.at = "agent"
  /\ \E c \in Claims :
       LET claimed == [loop.claimed EXCEPT ![c] = @ + 1] IN
       loop' = IF DetectNoProgress(claimed)
               THEN [loop EXCEPT !.claimed = claimed, !.at = "no_progress"]
               ELSE [loop EXCEPT !.claimed = claimed, !.at = "gate", !.verified[c] = @ + 1]
  /\ LoopOnly

\* the runtime fails, leaves its scope, or makes no claim
AgentGivesNothing ==
  /\ loop.at = "agent" /\ loop' = [loop EXCEPT !.at = "failed"] /\ LoopOnly

GatePasses ==
  /\ loop.at = "gate" /\ loop' = [loop EXCEPT !.at = "passed"] /\ LoopOnly

\* the findings go back to the agent, unless the user or the engine says no
GateRejects ==
  /\ loop.at = "gate"
  /\ loop' = IF loop.attempt >= loop.limit \/ loop.retries >= RetryLimit
             THEN [loop EXCEPT !.at = "failed"]
             ELSE [loop EXCEPT !.at = "agent", !.attempt = @ + 1, !.retries = @ + 1]
  /\ LoopOnly

-----------------------------------------------------------------------------
CanRetry(state) == state.retries < RetryLimit /\ state.tokens < TokenBudget
CheckTokenBudget(state, needed) == state.tokens + needed <= TokenBudget
NeedsSecondAgent(state) == state.tier = "A" /\ state.retries = RetryLimit - 1
AlternateModels(current) == Models \ {current}
RecordRetry(state, consumed) ==
  [state EXCEPT !.retries = @ + 1, !.tokens = @ + consumed]

\* a roster without another model is an error, and the retry is not made
RetryTask ==
  /\ CanRetry(task)
  /\ \E cost \in Costs :
       /\ task.careful => CheckTokenBudget(task, cost)
       /\ task' = RecordRetry(task, cost)
  /\ IF NeedsSecondAgent(task)
     THEN \E m \in AlternateModels(task.model) : second' = second \cup {[model |-> m, retry |-> task.retries + 1]}
     ELSE UNCHANGED second
  /\ UNCHANGED breaker /\ TaskOnly

IncrementDepth(state) == [state EXCEPT !.depth = @ + 1, !.spawns = @ + 1]
CheckCircuitBreaker(state) ==
  IF state.depth >= MaxDepth \/ state.spawns >= MaxSpawns
  THEN [state EXCEPT !.tripped = TRUE] ELSE state
Dispatched(state) ==
  IF state.tripped THEN state ELSE [state EXCEPT !.dispatched = @ + 1]

DelegateCountedFirst ==
  /\ ~breaker.tripped
  /\ breaker' = Dispatched(CheckCircuitBreaker(IncrementDepth(breaker)))
  /\ UNCHANGED <<task, second>> /\ TaskOnly

DelegateCheckedFirst ==
  /\ ~breaker.tripped
  /\ LET checked == CheckCircuitBreaker(breaker) IN
     breaker' = IF checked.tripped THEN checked ELSE Dispatched(IncrementDepth(checked))
  /\ UNCHANGED <<task, second>> /\ TaskOnly

RepairNext ==
  \/ AgentClaimsAgain \/ AgentGivesNothing \/ GatePasses \/ GateRejects
  \/ RetryTask \/ DelegateCountedFirst \/ DelegateCheckedFirst

RepairSpec == RepairInit /\ [][RepairNext]_repairVars

-----------------------------------------------------------------------------
RepairTypeOK ==
  /\ loop.at \in {"agent", "gate", "passed", "failed", "no_progress"}
  /\ loop.limit \in RepairLimits /\ loop.attempt \in Nat
  /\ task.retries \in Nat /\ task.tokens \in Nat
  /\ breaker.depth \in Nat /\ breaker.tripped \in BOOLEAN
  /\ second \subseteq [model : Models, retry : 1..RetryLimit]

(* An agent runs at most once more than the user and the engine allow      *)
(* repairs, the gate never looks at the same claim a fourth time, and a    *)
(* stall is only called one when it cost all the retries of the engine.    *)
LoopBounded ==
  /\ loop.attempt <= loop.limit /\ loop.attempt <= RetryLimit
  /\ \A c \in Claims : loop.verified[c] <= 3
  /\ loop.at = "no_progress" => loop.attempt >= 3

(* Retries stay within their number; tokens within the budget when the     *)
(* cost is asked for first and below budget plus one retry when it is not. *)
BudgetKept ==
  /\ task.retries <= RetryLimit
  /\ task.tokens > TokenBudget =>
       ~task.careful /\ \E cost \in Costs : task.tokens - cost < TokenBudget

(* A second opinion is asked once, for tier A, of another model, and no    *)
(* retry follows the one it was asked on.                                  *)
SecondOpinionLast ==
  /\ Cardinality(second) <= 1
  /\ \A s \in second : task.tier = "A" /\ s.model # task.model
                       /\ s.retry = task.retries /\ ~CanRetry(task)
  /\ task.tier = "A" /\ task.retries = RetryLimit => second # {}

(* No more agents are dispatched than the depth allows, whenever the       *)
(* breaker is looked at; depth never shrinks, so it always trips by depth  *)
(* and the larger limit on spawns alone never trips it.                    *)
DelegationsBounded ==
  /\ breaker.dispatched <= MaxDepth
  /\ breaker.tripped => breaker.depth >= MaxDepth

(* The worst finding comes first; a milder one precedes a worse one only   *)
(* where its kind has another at least as bad.                             *)
PromptOrdered ==
  \A batch \in {F \in SUBSET Findings : Cardinality(F) \in 2..3} :
    \A f, g \in batch :
      PromptedBefore(f, g, batch) /\ g.severity < f.severity =>
        \E h \in batch : h.kind = f.kind /\ h.severity <= g.severity
                            /\ PromptedBefore(h, g, batch)

(* The repair loop and the budget of a task (execute_cmd.py,               *)
(* self_correction_manager.py).                                            *)
RepairsBounded ==
  /\ RepairTypeOK /\ LoopBounded /\ BudgetKept /\ SecondOpinionLast
  /\ DelegationsBounded /\ PromptOrdered
=============================================================================
