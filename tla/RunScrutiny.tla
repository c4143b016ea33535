---------------------------- MODULE RunScrutiny ----------------------------
(***************************************************************************)
(* What is watched without the agent's help: hidden checks, their rotation *)
(* and the pass rates of a profile (hidden_check_engine.py), and the risks *)
(* in the log of the commands it ran (execution_risk_monitor.py).  Both    *)
(* are services of the program that no command calls yet.                  *)
(*                                                                         *)
(* A command of the log is what the patterns of the monitor see in it.     *)
(***************************************************************************)
EXTENDS Integers, FiniteSets, Sequences

CONSTANTS
  PoolSize,        \* checks in the pool
  MaxGenerations,  \* bound on the rotations
  ChecksPerCycle,  \* results that make a cycle (10)
  Window,          \* cycles that are compared (5)
  MaxResults       \* bound on the results of the profile

ASSUME ScrutinyBounds ==
  /\ PoolSize \in Nat /\ MaxGenerations \in Nat /\ MaxResults \in Nat
  /\ Window \in Nat \ {0}
  /\ ChecksPerCycle \in {1, 2, 4, 5, 10, 20, 25, 50, 100}  \* rates are whole percentages

-----------------------------------------------------------------------------
VARIABLES
  pool,        \* for each place of the pool, the generation its check is of
  generation,  \* rotations so far
  outcomes     \* passed or not, of a profile, oldest first

scrutinyVars == <<pool, generation, outcomes>>

Places == 1..PoolSize
MinReplacements == (3 * PoolSize + 9) \div 10  \* 30 %, rounded up

ScrutinyInit ==
  /\ pool = [i \in Places |-> 0] /\ generation = 0 /\ outcomes = <<>>

\* too few or too many new checks are an error
RotatePool ==
  /\ generation < MaxGenerations /\ outcomes = <<>>
  /\ \E retired \in SUBSET Places :
       /\ Cardinality(retired) >= MinReplacements
       /\ pool' = [i \in Places |-> IF i \in retired THEN generation + 1 ELSE pool[i]]
  /\ generation' = generation + 1
  /\ UNCHANGED outcomes

RecordResult ==
  /\ Len(outcomes) < MaxResults /\ generation = 0
  /\ \E passed \in BOOLEAN : outcomes' = Append(outcomes, passed)
  /\ UNCHANGED <<pool, generation>>

ScrutinyNext == RotatePool \/ RecordResult
ScrutinySpec == ScrutinyInit /\ [][ScrutinyNext]_scrutinyVars

(* Pass rates in percent, and the decline from the running peak.           *)
FullCycles == Len(outcomes) \div ChecksPerCycle
Least(a, b) == IF a < b THEN a ELSE b
CycleRate(c) ==
  LET last == Least(c * ChecksPerCycle, Len(outcomes))
      first == (c - 1) * ChecksPerCycle + 1 IN
  (100 * Cardinality({i \in first..last : outcomes[i]})) \div (last - first + 1)

NextPeak(seen, rate) ==
  LET peak == IF rate > seen.peak THEN rate ELSE seen.peak IN
  [peak |-> peak, declined |-> seen.declined \/ peak - rate >= 15]
WindowRates == [k \in 1..Window |-> CycleRate(FullCycles - Window + k)]
SeenIn(rates, n) ==
  LET seen[k \in 0..n] == IF k = 0 THEN [peak |-> 0, declined |-> FALSE]
                          ELSE NextPeak(seen[k - 1], rates[k])
  IN seen[n]
DetectAntiGaming == FullCycles >= Window /\ SeenIn(WindowRates, Window).declined

-----------------------------------------------------------------------------
(* The log.  go test -c is a test and a compilation to the patterns.       *)

CommandTraits ==
  [pytest |-> {"test"}, gotestc |-> {"test", "compile"}, tsc |-> {"compile"},
   importok |-> {"proxy"}, rmrf |-> {"destructive"}, ls |-> {}]
Event(command, ok) ==
  [command |-> command, ok |-> ok, traits |-> CommandTraits[command],
   late |-> command = "rmrf", timedOut |-> command = "pytest" /\ ~ok]
Events == {Event(c, ok) : c \in DOMAIN CommandTraits, ok \in BOOLEAN}
Logs == UNION {[1..n -> Events] : n \in 0..3}

RepeatedFailures(log) ==
  \E command \in DOMAIN CommandTraits :
    Cardinality({i \in DOMAIN log : log[i].command = command /\ ~log[i].ok}) >= 3
TimeoutLoops(log) ==
  \E command \in DOMAIN CommandTraits :
    Cardinality({i \in DOMAIN log : log[i].command = command /\ log[i].timedOut}) >= 2
DestructiveAfterSuccess(log) ==
  \E i \in DOMAIN log : log[i].late /\ "destructive" \in log[i].traits
ProxyValidation(log) ==
  \E i \in DOMAIN log : log[i].ok /\ "proxy" \in log[i].traits /\ "test" \notin log[i].traits

Succeeded(log, trait) == \E i \in DOMAIN log : log[i].ok /\ trait \in log[i].traits
CompileOnlyValidation(log, behavioral, files) ==
  behavioral /\ files /\ Succeeded(log, "compile") /\ ~Succeeded(log, "test")
ShallowValidation(log, behavioral, files) ==
  (behavioral \/ files) /\ Succeeded(log, "proxy") /\ ~Succeeded(log, "test")

Lasting(log) ==
  {k \in {"repeated_failure", "timeout_loop", "destructive_after_success", "proxy_validation"} :
     CASE k = "repeated_failure" -> RepeatedFailures(log)
       [] k = "timeout_loop" -> TimeoutLoops(log)
       [] k = "destructive_after_success" -> DestructiveAfterSuccess(log)
       [] OTHER -> ProxyValidation(log)}
Doubts(log, behavioral, files) ==
  CompileOnlyValidation(log, behavioral, files) \/ ShallowValidation(log, behavioral, files)

-----------------------------------------------------------------------------
ScrutinyTypeOK ==
  /\ pool \in [Places -> 0..MaxGenerations] /\ generation \in 0..MaxGenerations
  /\ outcomes \in Seq(BOOLEAN) /\ Len(outcomes) <= MaxResults

(* A profile is called gaming exactly when some cycle of the window is 15  *)
(* points below an earlier one of it; results of a cycle that is not over  *)
(* change nothing, however bad they are.                                   *)
WholeCycles == SubSeq(outcomes, 1, ChecksPerCycle * (Len(outcomes) \div ChecksPerCycle))
PassesIn(c) == Cardinality({i \in (c - 1) * ChecksPerCycle + 1 .. c * ChecksPerCycle : WholeCycles[i]})
GamingByFullCycles ==
  LET cycles == Len(WholeCycles) \div ChecksPerCycle IN
  DetectAntiGaming <=>
    /\ cycles >= Window
    /\ \E b \in cycles - Window + 1 .. cycles : \E a \in cycles - Window + 1 .. b - 1 :
         100 * (PassesIn(a) - PassesIn(b)) >= 15 * ChecksPerCycle

(* Each rotation leaves three in ten checks or more that no agent has met, *)
(* but the pool may keep one of its first checks for ever.                 *)
PoolFresh ==
  generation > 0 =>
    Cardinality({i \in Places : pool[i] = generation}) * 10 >= 3 * PoolSize

(* A real test that passes at the end settles the doubts of a log, and     *)
(* nothing else of what was found in it.                                   *)
TestsSettleDoubts ==
  \A log \in Logs : LET tested == Append(log, Event("pytest", TRUE)) IN
    /\ Lasting(log) \subseteq Lasting(tested)
    /\ ~Doubts(tested, TRUE, TRUE)
    /\ Succeeded(log, "compile") /\ ~Succeeded(log, "test") => Doubts(log, TRUE, TRUE)

(* Hidden checks and the risks of a log (hidden_check_engine.py,           *)
(* execution_risk_monitor.py).                                             *)
ScrutinySound == ScrutinyTypeOK /\ GamingByFullCycles /\ PoolFresh /\ TestsSettleDoubts
=============================================================================
