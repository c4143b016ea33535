----------------------------- MODULE Governance -----------------------------
(***************************************************************************)
(* The services that stop work: the kill switch, the emergency that halts  *)
(* task issuance, and the trust a harness profile has earned, which may    *)
(* not change while registry writes are halted.                            *)
(*                                                                         *)
(* Each process has services of its own.  A switch keeps its state in      *)
(* memory and, when it is wired to a repository, in rows.  Every service   *)
(* changes its memory first and writes to rows and ledger afterwards: any  *)
(* of these writes may raise, and what was changed before stays changed.   *)
(***************************************************************************)
EXTENDS Integers, Sequences

CONSTANTS
  Procs,
  Keepers,        \* the processes that work with a harness profile
  Classes,        \* the activity classes of the instance
  Emergencies,    \* manifests an emergency can be declared with
  None,
  MaxEscapes      \* bound on escapes recorded by one profile

AllClasses == {"task_issuance", "merges", "deploys", "spawning",
               "tool_classes", "truth_writes", "registry_writes"}

ASSUME GovernanceConstants ==
  /\ Classes \subseteq AllClasses /\ "task_issuance" \in Classes
  /\ Procs # {} /\ Keepers \subseteq Procs /\ None \notin Emergencies
  /\ MaxEscapes \in Nat

VARIABLES
  wired,      \* whether switches have a repository: not in this program's own
              \* commands, in the tests and for embedders
  halted,     \* of each process: the classes halted in its cache
  rows,       \* the stored state of each class
  recorded,   \* the classes with a halt in the ledger
  raised,     \* the classes a change of which has raised (history)
  active,     \* of each process: its active emergency
  deadlines,  \* of each process: the emergencies with a running timer
  declared,   \* the emergencies that were ever declared
  lifted,     \* processes whose halt of task issuance was taken back, or
              \* replaced from the rows, during an emergency (history)
  profile     \* the harness profile each of the keepers works with

switchVars == <<wired, halted, rows, recorded, raised>>
emergencyVars == <<active, deadlines, declared, lifted>>
governanceVars == <<switchVars, emergencyVars, profile>>

Statuses == {"candidate", "trusted", "watch", "constrained"}

GovernanceTypeOK ==
  /\ wired \in BOOLEAN
  /\ halted \in [Procs -> SUBSET Classes]
  /\ rows \in [Classes -> {"absent", "halted", "clear"}]
  /\ recorded \subseteq Classes /\ raised \subseteq Classes
  /\ active \in [Procs -> Emergencies \cup {None}]
  /\ deadlines \in [Procs -> SUBSET Emergencies]
  /\ declared \subseteq Emergencies /\ lifted \subseteq Procs
  /\ profile \in [Keepers -> [status : Statuses, escapes : 0..MaxEscapes, earned : BOOLEAN]]

NewProfile == [status |-> "candidate", escapes |-> 0, earned |-> FALSE]

GovernanceInit ==
  /\ wired \in BOOLEAN
  /\ halted = [p \in Procs |-> {}]
  /\ rows = [c \in Classes |-> "absent"]
  /\ recorded = {} /\ raised = {}
  /\ active = [p \in Procs |-> None] /\ deadlines = [p \in Procs |-> {}]
  /\ declared = {} /\ lifted = {}
  /\ profile = [p \in Keepers |-> NewProfile]

-----------------------------------------------------------------------------
(* The kill switch                                                         *)

IsHalted(p, c) == c \in halted[p]

(* Where a change can raise; nothing is stored without a repository.       *)
Outcomes == {"returns", "upsert", "audit"} \ (IF wired THEN {} ELSE {"upsert"})

(* The classes done are halted (or recovered) one after the other; the     *)
(* outcome is that of the last one, the earlier ones returned.             *)
Change(p, done, last, halt, outcome) ==
  LET stored == IF ~wired THEN {} ELSE IF outcome = "upsert" THEN done \ {last} ELSE done
      logged == IF outcome = "returns" THEN done ELSE done \ {last}
  IN /\ halted' = [halted EXCEPT ![p] = IF halt THEN @ \cup done ELSE @ \ done]
     /\ rows' = [c \in Classes |->
          IF c \in stored THEN IF halt THEN "halted" ELSE "clear" ELSE rows[c]]
     /\ recorded' = recorded \cup IF halt THEN logged ELSE {}
     /\ raised' = raised \cup (done \ logged)
     /\ UNCHANGED wired

Activate(p, c) ==
  /\ \E outcome \in Outcomes : Change(p, {c}, c, TRUE, outcome)
  /\ UNCHANGED <<emergencyVars, profile>>

Recover(p, c) ==
  /\ \E outcome \in Outcomes : Change(p, {c}, c, FALSE, outcome)
  /\ lifted' = IF c = "task_issuance" THEN lifted \cup {p} ELSE lifted
  /\ UNCHANGED <<active, deadlines, declared, profile>>

AutoTriggers ==
  [invalidation_engine_failure     |-> <<"truth_writes", "registry_writes">>,
   unexplained_truth_drift         |-> <<"truth_writes">>,
   recursive_delegation_explosion  |-> <<"spawning">>,
   sensor_pack_failure_high_risk   |-> <<"task_issuance">>,
   rising_escapes_green_checks     |-> <<"merges", "deploys">>]

(* Classes halted already are skipped; the first change that raises ends   *)
(* the call, and the classes after it stay as they are.                    *)
AutoTrigger(p, trigger) ==
  LET classes == AutoTriggers[trigger]
      Due(i)  == classes[i] \in Classes /\ ~IsHalted(p, classes[i])
  IN /\ \E n \in DOMAIN classes, outcome \in Outcomes :
          /\ Due(n)
          /\ outcome = "returns" => \A i \in DOMAIN classes : i > n => ~Due(i)
          /\ Change(p, {classes[i] : i \in {i \in 1..n : Due(i)}}, classes[n], TRUE, outcome)
     /\ UNCHANGED <<emergencyVars, profile>>

Loaded(cached) ==
  {c \in Classes : IF rows[c] = "absent" THEN c \in cached ELSE rows[c] = "halted"}

LoadFromDb(p) ==
  /\ wired
  /\ halted' = [halted EXCEPT ![p] = Loaded(@)]
  /\ lifted' = IF "task_issuance" \in halted[p] \ Loaded(halted[p])
                 THEN lifted \cup {p} ELSE lifted
  /\ UNCHANGED <<wired, rows, recorded, raised, active, deadlines, declared,
                 profile>>

-----------------------------------------------------------------------------
(* Emergencies                                                             *)

(* Faulty variant, used by a mutant of PROJECT.json only: a declaration    *)
(* whose audit raises is active all the same.                              *)
DeclareActiveFirst(p, m) ==
  /\ active[p] = None /\ m \notin declared
  /\ declared' = declared \cup {m}
  /\ \E outcome \in Outcomes :
       /\ Change(p, {"task_issuance"}, "task_issuance", TRUE, outcome)
       /\ deadlines' = [deadlines EXCEPT ![p] = IF outcome = "returns" THEN @ \cup {m} ELSE @]
  /\ active' = [active EXCEPT ![p] = m]
  /\ lifted' = lifted \ {p}
  /\ UNCHANGED <<profile>>

(* declare_emergency checks, halts, starts the timer, records, and only    *)
(* then has an active emergency.  "declaration" is its own audit entry.    *)
Declare(p, m) ==
  /\ active[p] = None /\ m \notin declared
  /\ declared' = declared \cup {m}
  /\ \E outcome \in Outcomes \cup {"declaration"} :
       LET switched == outcome \in {"returns", "declaration"}
       IN /\ Change(p, {"task_issuance"}, "task_issuance", TRUE, IF switched THEN "returns" ELSE outcome)
          /\ deadlines' = [deadlines EXCEPT ![p] = IF switched THEN @ \cup {m} ELSE @]
          /\ active' = [active EXCEPT ![p] = IF outcome = "returns" THEN m ELSE @]
  /\ lifted' = lifted \ {p}
  /\ UNCHANGED <<profile>>

(* resolve_emergency lifts the halt, whoever it was that asked for it,     *)
(* cancels the timer, records three entries and has no emergency then.     *)
Resolve(p, m) ==
  /\ active[p] = m
  /\ \E outcome \in Outcomes \cup {"resolution"} :
       LET switched == outcome \in {"returns", "resolution"}
       IN /\ Change(p, {"task_issuance"}, "task_issuance", FALSE, IF switched THEN "returns" ELSE outcome)
          /\ deadlines' = [deadlines EXCEPT ![p] = IF switched THEN @ \ {m} ELSE @]
          /\ active' = [active EXCEPT ![p] = IF outcome = "returns" THEN None ELSE @]
  /\ lifted' = lifted \cup {p}
  /\ UNCHANGED <<declared, profile>>

-----------------------------------------------------------------------------
(* Trust                                                                   *)

IsBlocked(p) == IsHalted(p, "registry_writes")

(* The counters of can_promote only grow.                                  *)
Earn(p) ==
  /\ ~profile[p].earned
  /\ profile' = [profile EXCEPT ![p].earned = TRUE]
  /\ UNCHANGED <<switchVars, emergencyVars>>

(* The status is set before the entry is written.                          *)
TrustMoves(p, status) ==
  /\ profile' = [profile EXCEPT ![p].status = status]
  /\ UNCHANGED <<switchVars, emergencyVars>>

EvaluatePromotion(p) ==
  /\ ~IsBlocked(p)
  /\ profile[p].status = "candidate" /\ profile[p].earned
  /\ TrustMoves(p, "trusted")

Contracted == [candidate |-> "watch", trusted |-> "watch", watch |-> "constrained"]

(* An escape of a constrained profile leaves no trace at all.              *)
RecordEscape(p) ==
  /\ ~IsBlocked(p)
  /\ profile[p].status # "constrained" /\ profile[p].escapes < MaxEscapes
  /\ profile' = [profile EXCEPT ![p].status = Contracted[@], ![p].escapes = @ + 1]
  /\ UNCHANGED <<switchVars, emergencyVars>>

(* Faulty variant, used by a mutant of PROJECT.json only: the guard of     *)
(* registry writes is missing.                                             *)
RecoverTrustUnguarded(p) ==
  profile[p].status = "constrained" /\ TrustMoves(p, "candidate")

AttemptRecovery(p) ==
  /\ ~IsBlocked(p)
  /\ \/ profile[p].status = "watch" /\ profile[p].earned /\ TrustMoves(p, "trusted")
     \/ profile[p].status = "constrained" /\ TrustMoves(p, "candidate")

GateRank == [agent |-> 0, hybrid |-> 1, human |-> 2]

AutonomyCeiling(bc, tier, status) ==
  CASE bc = "BC3" \/ status = "constrained" -> "human"
    [] bc = "BC2" /\ status # "constrained" -> IF tier = "A" THEN "human" ELSE "hybrid"
    [] bc = "BC1" /\ status # "constrained" ->
         IF status = "trusted" /\ tier = "C" THEN "agent" ELSE "hybrid"

-----------------------------------------------------------------------------

(* A process ends with its memory; the next one starts with a clear        *)
(* switch, until somebody loads the rows.                                  *)
Restart(p) ==
  /\ halted' = [halted EXCEPT ![p] = {}]
  /\ active' = [active EXCEPT ![p] = None]
  /\ deadlines' = [deadlines EXCEPT ![p] = {}]
  /\ lifted' = lifted \ {p}
  /\ profile' = [q \in Keepers |-> IF q = p THEN NewProfile ELSE profile[q]]
  /\ UNCHANGED <<wired, rows, recorded, raised, declared>>

GovernanceNext ==
  \E p \in Procs :
    \/ \E c \in Classes : Activate(p, c) \/ Recover(p, c)
    \/ \E trigger \in DOMAIN AutoTriggers : AutoTrigger(p, trigger)
    \/ LoadFromDb(p)
    \/ \E m \in Emergencies : Declare(p, m) \/ Resolve(p, m)
    \/ /\ p \in Keepers
       /\ Earn(p) \/ EvaluatePromotion(p) \/ RecordEscape(p) \/ AttemptRecovery(p)
    \/ Restart(p)

GovernanceSpec == GovernanceInit /\ [][GovernanceNext]_governanceVars

-----------------------------------------------------------------------------

(* A class that is halted anywhere, by an operator, by a trigger, by an    *)
(* emergency or from the rows, has a halt in the ledger, unless a change   *)
(* of it has raised.                                                       *)
HaltsRecorded ==
  \A p \in Procs : halted[p] \ raised \subseteq recorded

(* With a repository, what no process failed to change is stored: a class  *)
(* that is halted in every process stays halted over their restarts.       *)
HaltsStored ==
  wired => \A c \in Classes \ raised :
             (\A p \in Procs : IsHalted(p, c)) => rows[c] = "halted"

(* While an emergency is active in a process, task issuance is halted      *)
(* there and its deadline runs, unless somebody recovered the class, or a  *)
(* resolution began and raised.                                            *)
EmergencyContained ==
  \A p \in Procs : active[p] # None /\ p \notin lifted =>
    IsHalted(p, "task_issuance") /\ active[p] \in deadlines[p]

HaltsAccounted ==
  GovernanceTypeOK /\ HaltsRecorded /\ HaltsStored /\ EmergencyContained

(* An emergency that ends, other than with its process, leaves neither     *)
(* halt nor deadline.                                                      *)
EmergencyEndsWhole ==
  [][\A p \in Procs :
       active[p] # None /\ active'[p] = None /\ ~Restart(p) =>
         /\ "task_issuance" \notin halted'[p]
         /\ active[p] \notin deadlines'[p]]_governanceVars

(* No status changes in a process where registry writes are halted, by     *)
(* whatever halted them.                                                   *)
TrustFrozen ==
  [][\A p \in Keepers : IsBlocked(p) /\ ~Restart(p) =>
       profile'[p].status = profile[p].status]_governanceVars

(* Trust is earned: no order of escapes, recoveries and promotions makes a *)
(* profile trusted that never met the criteria, and only a trusted one may *)
(* act without a human.                                                    *)
TrustEarned ==
  \A p \in Keepers :
    LET status == profile[p].status
    IN /\ status = "trusted" => profile[p].earned
       /\ \A bc \in {"BC1", "BC2", "BC3"}, tier \in {"A", "B", "C"} :
            AutonomyCeiling(bc, tier, status) = "agent" =>
              profile[p].earned /\ bc = "BC1" /\ tier = "C"

(* An escape costs trust: a second one in a row constrains, and no escape  *)
(* loosens what a profile may do for any behavior confidence and tier.     *)
EscapeCosts ==
  [][\A p \in Keepers :
       LET old == profile[p] new == profile'[p]
       IN new.escapes > old.escapes =>
            /\ old.status = "watch" => new.status = "constrained"
            /\ \A bc \in {"BC1", "BC2", "BC3"}, tier \in {"A", "B", "C"} :
                 GateRank[AutonomyCeiling(bc, tier, new.status)]
                   >= GateRank[AutonomyCeiling(bc, tier, old.status)]]_governanceVars

(* What moves a profile: nothing under a halt, and an escape downwards.    *)
TrustKept == TrustFrozen /\ EscapeCosts

(* Halts, emergencies and trust, as the invariants of every state and the  *)
(* claims on every step.                                                   *)
GovernanceSound == HaltsAccounted /\ TrustEarned
GovernanceKeeps == EmergencyEndsWhole /\ TrustKept
=============================================================================
