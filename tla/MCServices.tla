----------------------------- MODULE MCServices -----------------------------
(***************************************************************************)
(* One run for the services that share no state: one of them is studied,   *)
(* the others rest in a state in which nothing of theirs is under way.     *)
(***************************************************************************)
EXTENDS CommandRunner, SchemaMigration, HarnessLessons, HarnessChanges,
        SemanticReview, BuildEvidence, ProjectReadiness, IntakeContracts, AuditLedger

VARIABLE studied

RestingRunner ==
  /\ runner = "sync" /\ traits = [p \in Members |-> [grouped |-> TRUE, holds |-> TRUE]]
  /\ reads = TRUE /\ alive = {} /\ forked = {Leader}
  /\ calling = "done" /\ result = OwnCode /\ timedOut = FALSE /\ interrupts = 0

RestingMigration ==
  /\ disk = [main |-> "synthetic", mainRows |-> {}, temp |-> FALSE, tempRows |-> {},
             columns |-> TRUE, version |-> 2]
  /\ view = disk /\ transaction = FALSE /\ statement = "open" /\ crashes = 0

RestingSemantic ==
  /\ tree = CHOOSE t \in Trees : TRUE
  /\ outcome_of = "absent" /\ reviews = [g \in Generators |-> NoReviewYet] /\ made = 0
  /\ approving = [a \in Approvers |-> Undecided]

\* The subsets of a small Python project, and one project of every other kind.
StartingKinds ==
  (SUBSET {"README.md", "run_instructions", "pyproject.toml", "tests-directory", "ruff",
           "github-actions", "Procfile", "profile", "secret", "swallower"})
  \cup {{"README.md", "run_instructions", "pyproject.toml", "tests-directory", "clutter"},
        {"README.md", "run_instructions", "pyproject.toml", "tests-directory", "swallower",
         "risky_path"},
        {"package.json", "npm-test", "typescript", "contract", "weak_tests"},
        {"package.json", "pyproject.toml", "eslint", "mypy", "large"},
        {"state.db", "tests-directory", "typescript", "github-actions", "Dockerfile"},
        {"Dockerfile"}, {"sources", "todo"}, {"uv.lock"}}

RestingReadiness ==
  /\ project = {}
  /\ plan = [at |-> "made", action |-> NoAction, contract |-> NoHandoff, aim |-> "local",
             commands |-> <<>>, recommended |-> "verify", empty |-> TRUE, edits |-> 0]

RestingEvidence ==
  build = [NewBuild("greenfield", {}) EXCEPT !.at = "dead"] /\ changed = {}

ServicesInit ==
  /\ studied \in {"ledger", "runner", "migration", "lessons", "changes", "semantic", "evidence",
                 "readiness", "intake"}
  /\ Init /\ IntakeInit
  /\ IF studied = "runner" THEN RunnerInit ELSE RestingRunner
  /\ IF studied = "migration" THEN MigrationInit ELSE RestingMigration
  /\ LessonInit /\ ChangesInit
  /\ IF studied = "semantic" THEN SemanticInit ELSE RestingSemantic
  /\ IF studied = "evidence" THEN EvidenceInit ELSE RestingEvidence
  /\ IF studied = "readiness" THEN ReadinessInit ELSE RestingReadiness

Others(own) ==
  /\ studied = own /\ UNCHANGED studied
  /\ own # "ledger" => UNCHANGED vars
  /\ own # "runner" => UNCHANGED runnerVars
  /\ own # "migration" => UNCHANGED migrationVars
  /\ own # "lessons" => UNCHANGED lessonVars
  /\ own # "changes" => UNCHANGED changeVars
  /\ own # "semantic" => UNCHANGED semanticVars
  /\ own # "evidence" => UNCHANGED evidenceVars
  /\ own # "readiness" => UNCHANGED readinessVars
  /\ own # "intake" => UNCHANGED intakeVars

ServicesNext ==
  \/ Others("ledger") /\ Next
  \/ Others("runner") /\ RunnerNext
  \/ Others("migration") /\ MigrationNext
  \/ Others("lessons") /\ LessonNext
  \/ Others("changes") /\ ChangesNext
  \/ Others("semantic") /\ SemanticNext
  \/ Others("evidence") /\ EvidenceNext
  \/ Others("readiness") /\ ReadinessNext
  \/ Others("intake") /\ IntakeNext

ServicesVars == <<vars, runnerVars, migrationVars, lessonVars, changeVars,
                  semanticVars, evidenceVars, readinessVars, intakeVars, studied>>

(* The fairness of each component's own specification.                     *)
ServicesSpec ==
  /\ ServicesInit /\ [][ServicesNext]_ServicesVars
  /\ WF_ServicesVars(Others("runner") /\ Caller)
  /\ WF_ServicesVars(Others("runner") /\ Timer)
  /\ WF_ServicesVars(Others("migration") /\ Opening)

(* What the harness evolves: lessons and changes, which share no state.    *)
HarnessSafe == LessonsSafe /\ ReportHonest
=============================================================================
