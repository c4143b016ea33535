-------------------------- MODULE ProjectReadiness --------------------------
(***************************************************************************)
(* What CES says of a project before anything runs: the scan of `ces mri`, *)
(* the advice of `ces next`, the contract of `ces next-prompt`, the brief  *)
(* of `ces deliberate` and the plan of `ces ship` and `ces start`.  None   *)
(* of them writes; each scans the project for itself, and `ces ship` four  *)
(* times, while the user and agents go on editing.                         *)
(*                                                                         *)
(* A project is the set of the things a scan can tell apart: files and     *)
(* settings by their signal, what is wrong with files by the finding.  One *)
(* scan is taken as one step; compose files and declared entry points      *)
(* stand behind Procfile, config.yaml behind state.db, requirements and    *)
(* the other lockfiles behind uv.lock, a signal that no score counts.      *)
(***************************************************************************)
EXTENDS Integers, FiniteSets, Sequences

CONSTANTS
  StartingProjects, \* the projects in which `ces ship` is called
  Edited,           \* what may be added or removed meanwhile
  MaxEdits

VARIABLES
  project,          \* the things that are in it
  plan              \* the plan that is being made

readinessVars == <<project, plan>>

PythonTools == {"pytest", "ruff", "mypy"}           \* read from pyproject.toml
NodeTools == {"npm-test", "eslint"}                 \* read from package.json
TestSignals == {"pytest", "npm-test", "tests-directory"}
QualitySignals == {"ruff", "mypy", "eslint", "typescript"}
RuntimeSignals == {"Dockerfile", "Procfile"}
ProfileSignals == {"profile", "contract"}
CesSignals == ProfileSignals \cup {"state.db"}
PackageFiles == {"pyproject.toml", "package.json"}
PlainSignals == PackageFiles \cup RuntimeSignals \cup CesSignals
                \cup {"README.md", "tests-directory", "typescript", "github-actions", "uv.lock"}

(* "run_instructions" is a line of the README, "sources" a Python file,    *)
(* "risky_path" that a slop finding sits in a path with a word of risk.    *)
Oddities == {"run_instructions", "sources", "risky_path"}
Ills == {"secret", "swallower", "weak_tests", "clutter", "large", "todo"}
Things == PlainSignals \cup PythonTools \cup NodeTools \cup Oddities \cup Ills

ASSUME ReadinessConstants ==
  /\ StartingProjects \subseteq SUBSET Things /\ Edited \subseteq Things /\ MaxEdits \in Nat

-----------------------------------------------------------------------------
(* The scan.                                                               *)

Signals(p) ==
  {"project-type"} \cup (p \cap PlainSignals)
  \cup (IF "pyproject.toml" \in p THEN p \cap PythonTools ELSE {})
  \cup (IF "package.json" \in p THEN p \cap NodeTools ELSE {})

ProjectType(p) ==
  IF p \cap PackageFiles # {}
    THEN IF "pyproject.toml" \in p THEN "python" ELSE "node"
    ELSE IF "Dockerfile" \in p THEN "container"
    ELSE IF "sources" \in p THEN "python" ELSE "unknown"

(* Every finding with its severity and its category.                       *)
FindingKinds ==
  [secret |-> <<"high", "secrets">>, large |-> <<"medium", "upkeep">>,
   no_readme |-> <<"medium", "upkeep">>, todo |-> <<"low", "upkeep">>,
   swallower |-> <<"high", "slop">>, weak_tests |-> <<"medium", "slop">>,
   clutter |-> <<"low", "slop">>]
RisksOf(p) == (p \cap Ills) \cup (IF "README.md" \in p THEN {} ELSE {"no_readme"})
Severe(findings) == {f \in findings : FindingKinds[f][1] = "high"}
OfCategory(findings, category) == {f \in findings : FindingKinds[f][2] = category}

Has(signals, some) == signals \cap some # {}

(* What a scan lists as missing, each with what would supply it.           *)
Supplies ==
  [readme |-> {"README.md"}, tests |-> TestSignals, quality |-> QualitySignals,
   ci |-> {"github-actions"}, runtime |-> RuntimeSignals, profile |-> ProfileSignals]

(* Faulty variant, used by a mutant of PROJECT.json only: what runs the    *)
(* program is not asked for.                                               *)
MissingToBuild(signals) == {m \in DOMAIN Supplies \ {"runtime"} : ~Has(signals, Supplies[m])}

MissingFrom(signals) == {m \in DOMAIN Supplies : ~Has(signals, Supplies[m])}

(* The score counts other categories than the list of what is missing: the *)
(* type of a project is a signal of every project, and any file of CES     *)
(* will do.                                                                *)
Categories ==
  [project |-> <<10, PackageFiles \cup {"Dockerfile", "project-type"}>>,
   documentation |-> <<10, {"README.md"}>>, tests |-> <<20, TestSignals>>,
   quality |-> <<15, QualitySignals>>, ci |-> <<20, {"github-actions"}>>,
   runtime |-> <<15, RuntimeSignals>>, ces |-> <<10, CesSignals>>]
Score(signals) ==
  LET Points(c) == IF Has(signals, Categories[c][2]) THEN Categories[c][1] ELSE 0
  IN  Points("project") + Points("documentation") + Points("tests") + Points("quality")
      + Points("ci") + Points("runtime") + Points("ces")

(* A project stands on the highest rung whose own condition holds.         *)
Ladder == <<"prototype", "local", "shareable", "candidate", "ready">>
Rung(maturity) == CHOOSE i \in DOMAIN Ladder : Ladder[i] = maturity

Reaches(maturity, signals, findings) ==
  LET tests == Has(signals, TestSignals)
      quality == Has(signals, QualitySignals)
      ci == "github-actions" \in signals
      candidate == tests /\ quality /\ ci /\ Severe(findings) = {}
  IN  CASE maturity = "ready" -> candidate /\ Has(signals, RuntimeSignals)
                                 /\ Has(signals, CesSignals)
        [] maturity = "candidate" -> candidate
        [] maturity = "shareable" -> tests /\ (quality \/ ci)
        [] maturity = "local" -> Has(signals, PackageFiles \cup {"Dockerfile"})
                                 \/ MissingFrom(signals) = {}
        [] maturity = "prototype" -> TRUE

Maturity(signals, findings) ==
  LET reached == {i \in DOMAIN Ladder : Reaches(Ladder[i], signals, findings)}
  IN  Ladder[CHOOSE i \in reached : \A j \in reached : j <= i]

ScanOf(p) ==
  LET signals == Signals(p)
  IN  [type |-> ProjectType(p), signals |-> signals, findings |-> RisksOf(p),
       missing |-> MissingFrom(signals), maturity |-> Maturity(signals, RisksOf(p))]

Greenfield(report) == report.type = "unknown" /\ report.signals = {"project-type"}

-----------------------------------------------------------------------------
(* The advice.                                                             *)

(* What comes first in a list of things with what each of them needs.      *)
FirstNeeded(needs, wanted, otherwise) ==
  LET hit == {i \in DOMAIN needs : needs[i][2] \cap wanted # {}}
  IN  IF hit = {} THEN otherwise ELSE needs[CHOOSE i \in hit : \A j \in hit : i <= j][1]

NextMaturity(maturity) ==
  Ladder[IF Rung(maturity) = Len(Ladder) THEN Len(Ladder) ELSE Rung(maturity) + 1]

(* The command of `ces next`, for the first of its reasons.                *)
CommandFor(report) ==
  LET reasons == {FindingKinds[f][2] : f \in report.findings}
                 \cup (IF Greenfield(report) THEN {"empty"} ELSE {})
                 \cup (IF report.missing # {} THEN {"missing"} ELSE {})
  IN  FirstNeeded(<< <<"harden", {"secrets"}>>, <<"scratch", {"empty"}>>,
                     <<"add_signal", {"missing"}>> >>, reasons, "verify")

Action(report) ==
  [maturity |-> report.maturity, target |-> NextMaturity(report.maturity),
   command |-> CommandFor(report), paused |-> Severe(report.findings) # {}]

(* The commands of the project that a contract and a rehearsal name: all   *)
(* that is demanded of the signals must be among them.                     *)
CheckDemands ==
  [pytest |-> {{"pyproject.toml"}, {"tests-directory", "pytest"}},
   ruff |-> {{"pyproject.toml"}, {"ruff", "mypy"}},
   mypy |-> {{"pyproject.toml"}, {"mypy"}}, node_test |-> {{"package.json"}}]
Checks(signals) ==
  {c \in DOMAIN CheckDemands : \A d \in CheckDemands[c] : Has(signals, d)}

(* The levels `ces promote` plans for: the target alone when the project   *)
(* is there already or beyond.                                             *)
PromotionLevels(maturity, level) ==
  IF Rung(level) > Rung(maturity)
    THEN {Ladder[i] : i \in Rung(maturity) + 1 .. Rung(level)}
    ELSE {level}

-----------------------------------------------------------------------------
(* The contract.                                                           *)

Slop(report) == OfCategory(report.findings, "slop")

(* The slop finding a contract quotes: findings are sorted by severity.    *)
FirstSlop(slop) ==
  FirstNeeded(<< <<"swallower", {"swallower"}>>, <<"weak_tests", {"weak_tests"}>>,
                 <<"clutter", {"clutter"}>> >>, slop, "none")

(* The gaps of a thin project.  A completion contract is no verification   *)
(* profile here, and a README without instructions is a gap of its own.    *)
Gaps(p, report) ==
  (report.missing \ {"profile"})
  \cup (IF "profile" \in p THEN {} ELSE {"profile"})
  \cup (IF {"README.md", "run_instructions"} \subseteq p THEN {} ELSE {"instructions"})

ThinRescue(gaps, report) ==
  LET weak == Cardinality(gaps) >= 3
  IN  /\ report.maturity \in {"prototype", "local"} \/ (weak /\ Slop(report) # {})
      /\ weak \/ Slop(report) # {}

RescueStep(gaps, slop) ==
  FirstNeeded(<< <<"document", {"readme", "instructions"}>>, <<"test", {"tests"}>>,
                 <<"unslop", {"slop"}>>, <<"profile", {"profile"}>>,
                 <<"gate", {"quality", "ci"}>>, <<"runtime", {"runtime"}>> >>,
              gaps \cup (IF slop = {} THEN {} ELSE {"slop"}), "improve")

Mode(gaps, report) ==
  IF Greenfield(report) THEN "greenfield"
  ELSE IF ThinRescue(gaps, report) THEN "rescue" ELSE "brownfield"

(* What the agent may touch.  The evidence of two findings names files.    *)
Areas(mode, gaps, report) ==
  {"README.md", "tests", "config"}
  \cup (IF mode = "greenfield" THEN {"sources"}
        ELSE report.findings \cap {"swallower", "weak_tests"})
  \cup (IF mode = "rescue" THEN gaps \cap {"profile", "ci"} ELSE {})

(* An objective of the user, or none.                                      *)
Requests ==
  {o \in [given : BOOLEAN, risky : BOOLEAN, criteria : BOOLEAN] : o.risky => o.given}

(* Words the program supplies itself pass the same gate: the last step     *)
(* speaks of deployment, and the slop step quotes the path.                *)
OwnWordsRisky(p, step) == step = "runtime" \/ (step = "unslop" /\ "risky_path" \in p)

(* The gate of `ces next-prompt` never asks: it runs as if nobody could    *)
(* answer.                                                                 *)
Contract(p, objective) ==
  LET report == ScanOf(p)
      gaps == Gaps(p, report)
      mode == Mode(gaps, report)
      step == IF mode = "rescue" THEN RescueStep(gaps, Slop(report)) ELSE "whole"
      risky == IF objective.given THEN objective.risky ELSE OwnWordsRisky(p, step)
  IN  [mode |-> mode, step |-> step, areas |-> Areas(mode, gaps, report),
       quoted |-> FirstSlop(Slop(report)),
       status |-> IF risky /\ ~objective.criteria THEN "blocked" ELSE "implementable"]

(* A word of the objective in `ces deliberate --challenge`: how many terms *)
(* and identifiers of the project it may mean, whether a document defines  *)
(* one, whether it is on the list of ambiguous or of common words.         *)
Words == [meanings : 0 .. 2, documented : BOOLEAN, ambiguous : BOOLEAN, common : BOOLEAN]
Challenged(w) == w.meanings > 1 \/ (w.ambiguous /\ w.meanings > 0)
Overloaded(w) ==
  Challenged(w) /\ ~(w.common /\ ~w.documented) /\ (w.meanings > 1 \/ w.ambiguous)

(* The gate asks its question exactly when it blocks.                      *)
Brief(contract, words) ==
  LET asks == contract.status = "blocked"
      blocking == {w \in words : Overloaded(w)}
  IN  [asks |-> asks, blockers |-> blocking,
       decision |-> IF asks \/ blocking # {} THEN "needs_operator" ELSE "ready"]

-----------------------------------------------------------------------------
(* `ces ship`: four scans, one after the other.                            *)

NoAction == [maturity |-> "prototype", target |-> "local", command |-> "verify",
             paused |-> FALSE]
NoHandoff == [mode |-> "brownfield", step |-> "whole", areas |-> {}, quoted |-> "none",
               status |-> "implementable"]

PlanPhases == {"idle", "advised", "contracted", "aimed", "made"}

ReadinessInit ==
  /\ project \in StartingProjects
  /\ plan = [at |-> "idle", action |-> NoAction, contract |-> NoHandoff, aim |-> "local",
             commands |-> <<>>, recommended |-> "verify", empty |-> FALSE, edits |-> 0]

(* build_next_action.                                                      *)
Advise ==
  /\ plan.at = "idle"
  /\ plan' = [plan EXCEPT !.at = "advised", !.action = Action(ScanOf(project)),
                          !.empty = Greenfield(ScanOf(project))]
  /\ UNCHANGED project

(* build_next_prompt: the report of its own scan gives mode and areas...   *)
Compile ==
  /\ plan.at = "advised"
  /\ \E o \in Requests :
       plan' = [plan EXCEPT !.at = "contracted", !.contract = Contract(project, o)]
  /\ UNCHANGED project

(* ... and that of another one the level it is to reach.                   *)
Aim ==
  /\ plan.at = "contracted"
  /\ plan' = [plan EXCEPT !.at = "aimed", !.aim = Action(ScanOf(project)).target]
  /\ UNCHANGED project

(* What is recommended is the advice of the first scan, unless the last    *)
(* one finds the project empty.                                            *)
MakePlan ==
  /\ plan.at = "aimed"
  /\ LET empty == Greenfield(ScanOf(project))
         recommended == IF empty THEN "scratch" ELSE plan.action.command
         middle == IF empty THEN <<"scratch">>
                   ELSE <<"mri", "next", "next_prompt">>
                        \o (IF recommended = "verify" THEN <<>> ELSE <<recommended>>)
     IN  plan' = [plan EXCEPT !.at = "made", !.recommended = recommended,
                    !.commands = <<"doctor">> \o middle
                                 \o <<"verify", "proof", "passport", "rehearsal">>]
  /\ UNCHANGED project

(* Somebody adds a thing or takes one away.                                *)
EditProject ==
  /\ plan.at \notin {"idle", "made"} /\ plan.edits < MaxEdits
  /\ \E t \in Edited :
       project' = IF t \in project THEN project \ {t} ELSE project \cup {t}
  /\ plan' = [plan EXCEPT !.edits = @ + 1, !.empty = @ \/ Greenfield(ScanOf(project'))]

ReadinessNext == Advise \/ Compile \/ Aim \/ MakePlan \/ EditProject

ReadinessSpec == ReadinessInit /\ [][ReadinessNext]_readinessVars

BuildCommands == {"harden", "scratch", "add_signal"}   \* the commands that are a `ces build`

(* The stages of `ces start`, which ships first.                           *)
GuidedBuild(commands) ==
  LET hits == {i \in DOMAIN commands : commands[i] \in BuildCommands}
  IN  IF hits = {} THEN "none" ELSE commands[CHOOSE i \in hits : \A j \in hits : i <= j]

-----------------------------------------------------------------------------
(* Properties.  Those of a single scan are looked at where a plan begins.  *)

Scanned == plan.at = "idle"

ReadinessTypeOK ==
  /\ project \subseteq Things /\ plan.at \in PlanPhases /\ plan.edits \in 0 .. MaxEdits
  /\ plan.action.maturity \in {Ladder[i] : i \in DOMAIN Ladder}

(* What the scan lists is all that is in the way: with one supply for each *)
(* thing missing, whichever, and without the severe findings, a project is *)
(* ready; and to add a signal or to mend something never costs a rung.     *)
ClimbIsListed ==
  Scanned =>
    LET report == ScanOf(project)
        mended == project \ Severe(report.findings)
        Rise(p) == Rung(Maturity(Signals(p), RisksOf(p)))
        Supplied(r, c) ==
          {x \in {"README.md", "tests-directory", "typescript", "github-actions", r, c} :
             \E m \in report.missing : x \in Supplies[m]}
    IN  /\ \A r \in RuntimeSignals, c \in ProfileSignals :
             Maturity(Signals(mended \cup Supplied(r, c)), RisksOf(mended)) = "ready"
        /\ \A t \in PlainSignals : Rise(project \cup {t}) >= Rung(report.maturity)
        /\ \A t \in project \cap Ills : Rise(project \ {t}) >= Rung(report.maturity)

(* The three measures of one scan agree: `ces next` sends to `ces verify`  *)
(* only a ready project, or one that it tells to pause; a ready project    *)
(* lacks no points but those of the README; and full points without a      *)
(* severe finding are ready.                                               *)
MeasuresAgree ==
  Scanned =>
    LET report == ScanOf(project)
        action == Action(report)
        score == Score(report.signals)
    IN  /\ action.command = "verify" => action.maturity = "ready" \/ action.paused
        /\ action.maturity = "ready" => score >= 90
        /\ score = 100 /\ ~action.paused => action.maturity = "ready"

(* The gate does not stand in the way of the program's own advice, except  *)
(* where the quoted path itself has a word of risk; and what the one       *)
(* rescue step is about lies in the areas it allows, but for clutter, for  *)
(* which it names no file.                                                 *)
AdviceCanBeTaken ==
  Scanned =>
    LET c == Contract(project, [given |-> FALSE, risky |-> FALSE, criteria |-> FALSE])
        gaps == Gaps(project, ScanOf(project))
    IN  /\ c.step \notin {"runtime", "improve"}
        /\ c.status = "blocked" => c.step = "unslop"
        /\ c.step = "unslop" => c.quoted \in c.areas \cup {"clutter"}
        /\ c.step = "profile" => "profile" \in c.areas
        /\ c.step = "gate" /\ "ci" \in gaps => "ci" \in c.areas

(* A brief that calls itself ready leaves no challenged word open but a    *)
(* common one that no document defines.                                    *)
ReadyIsUnchallenged ==
  plan.at = "contracted" =>
    \A w \in Words : Brief(plan.contract, {w}).decision = "ready" /\ Challenged(w)
                        => w.common /\ ~w.documented

(* A plan for a project nobody touched agrees with itself, although it     *)
(* comes of four scans; in any case it sends nobody to build from scratch  *)
(* unless the project was empty at some time while it was made.            *)
PlanAgrees ==
  plan.at = "made" =>
    /\ plan.edits = 0 =>
         /\ plan.recommended = "scratch" <=> plan.contract.mode = "greenfield"
         /\ plan.aim = plan.action.target
         /\ GuidedBuild(plan.commands) =
              IF plan.recommended = "verify" THEN "none" ELSE plan.recommended
         /\ plan.recommended # plan.action.command => "secret" \in project
    /\ \A i \in DOMAIN plan.commands : plan.commands[i] = "scratch" => plan.empty

(* What scan, advice, brief and plan say of a project agrees and can be    *)
(* acted on.                                                               *)
AdviceSound ==
  /\ ReadinessTypeOK /\ ClimbIsListed /\ MeasuresAgree
  /\ AdviceCanBeTaken /\ ReadyIsUnchallenged /\ PlanAgrees
=============================================================================
