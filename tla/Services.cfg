\* Three overlapping processes append three entries to the ledger of a project;
\* a leader with two descendants, interrupted twice at most; a store with two
\* findings, three deaths; three lessons, two of them in a prompt; two changes
\* of the harness with two verdicts; two reviews of two trees, one approver;
\* one product file and one command that is inferred for a build; about a
\* thousand projects to make a plan for, edited once meanwhile; two intakes, one
\* after the other or at once.
SPECIFICATION ServicesSpec
CONSTANTS
  Writers = {w1, w2, w3}
  Projects = {p1}
  Hashes = {h1, h2, h3}
  GENESIS = GENESIS
  Descendants = {d1, d2}
  Leader = leader
  MaxInterrupts = 2
  Findings = {f1, f2}
  MaxCrashes = 3
  Lessons = {l1, l2, l3}
  Operators = {o1, o2}
  MaxActive = 2
  HarnessIds = {c1, c2}
  Comparers = {q1, q2}
  MaxVerdicts = 2
  Trees = {t1, t2}
  Risky = {t1}
  RiskyIfFailed = {t2}
  Unresolved = {t2}
  Generators = {g1, g2}
  Approvers = {a1}
  Files = {file}
  Profile = profile_json
  TestReport = report_json
  Suites = {s1}
  StartingProjects <- StartingKinds
  Edited = {"README.md", "pyproject.toml", "secret"}
  MaxEdits = 1
  Hints = {"access"}
  Makers = {m1, m2}
  MaxContracts = 2
INVARIANTS
  LedgerSound
  InvalidOnlyIfForked
  RunnerSafe
  StoreSafe
  HarnessSafe
  ReviewCurrent
  EvidenceSound
  AdviceSound
  IntakeSound
PROPERTIES
  AgentGroupGone
  CallEnds
  ImplementsTable
  GetsOpened
\* A call that has returned and a store that is closed leave nothing to do.
CHECK_DEADLOCK FALSE
