\* Two commands at once on a manifest and, one at a time, the records and
\* rules that commands go by; or a session of two runs and what is reported of it.
SPECIFICATION RecordsSpec
CONSTANTS
  Procs = {p1, p2}
  Commands = {"run", "execute", "review", "approve", "complete"}
  AutoRepair = 1
  MaxRetries = 1
  MaxCommands = 3
  MayDie = FALSE
  Clerks = {k1, k2}
  MaxManifests = 1
  SampledRules = {1, 28}
  StoryRadii = {"module"}
  Scores = {69, 70}
  Days = {0, 3, 8}
  Profiles = {"p", "q"}
  Threshold = 2
  MaxEvaluations = 3
  SampledPhases = {0, 3, 5}
  Certainties = {69, 70, 89, 90}
  Claims = {c1, c2}
  RepairLimits = {0, 2, 5}
  RetryLimit = 3
  TokenBudget = 6
  Costs = {1, 3}
  Models = {m1, m2}
  MaxDepth = 3
  MaxSpawns = 10
  PoolSize = 4
  MaxGenerations = 3
  ChecksPerCycle = 2
  Window = 3
  MaxResults = 9
  Keepers = {v1, v2}
  MaxNotes = 2
  MaxDeeds = 3
  NoteCategories = {"decisions", "sessions"}
  Dates = {0, 20}
  MaxRuns = 2
INVARIANTS
  DecisionsSound
  RulesSound
  GuidanceSound

  
\* Once the bounded number of commands has run nothing is left to do.
CHECK_DEADLOCK FALSE
