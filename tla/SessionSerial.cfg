\* One command after the other; two of them die anywhere.
SPECIFICATION FairSpec
CONSTANTS
  Procs = {p1}
  Commands = {"build", "continue", "status", "recover"}
  MaxSessions = 2
  MaxRuns = 2
  MaxDeaths = 2
INVARIANTS
  SessionSound
PROPERTIES
  MergeStands
  AbandonedIsFreed
\* Once the bounded number of runs is used up nothing may be left to do.
CHECK_DEADLOCK FALSE
