\* One process runs a session while another looks at the status.
SPECIFICATION Spec
CONSTANTS
  Procs = {p1, p2}
  Commands = {"build", "continue", "status"}
  MaxSessions = 2
  MaxRuns = 2
  MaxDeaths = 1
SYMMETRY Symmetric
PROPERTIES
  LiveWorkSpared
\* Once the bounded number of runs is used up nothing may be left to do.
CHECK_DEADLOCK FALSE
