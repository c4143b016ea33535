\* approve records an approval the engine then refuses.
SPECIFICATION Spec
CONSTANTS
  Procs = {p1}
  Commands = {"execute", "review", "approve"}
  AutoRepair = 0
  MaxRetries = 1
  MaxCommands = 3
  MayDie = FALSE
INVARIANTS
  DecisionTakesEffect
\* Once the bounded number of commands has run nothing is left to do.
CHECK_DEADLOCK FALSE
