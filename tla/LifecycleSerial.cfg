\* One command after the other, any of which may die anywhere; auto-repair
\* asks for more attempts than the engine grants.
SPECIFICATION FairSpec
CONSTANTS
  Procs = {p1}
  Commands = {"run", "execute", "review", "approve", "complete"}
  AutoRepair = 2
  MaxRetries = 1
  MaxCommands = 5
  MayDie = TRUE
INVARIANTS
  RowSound
PROPERTIES
  ImplementsLifecycle
  ExecuteEnds
\* Once the bounded number of commands has run nothing is left to do.
CHECK_DEADLOCK FALSE
