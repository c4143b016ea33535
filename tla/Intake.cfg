\* Two intakes, one after the other or at once.
SPECIFICATION IntakeSpec
CONSTANTS
  Hints = {"plain", "attention", "access"}
  Makers = {m1, m2}
  MaxContracts = 2
INVARIANT SidecarDecomposes
CHECK_DEADLOCK FALSE
