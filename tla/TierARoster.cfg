\* One review with the list of models that the settings default to.
SPECIFICATION ReviewSpec
CONSTANTS
  Rosters <- ShippedRosters
  MaxRounds = 1
INVARIANT
  TierAGetsTriad
CHECK_DEADLOCK FALSE
