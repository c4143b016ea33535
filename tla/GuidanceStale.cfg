\* Two runs of one session: one that is decided on, and the one after it.
SPECIFICATION GuidanceSpec
CONSTANT
  MaxRuns = 2
INVARIANT
  ClearMeansApproved
CHECK_DEADLOCK FALSE
