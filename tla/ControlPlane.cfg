\* Two processes that never overlap, two projects in one database; files of three
\* stories decomposed by two commands; graphs over a changed artifact and four
\* others; a builder of two runs that is killed once and interrupted at will beside two
\* users of the legacy register; two reviews with every list of four models;
\* three commands in a directory that is removed once.
SPECIFICATION ControlPlaneSpec
CONSTANTS
  Writers = {w1, w2}
  Projects = {p1, p2}
  Hashes = {h1, h2, h3}
  GENESIS = GENESIS
  Planners = {n1, n2}
  ShortDocs = 3
  StoryIds = 3
  Changed = a0
  Downstream = {b1, b2, b3, b4}
  Unlisted = {b4}
  MaxDepths = {2}
  MaxEdges = 3
  Users = {u1, u2}
  Groups <- TwoGroups
  Dispositions = {"preserve", "retire"}
  MaxEntries = 4
  MaxCommands = 2
  MaxRuns = 2
  MaxDeaths = 1
  Rosters <- FourModels
  MaxRounds = 2
  Starters = {s1, s2, s3}
  NoStarter = NoStarter
  MaxRemovals = 1
SYMMETRY UserSymmetry
INVARIANTS
  LegacySound
  PlansSound
  CascadeSound
  ReviewsSound
  BootstrapSound
PROPERTIES
  Settled
  ImplementsChain
\* A file that is refused and a search that has come to its end leave nothing
\* to do.
CHECK_DEADLOCK FALSE
