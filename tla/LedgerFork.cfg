\* Two overlapping processes: the chain no longer verifies.
SPECIFICATION Spec
CONSTANTS
  Writers = {w1, w2}
  Projects = {p1}
  Hashes = {h1, h2, h3}
  GENESIS = GENESIS
INVARIANTS
  ChainValid
