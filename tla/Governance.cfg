\* Two processes, one with a profile, two classes, two emergencies; or every
\* merge request over two hashes, with the clock and the switch moving; or one
\* manifest with engines opened and lost any number of times; or a build and a
\* command that continues it, of which one may be killed, and both of which
\* end; or two contracts of one objective and one command, verified by one
\* process.
SPECIFICATION MCSpec
CHECK_DEADLOCK FALSE
CONSTANTS
  Procs = {p1, p2}
  Keepers = {p1}
  Classes = {"task_issuance", "registry_writes"}
  Emergencies = {e1, e2}
  None = None
  MaxEscapes = 2
  Hashes = {h1, h2}
  MaxTime = 1
  MaxRetries = 1
  AuditRoom = 6
  Askers = {u1, u2}
  Settings = {"", "off", "strict", "llm"}
  MaxBriefs = 1
  MaxKills = 1
  Objectives = {obj}
  CheckCommands = {k1}
  Verifiers = {v1}
  MaxBuilds = 2
SYMMETRY EmergencySymmetry
INVARIANTS
  GovernanceSound
  EngineSound
  RowAudited
  IntentSound
  ProofSound
PROPERTIES
  GovernanceKeeps
  AllowedExactlyWhenSafe
  ReviewEarned
  ImplementsLifecycle
