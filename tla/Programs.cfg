SPECIFICATION ProgramsSpec
CONSTANTS
  Initializers = {i1}
  Upgraders = {u1, u2}
  Restorers = {r1}
  Sessions = {s1}
  LegacyTop = 2
  FirstRelease = 1
  MaxRelease = 2
  Checkpoints = {1}
  MaxCommands = 2
  MaxArchives = 1
  MaxFaults = 2
  Requests = {"q1", "q2", "q3", "q4"}
  MaxSessions = 1
  MaxInFlight = 2
  Timeout = 1
  TTL = 2
INVARIANTS ControlNeverAhead McpTypeOK OnlyOpenSessionsServe
PROPERTIES WritesPassTheGate RecoveryFreezes UpgradedIsCurrent CommandsFinish NotExpiredInUse AdmittedAnswered
CHECK_DEADLOCK FALSE
