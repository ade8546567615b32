SPECIFICATION Spec
CONSTANTS
  Initializers = {i1}
  Upgraders = {u1, u2}
  Restorers = {r1}
  Sessions = {s1}
  LegacyTop = 2
  FirstRelease = 1
  MaxRelease = 2
  Checkpoints = {1}
  MaxCommands = 2
  MaxArchives = 1
  MaxFaults = 0
INVARIANT UnknownCanBeRestored
CHECK_DEADLOCK FALSE
