SPECIFICATION McpSpec
CONSTANTS
  Requests = {q1, q2}
  MaxSessions = 1
  MaxInFlight = 2
  Timeout = 1
  TTL = 2
INVARIANT SessionLimitHolds
CHECK_DEADLOCK FALSE
