SPECIFICATION LedgerSpec
CONSTANTS
  Focuses = {"year"}
  Dates = {1, 2}
  Periods <- MCPeriods
  FY <- MCYear
  Amounts = {1}
  Requests = {r1, r2, r3, r4, r5}
  JournalIds = {1, 2}
  EventIds = {1, 2, 3}
  PackIds = {1, 2}
  MatchIds = {1, 2}
  Items <- MCItems
  Statements <- TwoStatements
  ClockSteps = {0, 1}
  MaxPlans = 1
  MaxAnswers = 1
SYMMETRY MCSymmetry
INVARIANT StaleCanBeRenewed
CHECK_DEADLOCK FALSE
