SPECIFICATION PosterSpec
CONSTANTS
  Tickets = {"x1"}
  Net = 1
  Imports = {}
  Runners = {"a"}
  MaxJobAttempts = 1
  DayLength = 2
  SyncAge = 2
  MaxTick = 4
  MaxRevivals = 0
  MaxRunnerFaults = 0
INVARIANTS
  DailyReconciliation
CHECK_DEADLOCK FALSE
