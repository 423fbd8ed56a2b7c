SPECIFICATION FairSpec
CONSTANTS
  c1 = c1
  s1 = s1
  InventoryTotal = 2
  Repeatable = TRUE
  Cooldown = 0
  Validity = 3
  RuleMode = "none"
  Threshold = 2
  CycleLength = 10
  Customers = {c1}
  ClientKeys = {0}
  Reservation = 1
  SweepBatch = 1
  Sweepers = {"worker"}
  Worker = "worker"
  Kinds = {"issue", "transition", "sweep"}
  Slots = {s1}
  MaxClock = 5
PROPERTIES
  OverdueSwept
