SPECIFICATION Spec
SYMMETRY DeskSymmetry
CONSTANTS
  c1 = c1
  s1 = s1
  s2 = s2
  InventoryTotal = 1
  Repeatable = TRUE
  Cooldown = 0
  Validity = 3
  RuleMode = "none"
  Threshold = 2
  CycleLength = 10
  Customers = {c1}
  ClientKeys = {0, 1}
  Reservation = 1
  SweepBatch = 1
  Sweepers = {"worker"}
  Worker = "worker"
  Kinds = {"issue", "transition", "direct", "sweep"}
  Slots = {s1, s2}
  MaxClock = 5
INVARIANTS
  TrailTrue
PROPERTIES
  ClosedForGood
