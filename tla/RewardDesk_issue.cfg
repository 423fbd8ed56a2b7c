SPECIFICATION Spec
SYMMETRY DeskSymmetry
CONSTANTS
  c1 = c1
  c2 = c2
  s1 = s1
  s2 = s2
  InventoryTotal = 2
  Repeatable = FALSE
  Cooldown = 2
  Validity = 0
  RuleMode = "lifetime"
  Threshold = 1
  CycleLength = 10
  Customers = {c1, c2}
  ClientKeys = {0, 1}
  Reservation = 1
  SweepBatch = 1
  Sweepers = {"worker"}
  Worker = "worker"
  Kinds = {"issue", "visit", "transition", "definition", "delete"}
  Slots = {s1, s2}
  MaxClock = 4
INVARIANTS
  InventoryNeverExceeded
  HeldOnce
  CooldownRespected
