SPECIFICATION Spec
SYMMETRY SlotSymmetry
CONSTANTS
  Opening = 1
  InventoryTotal = 2
  Repeatable = TRUE
  Cooldown = 0
  Validity = 0
  RuleMode = "repeat"
  Threshold = 2
  CycleLength = 10
  Staff = {"emp"}
  Employees = {"emp"}
  Amounts = {1}
  CreditLimit = 2
  DebitLimit = 2
  VisitPoints = 1
  VisitLimit = 2
  SpinPrizes = {0, 1}
  BirthdayPoints = 1
  BonusWindow = 2
  VisitWindow = 2
  DayWindow = 4
  SpinWindow = 6
  ApprovalTTL = 2
  YearLength = 5
  ApprovalIds = {1}
  ClientKeys = {1}
  Kinds = {"visit", "spin", "birthday"}
  s1 = s1
  s2 = s2
  Slots = {s1, s2}
  MaxClock = 7
INVARIANTS
  VisitsExact
  
