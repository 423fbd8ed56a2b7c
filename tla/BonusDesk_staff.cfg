SPECIFICATION Spec
SYMMETRY SlotSymmetry
CONSTANTS
  Opening = 1
  InventoryTotal = 2
  Repeatable = TRUE
  Cooldown = 0
  Validity = 0
  RuleMode = "none"
  Threshold = 2
  CycleLength = 10
  Staff = {"emp"}
  Employees = {"emp"}
  Amounts = {1, 2}
  CreditLimit = 1
  DebitLimit = 1
  VisitPoints = 1
  VisitLimit = 2
  SpinPrizes = {0, 1}
  BirthdayPoints = 1
  BonusWindow = 2
  VisitWindow = 2
  DayWindow = 5
  SpinWindow = 3
  ApprovalTTL = 2
  YearLength = 3
  ApprovalIds = {1}
  ClientKeys = {1}
  Kinds = {"bonus", "decide", "delete"}
  s1 = s1
  s2 = s2
  Slots = {s1, s2}
  MaxClock = 5
INVARIANTS
  TypeOK
  LedgerExplainsBalance
  LotsExplained
  
  
PROPERTIES
  ArchivedFrozenForStaff
