SPECIFICATION MCSpec
CONSTANTS
  Schedules = {"s"}
  Planners = {"a", "b"}
  Cycle = 2
  MaxHour = 3
  MaxEdits = 3
  MaxPlanFaults = 1
  Runs = {"r"}
  Couriers = {"a", "b"}
  Recipients = 2
  MaxReportAttempts = 3
  MaxCourierFaults = 1
  Audience = {"c1", "c2", "c3"}
  Holdout = {"c3"}
  Staff = {"q1", "q2"}
  Triggers = {"t"}
  Automata = {"a", "b"}
  MaxMessageAttempts = 3
  MaxMessages = 3
  MaxCampaignFaults = 1
  MaxAutomationFaults = 1
  Plans = {1, 2}
  Admins = {"a", "b"}
  Creators = {"c", "d"}
  MaxUpdates = 2
INVARIANTS
  
  CampaignAccounted
  
  
PROPERTIES
  RunsAccounted
  WorkEnds
