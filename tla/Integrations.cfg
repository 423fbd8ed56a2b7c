SPECIFICATION MCSpec
CONSTANTS
  e1 = e1
  e2 = e2
  p1 = p1
  x1 = x1
  i1 = i1
  Events = {e1, e2}
  Endpoints = {p1}
  Subscribed <- AllSubscribed
  Senders = {"a", "b"}
  MaxDeliveries = 2
  FailureLimit = 3
  MaxSenderFaults = 1
  Notices = {"n1", "n2"}
  Posts = {"a", "b"}
  Tickets = {x1}
  Net = 2
  Imports = {i1}
  Runners = {"a", "b"}
  MaxJobAttempts = 2
  DayLength = 1
  SyncAge = 1
  MaxTick = 1
  MaxRevivals = 1
  MaxRunnerFaults = 1
  Sources = {"f1", "f2"}
  ProjectionWorkers = {"a", "b"}
  Refreshers = {"staff"}
  MaxRefreshTries = 2
  MaxAnalystFaults = 1
INVARIANTS
  DeliveriesAccounted
  AcceptedOrVisible
  JobsAccounted
PROPERTIES
  DeliveriesAreAQueue
  JobsAreAQueue
  ReturnsStand
  ProjectionCurrent
  WorkSettles
