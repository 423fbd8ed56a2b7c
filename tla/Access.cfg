SPECIFICATION MCSpec
CONSTANTS
  q1 = q1
  q2 = q2
  g1 = g1
  g2 = g2
  Requests = {q1, q2}
  MaxTokens = 3
  MaxLinks = 1
  MaxChallenges = 2
  MaxSecrets = 2
  MaxLost = 1
  Guests = {g1, g2}
  MaxAttempts = 2
  MaxCodes = 2
  MaxGuesses = 4
  MaxLeft = 1
  Phones = {"p1", "p2"}
  Applicants = {"a", "b"}
  CustomerLimit = 1
  MaxCards = 3
  MaxClicks = 2
  MaxScans = 2
  Managers = {"m1", "m2"}
  MaxStaffFaults = 1
  Bookings = {"b1", "b2"}
  Slots = {"s1", "s2"}
  Owners = {"o1", "o2"}
  Redeemers = {"r1", "r2"}
  Tills = {"t1", "t2"}
  Friends = {"f1", "f2"}
  MaxRedemptions = 2
  MaxPerCustomer = 1
SYMMETRY Alike
INVARIANTS
  
  
  
  
  AccessFollowsAccount
PROPERTIES
  BookingsKept
  RedemptionsExact
