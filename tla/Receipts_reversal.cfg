SPECIFICATION Spec
SYMMETRY SlotSymmetry
CONSTANTS
  Opening = 2
  Friends = {"ann"}
  Referrer = "ref"
  PosReceipts <- MoneyReceipts
  RefundIds = {11, 12}
  RefundReversals = TRUE
  Minimum = 2
  FriendReward = 1
  ReferrerReward = 0
  RewardDelay = 0
  RewardLimit = 0
  Kinds = {"ingest", "refund", "pay"}
  s1 = s1
  s2 = s2
  Slots = {s1, s2}
  MaxClock = 5
PROPERTIES
  ReversalImmutable
