SPECIFICATION Spec
SYMMETRY SlotSymmetry
CONSTANTS
  Opening = 0
  Friends = {"ann", "bob"}
  Referrer = "ref"
  PosReceipts <- ReferralReceipts
  RefundIds = {11}
  RefundReversals = FALSE
  Minimum = 2
  FriendReward = 1
  ReferrerReward = 1
  RewardDelay = 0
  RewardLimit = 1
  Kinds = {"ingest", "refund", "pay", "delete"}
  s1 = s1
  s2 = s2
  Slots = {s1, s2}
  MaxClock = 5
INVARIANTS
  LimitExceededOnlyByOverlap
PROPERTIES
  ReferralsPaid
