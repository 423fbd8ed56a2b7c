----------------------------- MODULE RewardStock -----------------------------
(***************************************************************************)
(* The rewards issued from one reward definition and the one rule that     *)
(* issues them automatically.  Constant-level, like BonusLots: an operator *)
(* takes the tables (one record, the stock) and returns them after the     *)
(* writes of one handler.                                                  *)
(*                                                                         *)
(*   stock.issued    reward_definitions.inventory_issued                   *)
(*   stock.rewards   customer_rewards, in the order they were inserted     *)
(*   stock.trail     reward_transactions, the audit trail                  *)
(*   stock.progress  customer_reward_progress by customer and cycle        *)
(*   stock.timeline  customer_events about rewards                         *)
(***************************************************************************)
EXTENDS Integers, Sequences, FiniteSets

CONSTANTS
  InventoryTotal,   \* inventory_total; -1 stands for NULL (no limit)
  Repeatable,       \* may one customer hold the reward more than once?
  Cooldown,         \* cooldown_days, in clock units; 0 = none
  Validity,         \* validity_days, in clock units; 0 stands for NULL
  RuleMode,         \* progress_mode of the rule, "none" when there is no rule
  Threshold,        \* visits the rule asks for
  CycleLength       \* clock units in a calendar cycle

ASSUME RewardStockAssumption ==
  /\ InventoryTotal \in Nat \cup {-1}
  /\ Repeatable \in BOOLEAN
  /\ Cooldown \in Nat
  /\ Validity \in Nat
  /\ RuleMode \in {"none", "lifetime", "repeat", "calendar"}
  /\ Threshold \in Nat \ {0}
  /\ CycleLength \in Nat \ {0}

Never == 0                    \* a NULL timestamp; the clock starts at 1
NoKey == <<"none", "", 0>>    \* a NULL idempotency_key

NoProgress == [p \in {} |-> [current |-> 0, status |-> "in_progress"]]

EmptyStock ==
  [issued |-> 0, rewards |-> << >>, trail |-> << >>,
   progress |-> NoProgress, timeline |-> {}]

Open(r) == r.status \in {"available", "reserved"}

PastValidity(r, t) == r.expires # Never /\ r.expires <= t

\* A reward_transactions row: reward, operation, the two statuses and the key.
TrailRow(id, op, from, to, key) ==
  [id |-> id, op |-> op, from |-> from, to |-> to, key |-> key]

\* INSERT ... ON CONFLICT(company_id,idempotency_key) DO NOTHING.
AppendTrail(trail, row) ==
  IF row.key # NoKey /\ \E i \in 1..Len(trail) : trail[i].key = row.key
  THEN trail
  ELSE Append(trail, row)

-----------------------------------------------------------------------------
(* issueRewardTx *)

WithKey(stock, key) == {i \in 1..Len(stock.rewards) : stock.rewards[i].key = key}

\* The idempotency lookup that comes before the definition is locked.
Existing(stock, key) == IF key = NoKey THEN {} ELSE WithKey(stock, key)

OutOfStockAboveTotal(stock) == InventoryTotal # -1 /\ stock.issued > InventoryTotal

OutOfStock(stock) == InventoryTotal # -1 /\ stock.issued >= InventoryTotal

AlreadyHeldOpen(stock, c) ==
  ~Repeatable /\ \E i \in 1..Len(stock.rewards) :
     stock.rewards[i].customer = c /\ Open(stock.rewards[i])

AlreadyHeld(stock, c) ==
  ~Repeatable /\ \E i \in 1..Len(stock.rewards) :
     stock.rewards[i].customer = c /\ stock.rewards[i].status # "cancelled"

CoolingDownEarlierOnly(stock, c, now) ==
  Cooldown > 0 /\ \E i \in 1..Len(stock.rewards) :
     /\ stock.rewards[i].customer = c
     /\ stock.rewards[i].at > now - Cooldown /\ stock.rewards[i].at <= now

CoolingDown(stock, c, now) ==
  Cooldown > 0 /\ \E i \in 1..Len(stock.rewards) :
     stock.rewards[i].customer = c /\ stock.rewards[i].at > now - Cooldown

\* The three refusals checked under the definition's row lock.
IssueRefused(stock, c, now) ==
  OutOfStock(stock) \/ AlreadyHeld(stock, c) \/ CoolingDown(stock, c, now)

(***************************************************************************)
(* The writes after those checks.  The insert is an upsert on the key: a   *)
(* row that appeared after the lookup is returned as if it were new, and   *)
(* inventory_issued is incremented all the same.                           *)
(***************************************************************************)
IssueRow(stock, c, key, now, wall) ==
  LET clash == Existing(stock, key)
      id    == IF clash = {} THEN Len(stock.rewards) + 1
               ELSE CHOOSE i \in clash : TRUE
      row   == [customer |-> c, key |-> key, status |-> "available", at |-> now,
                expires |-> IF Validity = 0 THEN Never ELSE wall + Validity,
                until |-> Never]
  IN  [issued   |-> stock.issued + 1,
       rewards  |-> IF clash = {} THEN Append(stock.rewards, row) ELSE stock.rewards,
       trail    |-> AppendTrail(stock.trail, TrailRow(id, "issued", "none", "available", key)),
       progress |-> stock.progress,
       timeline |-> stock.timeline \cup {<<"reward.unlocked", id>>}]

-----------------------------------------------------------------------------
(* evaluateRewardEvent: called by createVisit with the new visit count.    *)

\* rewardCycle
Cycle(wall) == IF RuleMode = "calendar" THEN wall \div CycleLength ELSE 0

\* The progress value: the count itself, or its place in the current round.
ProgressValue(count) ==
  IF RuleMode # "repeat" THEN count
  ELSE IF count % Threshold = 0 THEN Threshold ELSE count % Threshold

RuleKeyPerCycle(c, count, wall) == <<"rule", c, Cycle(wall)>>

RuleKey(c, count, wall) ==
  <<"rule", c, IF RuleMode = "repeat" THEN count \div Threshold ELSE Cycle(wall)>>

\* A completed progress row stays completed whatever the new value is.  The
\* customer is told when one visit is missing.
UpsertProgress(stock, c, count, wall) ==
  LET p      == <<c, Cycle(wall)>>
      status == IF p \in DOMAIN stock.progress /\ stock.progress[p].status = "completed"
                THEN "completed"
                ELSE IF ProgressValue(count) >= Threshold THEN "available"
                ELSE "in_progress"
      almost == ProgressValue(count) = Threshold - 1
  IN  [issued   |-> stock.issued,
       rewards  |-> stock.rewards,
       trail    |-> stock.trail,
       progress |-> [q \in DOMAIN stock.progress \cup {p} |->
                       IF q = p THEN [current |-> ProgressValue(count), status |-> status]
                       ELSE stock.progress[q]],
       timeline |-> IF almost
                    THEN stock.timeline \cup {<<"reward.almost_unlocked", count>>}
                    ELSE stock.timeline]

Complete(stock, c, wall) ==
  [issued   |-> stock.issued,
   rewards  |-> stock.rewards,
   trail    |-> stock.trail,
   progress |-> [stock.progress EXCEPT ![<<c, Cycle(wall)>>].status = "completed"],
   timeline |-> stock.timeline]

\* repeat, cooldown and inventory refusals are swallowed: the visit stands.
EvaluateRewardEvent(stock, c, count, now, wall) ==
  LET s   == UpsertProgress(stock, c, count, wall)
      key == RuleKey(c, count, wall)
  IN  IF RuleMode = "none" THEN stock
      ELSE IF ProgressValue(count) < Threshold THEN s
      ELSE IF Existing(s, key) # {} THEN Complete(s, c, wall)
      ELSE IF IssueRefused(s, c, now) THEN s
      ELSE Complete(IssueRow(s, c, key, now, wall), c, wall)
=============================================================================
