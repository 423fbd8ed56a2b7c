------------------------------ MODULE BonusDesk ------------------------------
(***************************************************************************)
(* Everyone who changes the bonus balance of one customer outside the POS: *)
(* staff (customerBonus, createVisit), the owner who decides large         *)
(* operations (decideOperationApproval), the customer (customerWheelSpin), *)
(* the hourly worker (processBirthdayBonuses) and the archiving of the     *)
(* customer (deleteCustomer).                                              *)
(*                                                                         *)
(* A handler is two steps.  Its Begin step is the input validation, the    *)
(* reads it makes on the pool before its transaction, and BEGIN, which     *)
(* fixes now().  Its Commit step is what it does once it holds the row     *)
(* lock on the customer (SELECT ... FOR UPDATE or UPDATE): under READ      *)
(* COMMITTED these statements see every earlier commit, and nobody else    *)
(* writes the account until COMMIT, so they are one step.  Abort is every  *)
(* way to lose the transaction: an error, a disconnected client, a crash.  *)
(*                                                                         *)
(* Each BEGIN has its own timestamp (the clock advances with it); Tick     *)
(* lets idle time pass.                                                    *)
(***************************************************************************)
EXTENDS BonusLots, RewardStock

CONSTANTS
  Staff,            \* users who may call customerBonus
  Employees,        \* the ones with role "employee"
  Amounts,          \* amounts asked for
  CreditLimit,      \* an employee's credit above it needs approval (10000)
  DebitLimit,       \* an employee's debit above it needs approval (5000)
  VisitPoints,      \* loyalty rule visit_created
  VisitLimit,       \* visits in DayWindow (5)
  SpinPrizes,       \* bonus values of the wheel's sectors, 0 included
  BirthdayPoints,   \* loyalty rule customer_birthday
  BonusWindow,      \* 30 seconds
  VisitWindow,      \* 2 minutes
  DayWindow,        \* 24 hours
  SpinWindow,       \* 7 days
  ApprovalTTL,      \* 24 hours
  YearLength,       \* clock units in a year
  ApprovalIds,      \* ids (and idempotency keys) approvals may get
  ClientKeys,       \* idempotency keys clients send with customerBonus
  Kinds,            \* handlers the clients of this instance call
  Slots,            \* requests in flight at once
  MaxClock          \* bound on time

ASSUME BonusDeskAssumption ==
  /\ Employees \subseteq Staff
  /\ Amounts \subseteq Nat \ {0}
  /\ CreditLimit \in Nat /\ DebitLimit \in Nat
  /\ VisitPoints \in Nat /\ VisitLimit \in Nat
  /\ SpinPrizes \subseteq Nat
  /\ BirthdayPoints \in Nat
  /\ BonusWindow \in Nat /\ VisitWindow \in Nat /\ DayWindow \in Nat
  /\ SpinWindow \in Nat /\ ApprovalTTL \in Nat
  /\ YearLength \in Nat \ {0}
  /\ ApprovalIds \subseteq Nat /\ ClientKeys \subseteq Nat
  /\ MaxClock \in Nat

VARIABLES
  clock,       \* the latest timestamp handed out
  account,     \* the customer's bonus account
  archived,    \* customers.deleted_at IS NOT NULL
  visits,      \* visits.created_at of the customer's visits
  stock,       \* rewards unlocked by visits
  spins,       \* customer_wheel_spins: when the spin began and committed
  birthdays,   \* loyalty_events: years whose birthday bonus was paid
  approvals,   \* operation_approvals by id
  req          \* the request each slot serves

vars == <<clock, account, archived, visits, stock, spins, birthdays, approvals, req>>

Guest == "guest"
Nobody == "nobody"      \* created_by IS NULL

Idle == [kind |-> "idle", by |-> Nobody, op |-> "none", amount |-> 0, ref |-> 0, at |-> 0]

Init ==
  /\ clock = 0
  /\ account = NewAccount
  /\ archived = FALSE
  /\ visits = {}
  /\ stock = EmptyStock
  /\ spins = {}
  /\ birthdays = {}
  /\ approvals = EmptyFunction
  /\ req = [s \in Slots |-> Idle]

-----------------------------------------------------------------------------
(* BEGIN, and the ledger row a committing request writes. *)

Now == clock + 1

Begin(s, kind, by, op, amount, ref) ==
  /\ kind \in Kinds
  /\ req[s] = Idle
  /\ clock < MaxClock
  /\ clock' = Now
  /\ req' = [req EXCEPT ![s] = [kind |-> kind, by |-> by, op |-> op,
                                amount |-> amount, ref |-> ref, at |-> Now]]

Finish(s) == req' = [req EXCEPT ![s] = Idle]

Row(s, src, by, ref) ==
  [src |-> src, ref |-> ref, by |-> by, at |-> req[s].at, committed |-> clock]

\* The balance and lot writes shared by customerBonus and decideOperationApproval.
Apply(op, amount, row) ==
  \/ /\ op = "credit"
     /\ account' = Credit(account, amount, row)
  \/ /\ op = "debit"
     /\ CanDebit(account, amount, row.at)
     /\ account' = Debit(account, amount, row)

-----------------------------------------------------------------------------
(* customerBonus *)

RequiresManagerApproval(u, op, amount) ==
  /\ u \in Employees
  /\ amount > (IF op = "debit" THEN DebitLimit ELSE CreditLimit)

\* The duplicate check, on its own pool connection before the transaction.
RecentBonus(u, op, amount, now) ==
  \E i \in 1..Len(account.ledger) :
     LET r == account.ledger[i]
     IN  r.by = u /\ r.op = op /\ r.amount = amount /\ r.at > now - BonusWindow

(***************************************************************************)
(* key is the client's idempotencyKey.  The handler decodes it and never   *)
(* stores it on this path; the model keeps it as history, in the row's ref.*)
(***************************************************************************)
BonusBeginUnchecked(s, u, op, amount, key) ==
  /\ ~RequiresManagerApproval(u, op, amount)
  /\ Begin(s, "bonus", u, op, amount, key)
  /\ UNCHANGED <<account, archived, visits, stock, spins, birthdays, approvals>>

BonusBegin(s, u, op, amount, key) ==
  /\ ~RequiresManagerApproval(u, op, amount)
  /\ ~RecentBonus(u, op, amount, Now)
  /\ Begin(s, "bonus", u, op, amount, key)
  /\ UNCHANGED <<account, archived, visits, stock, spins, birthdays, approvals>>

BonusCommitIgnoresArchive(s) ==
  /\ req[s].kind = "bonus"
  /\ Apply(req[s].op, req[s].amount, Row(s, "manual", req[s].by, req[s].ref))
  /\ Finish(s)
  /\ UNCHANGED <<clock, archived, visits, stock, spins, birthdays, approvals>>

BonusCommit(s) ==
  /\ req[s].kind = "bonus"
  /\ ~archived
  /\ Apply(req[s].op, req[s].amount, Row(s, "manual", req[s].by, req[s].ref))
  /\ Finish(s)
  /\ UNCHANGED <<clock, archived, visits, stock, spins, birthdays, approvals>>

-----------------------------------------------------------------------------
(* createVisit *)

VisitBegin(s) ==
  /\ Begin(s, "visit", Nobody, "credit", VisitPoints, 0)
  /\ UNCHANGED <<account, archived, visits, stock, spins, birthdays, approvals>>

RecentVisitsUpToNow(window, now) == {v \in visits : v > now - window /\ v <= now}

RecentVisits(window, now) == {v \in visits : v > now - window}

(***************************************************************************)
(* Both limits are checked under the customer lock.  A rule of 0 points    *)
(* makes the ledger insert fail (CHECK amount > 0) and the visit with it.  *)
(***************************************************************************)
VisitCommit(s) ==
  /\ req[s].kind = "visit"
  /\ ~archived
  /\ RecentVisits(VisitWindow, req[s].at) = {}
  /\ Cardinality(RecentVisits(DayWindow, req[s].at)) < VisitLimit
  /\ req[s].amount > 0
  /\ visits' = visits \cup {req[s].at}
  /\ account' = Credit(account, req[s].amount, Row(s, "visit", Nobody, req[s].at))
  /\ stock' = EvaluateRewardEvent(stock, Guest, Cardinality(visits) + 1,
                                  req[s].at, clock)
  /\ Finish(s)
  /\ UNCHANGED <<clock, archived, spins, birthdays, approvals>>

-----------------------------------------------------------------------------
(* customerWheelSpin: the weekly check is outside the transaction, and     *)
(* nothing looks at deleted_at.                                            *)

SpinBeginUnchecked(s, prize) ==
  /\ Begin(s, "spin", Guest, "credit", prize, 0)
  /\ UNCHANGED <<account, archived, visits, stock, spins, birthdays, approvals>>

SpinBegin(s, prize) ==
  /\ \A x \in spins : x.at <= Now - SpinWindow
  /\ Begin(s, "spin", Guest, "credit", prize, 0)
  /\ UNCHANGED <<account, archived, visits, stock, spins, birthdays, approvals>>

SpinCommit(s) ==
  /\ req[s].kind = "spin"
  /\ account' = IF req[s].amount > 0
                THEN Credit(account, req[s].amount, Row(s, "wheel", Nobody, req[s].at))
                ELSE account
  /\ spins' = spins \cup {[at |-> req[s].at, committed |-> clock]}
  /\ Finish(s)
  /\ UNCHANGED <<clock, archived, visits, stock, birthdays, approvals>>

-----------------------------------------------------------------------------
(* processBirthdayBonuses: the candidates are read before the transaction; *)
(* the event key (customer, year) makes the payment happen once a year.    *)

Year(t) == t \div YearLength

BirthdayBegin(s) ==
  /\ ~archived
  /\ BirthdayPoints > 0
  /\ Begin(s, "birthday", Nobody, "credit", BirthdayPoints, Year(Now))
  /\ UNCHANGED <<account, archived, visits, stock, spins, birthdays, approvals>>

BirthdayCommitWithoutKey(s) ==
  /\ req[s].kind = "birthday"
  /\ birthdays' = birthdays \cup {req[s].ref}
  /\ account' = Credit(account, req[s].amount, Row(s, "birthday", Nobody, req[s].ref))
  /\ Finish(s)
  /\ UNCHANGED <<clock, archived, visits, stock, spins, approvals>>

BirthdayCommit(s) ==
  /\ req[s].kind = "birthday"
  /\ req[s].ref \notin birthdays
  /\ birthdays' = birthdays \cup {req[s].ref}
  /\ account' = Credit(account, req[s].amount, Row(s, "birthday", Nobody, req[s].ref))
  /\ Finish(s)
  /\ UNCHANGED <<clock, archived, visits, stock, spins, approvals>>

-----------------------------------------------------------------------------
(* requestBonusApproval: one statement.  A key that exists returns the     *)
(* approval it names and changes nothing, whatever the new payload is.     *)

RequestApproval(u, op, amount, id) ==
  /\ "decide" \in Kinds
  /\ RequiresManagerApproval(u, op, amount)
  /\ ~archived
  /\ id \notin DOMAIN approvals
  /\ approvals' = [x \in DOMAIN approvals \cup {id} |->
                     IF x = id
                     THEN [op |-> op, amount |-> amount, by |-> u, status |-> "pending",
                           expires |-> clock + ApprovalTTL, row |-> 0]
                     ELSE approvals[x]]
  /\ UNCHANGED <<clock, account, archived, visits, stock, spins, birthdays, req>>

(* decideOperationApproval: the approval row is locked first, then the     *)
(* customer.  op is the owner's decision, ref the approval.                *)

DecideBegin(s, id, decision) ==
  /\ id \in DOMAIN approvals
  /\ Begin(s, "decide", Nobody, decision, 0, id)
  /\ UNCHANGED <<account, archived, visits, stock, spins, birthdays, approvals>>

PendingUnchecked(s) == req[s].kind = "decide"

Pending(s) ==
  /\ req[s].kind = "decide"
  /\ approvals[req[s].ref].status = "pending"

\* expires_at is compared with the wall clock, not with now().
Overdue(id) == approvals[id].expires <= clock

DecideExpire(s) ==
  /\ Pending(s)
  /\ Overdue(req[s].ref)
  /\ approvals' = [approvals EXCEPT ![req[s].ref].status = "expired"]
  /\ Finish(s)
  /\ UNCHANGED <<clock, account, archived, visits, stock, spins, birthdays>>

DecideReject(s) ==
  /\ Pending(s)
  /\ ~Overdue(req[s].ref)
  /\ req[s].op = "rejected"
  /\ approvals' = [approvals EXCEPT ![req[s].ref].status = "rejected"]
  /\ Finish(s)
  /\ UNCHANGED <<clock, account, archived, visits, stock, spins, birthdays>>

DecideApprove(s) ==
  LET id == req[s].ref
      x  == approvals[id]
  IN  /\ Pending(s)
      /\ ~Overdue(id)
      /\ req[s].op = "approved"
      /\ ~archived
      /\ Apply(x.op, x.amount, Row(s, "approval", x.by, id))
      /\ approvals' = [approvals EXCEPT ![id].status = "approved",
                                        ![id].row = Len(account.ledger) + 1]
      /\ Finish(s)
      /\ UNCHANGED <<clock, archived, visits, stock, spins, birthdays>>

-----------------------------------------------------------------------------
DeleteCustomer ==
  /\ "delete" \in Kinds
  /\ ~archived
  /\ archived' = TRUE
  /\ UNCHANGED <<clock, account, visits, stock, spins, birthdays, approvals, req>>

\* A request ends without effect: refused under the lock, failed or crashed.
Abort(s) ==
  /\ req[s] # Idle
  /\ Finish(s)
  /\ UNCHANGED <<clock, account, archived, visits, stock, spins, birthdays, approvals>>

Tick ==
  /\ clock < MaxClock
  /\ clock' = Now
  /\ UNCHANGED <<account, archived, visits, stock, spins, birthdays, approvals, req>>

\* The bound on time is reached and every request has ended.
Quiesce ==
  /\ clock = MaxClock
  /\ \A s \in Slots : req[s] = Idle
  /\ UNCHANGED vars

Next ==
  \/ \E s \in Slots, u \in Staff, op \in {"credit", "debit"}, n \in Amounts,
        key \in ClientKeys : BonusBegin(s, u, op, n, key)
  \/ \E s \in Slots : BonusCommit(s)
  \/ \E s \in Slots : VisitBegin(s)
  \/ \E s \in Slots : VisitCommit(s)
  \/ \E s \in Slots, prize \in SpinPrizes : SpinBegin(s, prize)
  \/ \E s \in Slots : SpinCommit(s)
  \/ \E s \in Slots : BirthdayBegin(s)
  \/ \E s \in Slots : BirthdayCommit(s)
  \/ \E u \in Staff, op \in {"credit", "debit"}, n \in Amounts,
        id \in ApprovalIds : RequestApproval(u, op, n, id)
  \/ \E s \in Slots, id \in ApprovalIds, d \in {"approved", "rejected"} :
        DecideBegin(s, id, d)
  \/ \E s \in Slots : DecideExpire(s)
  \/ \E s \in Slots : DecideReject(s)
  \/ \E s \in Slots : DecideApprove(s)
  \/ DeleteCustomer
  \/ \E s \in Slots : Abort(s)
  \/ Tick
  \/ Quiesce

Spec == Init /\ [][Next]_vars
-----------------------------------------------------------------------------
(* Properties *)

Time == 0..MaxClock
Sources == {"manual", "visit", "wheel", "birthday", "approval"}

RowType ==
  [op : {"credit", "debit"}, amount : Nat \ {0}, after : Nat,
   src : Sources, ref : Nat, by : Staff \cup {Nobody}, at : Time, committed : Time]

ApprovalType ==
  [op : {"credit", "debit"}, amount : Nat \ {0}, by : Staff,
   status : {"pending", "approved", "rejected", "expired"}, expires : Nat, row : Nat]

RequestType ==
  [kind : {"idle", "bonus", "visit", "spin", "birthday", "decide"},
   by : Staff \cup {Nobody, Guest},
   op : {"none", "credit", "debit", "approved", "rejected"},
   amount : Nat, ref : Nat, at : Time]

(***************************************************************************)
(* The columns keep the ranges of the schema: amounts positive, balances   *)
(* not negative, 0 <= remaining_amount <= issued_amount.                   *)
(***************************************************************************)
TypeOK ==
  /\ clock \in Time
  /\ IsAccount(account, RowType, Time)
  /\ archived \in BOOLEAN
  /\ visits \subseteq Time
  /\ spins \subseteq [at : Time, committed : Time]
  /\ birthdays \subseteq Nat
  /\ DOMAIN approvals \subseteq ApprovalIds
  /\ \A id \in DOMAIN approvals : approvals[id] \in ApprovalType
  /\ req \in [Slots -> RequestType]

(***************************************************************************)
(* total_points always equals the balance the ledger gives, and every row  *)
(* of the ledger follows from the one before it, however the handlers      *)
(* interleave (each reads the balance under the customer lock).            *)
(***************************************************************************)
LedgerExplainsBalance == LedgerExplains(account)

(***************************************************************************)
(* The unspent lots add up to total_points: no credit is made without a    *)
(* lot and no debit without consuming one, so a debit the balance allows   *)
(* is refused only for lots its transaction cannot see (ShortageNeedsOverlap).*)
(***************************************************************************)
LotsBackBalance == LotsBack(account)

(***************************************************************************)
(* Each debit is paid in full by lots issued before its transaction began, *)
(* and each lot has lost exactly what the redemption rows say.             *)
(***************************************************************************)
DebitsAttributed == Attributed(account)

(***************************************************************************)
(* "active bonus lots are insufficient" although the balance suffices      *)
(* happens only when a transaction that began later credited the customer  *)
(* first: its lot activates after now() of the debit.                      *)
(***************************************************************************)
ShortageNeedsOverlap ==
  \A s \in Slots :
    /\ req[s].kind = "bonus" /\ req[s].op = "debit"
    /\ account.points >= req[s].amount
    /\ ~LotsSuffice(account.lots, req[s].at, req[s].amount)
    => \E t \in DOMAIN account.lots :
         t > req[s].at /\ LotStatus(account.lots[t]) = "active"

Manual == {i \in 1..Len(account.ledger) : account.ledger[i].src = "manual"}

(***************************************************************************)
(* The 30-second duplicate check of customerBonus is made before the       *)
(* transaction, so it misses exactly the operations still in flight: two   *)
(* equal operations of one employee closer than the window overlapped.     *)
(***************************************************************************)
BonusRepeatOnlyByOverlap ==
  \A i, j \in Manual :
    LET a == account.ledger[i]
        b == account.ledger[j]
    IN  /\ i < j
        /\ a.by = b.by /\ a.op = b.op /\ a.amount = b.amount
        /\ b.at - a.at < BonusWindow
        => b.at <= a.committed

(***************************************************************************)
(* Two submissions of customerBonus that carry the same idempotencyKey     *)
(* change the balance once (docs/ARCHITECTURE.md: a resubmission is        *)
(* protected by idempotency_key).                                          *)
(***************************************************************************)
ResubmissionAppliedOnce ==
  \A i, j \in Manual :
    account.ledger[i].ref = account.ledger[j].ref => i = j

(***************************************************************************)
(* Visits of a customer are at least VisitWindow apart and no DayWindow    *)
(* holds more than VisitLimit of them: createVisit checks both under the   *)
(* lock, and compares with timestamps of transactions that began earlier   *)
(* and committed later.                                                    *)
(***************************************************************************)
VisitsWithinLimits ==
  /\ \A v, w \in visits : v < w => w - v >= VisitWindow
  /\ \A v \in visits :
       Cardinality({w \in visits : w <= v /\ w > v - DayWindow}) <= VisitLimit

(***************************************************************************)
(* A "repeat" rule pays one reward per full round of visits, as long as    *)
(* the inventory lasts: no round is skipped or paid twice when visits      *)
(* commit in another order than they began.                                *)
(***************************************************************************)
VisitRewardsMatchRounds ==
  RuleMode = "repeat" /\ Repeatable /\ Cooldown = 0 =>
    LET rounds == Cardinality(visits) \div Threshold
    IN  Len(stock.rewards) =
          IF InventoryTotal = -1 THEN rounds ELSE Min({InventoryTotal, rounds})

(***************************************************************************)
(* Two spins of the wheel less than a week apart overlapped: the check is  *)
(* outside the transaction.                                                *)
(***************************************************************************)
SpinRepeatOnlyByOverlap ==
  \A x, y \in spins :
    x.at < y.at /\ y.at - x.at < SpinWindow => y.at <= x.committed

(***************************************************************************)
(* An approval moves points exactly when it is approved, once, with the    *)
(* operation, amount and author it was requested with, and never after     *)
(* expires_at, however many owners decide it at the same time.             *)
(***************************************************************************)
ApprovalExecutedOnce ==
  /\ \A id \in DOMAIN approvals :
       LET x == approvals[id]
       IN  {i \in 1..Len(account.ledger) :
              account.ledger[i].src = "approval" /\ account.ledger[i].ref = id}
             = (IF x.status = "approved" THEN {x.row} ELSE {})
  /\ \A id \in DOMAIN approvals : approvals[id].status = "approved" =>
       LET r == account.ledger[approvals[id].row]
       IN  /\ r.op = approvals[id].op /\ r.amount = approvals[id].amount
           /\ r.by = approvals[id].by /\ r.committed < approvals[id].expires

(***************************************************************************)
(* The yearly birthday bonus is paid once, also when several workers found *)
(* the customer among their candidates.                                    *)
(***************************************************************************)
BirthdayPaidOnce ==
  \A i, j \in 1..Len(account.ledger) :
    /\ account.ledger[i].src = "birthday" /\ account.ledger[j].src = "birthday"
    /\ account.ledger[i].ref = account.ledger[j].ref
    => i = j

(***************************************************************************)
(* Once the customer is archived, requests of staff and owners that were   *)
(* already running change nothing; only a wheel prize or a birthday bonus  *)
(* can still arrive (their UPDATE does not look at deleted_at).            *)
(***************************************************************************)
ArchivedFrozenForStaff ==
  [][archived /\ account' # account =>
       account'.ledger[Len(account'.ledger)].src \in {"wheel", "birthday"}]_vars

(***************************************************************************)
(* The lots are a true account of the balance whatever overlaps: they back *)
(* it, every debit is attributed to lots it could see, and a debit the     *)
(* balance allows is refused only for a credit that overtook it.           *)
(***************************************************************************)
LotsExplained ==
  /\ LotsBackBalance
  /\ DebitsAttributed
  /\ ShortageNeedsOverlap

(***************************************************************************)
(* Visits that overlap and commit out of order stay within both windows of *)
(* createVisit, and each full round of them pays the reward of its rule    *)
(* exactly once.                                                           *)
(***************************************************************************)
VisitsExact ==
  /\ VisitsWithinLimits
  /\ VisitRewardsMatchRounds

(***************************************************************************)
(* The points a guest gets without buying are given once: the wheel's once *)
(* a week unless two spins overlapped (customerWheelSpin), the birthday's  *)
(* once a year in any case (processBirthdayBonuses).                       *)
(***************************************************************************)
GiftsOnce ==
  /\ SpinRepeatOnlyByOverlap
  /\ BirthdayPaidOnce
=============================================================================
