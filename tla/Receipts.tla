------------------------------ MODULE Receipts -------------------------------
(***************************************************************************)
(* What a POS receipt does to bonus accounts, and what a refund takes      *)
(* back: integration.Service.Ingest and Refund with the referral           *)
(* qualification and its reversal, and the hourly worker that pays pending *)
(* referral rewards (processReferralRewards).                              *)
(*                                                                         *)
(* The customers are friends and the referrer who invited them; every      *)
(* friend has a registered attribution when the behaviour starts.  Anyone  *)
(* may buy.  Sandbox receipts and receipts no customer matches change no   *)
(* account and are left out, and so are the timeline events and the outbox *)
(* row, which Ingest and Refund insert with the receipt.                   *)
(*                                                                         *)
(* As in BonusDesk, Begin is everything before BEGIN plus BEGIN (which     *)
(* fixes now()), Commit is what happens under the row locks, and Abort is  *)
(* every error and crash.  Ingest has a step between them: it counts the   *)
(* referrer's attributions without locking them.                           *)
(***************************************************************************)
EXTENDS BonusLots

CONSTANTS
  Friends,          \* customers who registered with a referral code
  Referrer,         \* the customer whose code it was
  PosReceipts,      \* receipts the POS sends
  RefundIds,        \* external ids refunds carry
  RefundReversals,  \* do clients refund refunds?
  Minimum,          \* minimum_purchase_amount of the referral program
  FriendReward,     \* friend_reward_value
  ReferrerReward,   \* referrer_reward_value
  RewardDelay,      \* reward_delay_days
  RewardLimit,      \* max_rewards_per_customer; NoLimit for NULL
  Kinds,            \* what happens in this instance
  Slots,            \* requests and workers in flight at once
  MaxClock          \* bound on time

NoSale == 0         \* sales_transaction_id IS NULL
Nobody == "nobody"  \* a ledger row that belongs to no referral
Never == -1
NoLimit == 0        \* the schema keeps the column NULL or positive

Customers == Friends \cup {Referrer}
SaleIds == {r.ext : r \in PosReceipts} \cup RefundIds
Roles == {"friend", "referrer"}

ReceiptType ==
  [ext : Nat \ {NoSale}, customer : Customers, net : Nat, earned : Nat, spent : Nat,
   status : {"completed", "pending", "refunded", "partially_refunded", "cancelled"},
   mapped : BOOLEAN, original : Nat]

ASSUME ReceiptsAssumption ==
  /\ IsFiniteSet(Friends) /\ Referrer \notin Friends
  /\ PosReceipts \subseteq ReceiptType
  /\ RefundIds \subseteq Nat \ {NoSale}
  /\ RefundReversals \in BOOLEAN
  /\ Minimum \in Nat /\ FriendReward \in Nat /\ ReferrerReward \in Nat
  /\ RewardDelay \in Nat /\ RewardLimit \in Nat
  /\ MaxClock \in Nat

VARIABLES
  clock,        \* the latest timestamp handed out
  account,      \* the bonus account of each customer
  totalVisits,  \* customers.total_visits
  archived,     \* customers with deleted_at IS NOT NULL
  sales,        \* sales_transactions by external id
  attribution,  \* referral_attributions by friend
  rewards,      \* referral_rewards by friend and role
  req           \* the request or worker item each slot serves

vars == <<clock, account, totalVisits, archived, sales, attribution, rewards, req>>

Idle == [kind |-> "idle", what |-> "nothing", at |-> 0, saw |-> Never]

Init ==
  /\ clock = 0
  /\ account = [c \in Customers |-> NewAccount]
  /\ totalVisits = [c \in Customers |-> 0]
  /\ archived = {}
  /\ sales = EmptyFunction
  /\ attribution = [f \in Friends |-> [status |-> "registered", sale |-> NoSale, at |-> 0,
                                       committed |-> Never, reversed |-> Never]]
  /\ rewards = EmptyFunction
  /\ req = [s \in Slots |-> Idle]

-----------------------------------------------------------------------------
Now == clock + 1

Begin(s, kind, what) ==
  /\ kind \in Kinds
  /\ req[s] = Idle
  /\ clock < MaxClock
  /\ clock' = Now
  /\ req' = [req EXCEPT ![s] = [kind |-> kind, what |-> what, at |-> Now, saw |-> Never]]

Finish(s) == req' = [req EXCEPT ![s] = Idle]

Row(src, sale, friend, at) ==
  [src |-> src, ref |-> sale, by |-> friend, at |-> at, committed |-> clock]

\* A receipt that has counted attributions holds its customer's row lock.
Free(c) == ~ \E s \in Slots : /\ req[s].kind = "ingest"
                              /\ req[s].saw # Never
                              /\ req[s].what.customer = c

\* The sum of a ledger operation over the rows that name one of these sales.
LedgerSum(op, ids) ==
  Total([c \in Customers |->
           LET l == account[c].ledger
           IN  Total([i \in {j \in 1..Len(l) : l[j].op = op /\ l[j].ref \in ids} |-> l[i].amount])])

-----------------------------------------------------------------------------
(* Ingest *)

\* A known (provider, external_id) is answered as a duplicate and changes nothing.
IngestBegin(s, r) ==
  /\ r.ext \notin DOMAIN sales
  /\ r.customer \notin archived
  /\ Begin(s, "ingest", r)
  /\ UNCHANGED <<account, totalVisits, archived, sales, attribution, rewards>>

Counts == {"reward_pending", "rewarded"}

Counted == {f \in Friends : attribution[f].status \in Counts}

\* The count in applyReferralQualification's SELECT, made before the commit.
IngestCount(s) ==
  /\ RewardLimit # NoLimit
  /\ req[s].kind = "ingest"
  /\ req[s].saw = Never
  /\ Free(req[s].what.customer)
  /\ req' = [req EXCEPT ![s].saw = Cardinality(Counted)]
  /\ UNCHANGED <<clock, account, totalVisits, archived, sales, attribution, rewards>>

\* Loyalty effects need a completed receipt; applyLoyalty also needs a branch.
Loyal(r) == r.status = "completed" /\ r.mapped

\* applyLoyalty: the debit of the points spent, then the credit of those earned.
Purchase(a, r, at) ==
  LET row   == Row("receipt", r.ext, Nobody, at)
      spent == IF r.spent > 0 THEN Debit(a, r.spent, row) ELSE a
  IN  IF r.earned > 0 THEN Credit(spent, r.earned, row) ELSE spent

PurchaseAllowed(a, r, at) == r.spent > 0 => CanDebit(a, r.spent, at)

QualifiesOneMore(r, saw) ==
  {f \in Friends : /\ r.status = "completed"
                   /\ f = r.customer
                   /\ attribution[f].status = "registered"
                   /\ r.net >= Minimum
                   /\ RewardLimit = NoLimit \/ saw <= RewardLimit}

\* The friend whose registered attribution this receipt qualifies.
Qualifies(r, saw) ==
  {f \in Friends : /\ r.status = "completed"
                   /\ f = r.customer
                   /\ attribution[f].status = "registered"
                   /\ r.net >= Minimum
                   /\ RewardLimit = NoLimit \/ saw < RewardLimit}

RewardValue(role) == IF role = "friend" THEN FriendReward ELSE ReferrerReward

\* Pending rewards for both sides; ON CONFLICT keeps the ones there are.
GrantRewards(friends, at) ==
  LET new == {k \in friends \X Roles : RewardValue(k[2]) > 0} \ DOMAIN rewards
  IN  [k \in DOMAIN rewards \cup new |->
         IF k \in new
         THEN [status |-> "pending", available |-> at + RewardDelay, lost |-> 0]
         ELSE rewards[k]]

InsertSale(id, sale) ==
  [x \in DOMAIN sales \cup {id} |-> IF x = id THEN sale ELSE sales[x]]

\* The unique index on external_id refuses a receipt another request inserted.
IngestCommit(s) ==
  LET r  == req[s].what
      at == req[s].at
      c  == r.customer
      q  == Qualifies(r, req[s].saw)
  IN  /\ req[s].kind = "ingest"
      /\ req[s].saw # Never \/ RewardLimit = NoLimit
      /\ r.ext \notin DOMAIN sales
      /\ Loyal(r) => PurchaseAllowed(account[c], r, at)
      /\ account' = IF Loyal(r)
                    THEN [account EXCEPT ![c] = Purchase(@, r, at)]
                    ELSE account
      /\ totalVisits' = IF Loyal(r)
                        THEN [totalVisits EXCEPT ![c] = @ + 1]
                        ELSE totalVisits
      /\ sales' = InsertSale(r.ext,
                    [customer |-> c, net |-> r.net, status |-> r.status, source |-> "pos",
                     original |-> IF r.original \in DOMAIN sales THEN r.original ELSE NoSale,
                     visit |-> IF Loyal(r) THEN "counted" ELSE "none", short |-> 0])
      /\ attribution' = [f \in Friends |->
                           IF f \in q
                           THEN [status |-> "reward_pending", sale |-> r.ext, at |-> at,
                                 committed |-> clock, reversed |-> Never]
                           ELSE attribution[f]]
      /\ rewards' = GrantRewards(q, at)
      /\ Finish(s)
      /\ UNCHANGED <<clock, archived>>

-----------------------------------------------------------------------------
(* Refund *)

Reversals(id) == {x \in DOMAIN sales : sales[x].original = id}

AlreadyRefunded(id) ==
  Total([x \in {y \in Reversals(id) : sales[y].status \in {"refunded", "partially_refunded"}} |->
           sales[x].net])

RemainingOfSale(id) == sales[id].net

Remaining(id) == sales[id].net - AlreadyRefunded(id)

RefundBegin(s, id, ext, amount) ==
  /\ sales[id].source = "refund" => RefundReversals
  /\ Begin(s, "refund", [original |-> id, ext |-> ext, amount |-> amount])
  /\ UNCHANGED <<account, totalVisits, archived, sales, attribution, rewards>>

(***************************************************************************)
(* int(float64(points) * (amount / net)): the floor of the exact share,    *)
(* or one less where the share is whole and its floating-point value falls *)
(* below it (49 points, 1 of 49).  Amounts are whole here.                 *)
(***************************************************************************)
ProRata(points, amount, net) ==
  LET exact == (points * amount) \div net
  IN  IF (points * amount) % net = 0 /\ exact > 0 THEN {exact - 1, exact} ELSE {exact}

ShareProRata(points, done, amount, net, full) == ProRata(points, amount, net)

\* The last refund takes or gives back what the earlier ones did not.
Share(points, done, amount, net, full) ==
  IF full THEN {Max({0, points - done})} ELSE ProRata(points, amount, net)

RefundedAccount(a, reversed, restored, original, row) ==
  LET debited == IF reversed > 0 THEN Debit(a, reversed, row) ELSE a
  IN  IF restored = 0
      THEN {debited}
      ELSE {Restore(debited, restored, row, back) :
              back \in RestoreSplits(debited, original, restored)}

VisitsAfterAnyRefund(sale, full) ==
  IF sale.visit = "counted" THEN Max({0, totalVisits[sale.customer] - 1})
                            ELSE totalVisits[sale.customer]

\* A full refund reverses the sale's visit, unless it was reversed before.
VisitsAfter(sale, full) ==
  IF full /\ sale.visit = "counted" THEN Max({0, totalVisits[sale.customer] - 1})
                                    ELSE totalVisits[sale.customer]

(* reverseReferralQualification *)

\* The attribution the sale qualified, when what is left of it no longer would.
Disqualified(id, left) ==
  {f \in Friends : /\ attribution[f].sale = id
                   /\ attribution[f].status \in Counts
                   /\ left < Minimum}

\* A row of this friend's referral exists: the keys are per reward.
HasRow(a, src, f) ==
  \E i \in 1..Len(a.ledger) : a.ledger[i].src = src /\ a.ledger[i].by = f

Issued(k) == k \in DOMAIN rewards /\ rewards[k].status = "issued"

\* As much of an issued reward as the balance allows is debited, once.
Due(a, k) ==
  IF Issued(k) /\ ~HasRow(a, "referral_reversal", k[1])
  THEN Min({a.points, RewardValue(k[2])})
  ELSE 0

Recover(a, k, refund, at) ==
  IF Due(a, k) > 0
  THEN Debit(a, Due(a, k), Row("referral_reversal", refund, k[1], at))
  ELSE a

\* An archived beneficiary, or lots the transaction cannot see, fail the refund.
CanRecover(a, k, beneficiary, at) ==
  Issued(k) => /\ beneficiary \notin archived
               /\ Free(beneficiary)
               /\ Due(a, k) > 0 => LotsSuffice(a.lots, at, Due(a, k))

\* Every account after the rewards of the disqualified friends are taken back.
RecoverAll(accounts, friends, refund, at) ==
  [c \in Customers |->
     IF c \in friends THEN Recover(accounts[c], <<c, "friend">>, refund, at)
     ELSE IF c = Referrer /\ friends # {}
     THEN Recover(accounts[c], <<CHOOSE f \in friends : TRUE, "referrer">>, refund, at)
     ELSE accounts[c]]

\* unrecoveredPoints is computed from the balance, whether or not a row was new.
Lost(accounts, k) ==
  LET a == accounts[IF k[2] = "friend" THEN k[1] ELSE Referrer]
  IN  IF Issued(k) THEN RewardValue(k[2]) - Min({a.points, RewardValue(k[2])}) ELSE 0

RevokeRewardsIssuedOnly(accounts, friends) ==
  [k \in DOMAIN rewards |->
     IF k[1] \in friends /\ rewards[k].status = "issued"
     THEN [status |-> "reversed", available |-> rewards[k].available,
           lost |-> Lost(accounts, k)]
     ELSE rewards[k]]

RevokeRewards(accounts, friends) ==
  [k \in DOMAIN rewards |->
     IF k[1] \in friends /\ rewards[k].status \in {"pending", "issued"}
     THEN [status |-> "reversed", available |-> rewards[k].available,
           lost |-> Lost(accounts, k)]
     ELSE rewards[k]]

RefundCommit(s) ==
  LET r       == req[s].what
      at      == req[s].at
      o       == sales[r.original]
      c       == o.customer
      left    == Remaining(r.original) - r.amount
      full    == left = 0
      status  == IF full THEN "refunded" ELSE "partially_refunded"
      out     == Disqualified(r.original, left)
      credits == LedgerSum("credit", {r.original})
      debits  == LedgerSum("debit", {r.original})
      undone  == LedgerSum("debit", Reversals(r.original))
      redone  == LedgerSum("credit", Reversals(r.original))
  IN  /\ req[s].kind = "refund"
      /\ o.status \in {"completed", "partially_refunded"}
      /\ left >= 0
      /\ r.ext \notin DOMAIN sales
      /\ Free(c)
      /\ \E wanted \in Share(credits, undone, r.amount, o.net, full),
            restored \in Share(debits, redone, r.amount, o.net, full) :
           LET reversed == Min({wanted, account[c].points})
           IN  /\ reversed > 0 => LotsSuffice(account[c].lots, at, reversed)
               /\ \E a \in RefundedAccount(account[c], reversed, restored, r.original,
                                           Row("refund", r.ext, Nobody, at)) :
                    LET accounts == [account EXCEPT ![c] = a]
                    IN  /\ \A f \in out :
                             /\ CanRecover(accounts[f], <<f, "friend">>, f, at)
                             /\ CanRecover(accounts[Referrer], <<f, "referrer">>, Referrer, at)
                        /\ account' = RecoverAll(accounts, out, r.ext, at)
                        /\ rewards' = RevokeRewards(accounts, out)
               /\ sales' = [InsertSale(r.ext,
                              [customer |-> c, net |-> r.amount, status |-> status,
                               source |-> "refund", original |-> r.original,
                               visit |-> "none", short |-> wanted - reversed])
                            EXCEPT ![r.original].status = status,
                                   ![r.original].visit =
                                     IF full /\ @ = "counted" THEN "reversed" ELSE @]
      /\ totalVisits' = [totalVisits EXCEPT ![c] = VisitsAfter(o, full)]
      /\ attribution' = [f \in Friends |->
                           IF f \in out
                           THEN [attribution[f] EXCEPT !.status = "reversed",
                                                       !.reversed = clock]
                           ELSE attribution[f]]
      /\ Finish(s)
      /\ UNCHANGED <<clock, archived>>

-----------------------------------------------------------------------------
(* processReferralRewards: the candidates are read on the pool, and each   *)
(* is paid in a transaction of its own that looks at neither status again. *)

PayBegin(s, k) ==
  /\ "pay" \in Kinds
  /\ req[s] = Idle
  /\ rewards[k].status = "pending"
  /\ rewards[k].available <= clock
  /\ req' = [req EXCEPT ![s] = [kind |-> "pay", what |-> k, at |-> clock, saw |-> Never]]
  /\ UNCHANGED <<clock, account, totalVisits, archived, sales, attribution, rewards>>

Beneficiary(k) == IF k[2] = "friend" THEN k[1] ELSE Referrer

PaidWithoutKey(a, k, at) ==
  Credit(a, RewardValue(k[2]), Row("referral", NoSale, k[1], at))

PaidOncePerAccount(a, k, at) ==
  IF \E f \in Friends : HasRow(a, "referral", f)
  THEN a
  ELSE Credit(a, RewardValue(k[2]), Row("referral", NoSale, k[1], at))

\* ON CONFLICT(idempotency_key): a reward already paid is not paid again.
Paid(a, k, at) ==
  IF HasRow(a, "referral", k[1])
  THEN a
  ELSE Credit(a, RewardValue(k[2]), Row("referral", NoSale, k[1], at))

PayCommit(s) ==
  LET k == req[s].what
      c == Beneficiary(k)
      f == k[1]
  IN  /\ req[s].kind = "pay"
      /\ clock < MaxClock
      /\ c \notin archived
      /\ Free(c)
      /\ clock' = Now
      /\ account' = [account EXCEPT ![c] = Paid(@, k, Now)]
      /\ rewards' = [rewards EXCEPT ![k].status = "issued"]
      /\ attribution' = IF \A x \in DOMAIN rewards :
                             x[1] = f => rewards'[x].status # "pending"
                        THEN [attribution EXCEPT ![f].status = "rewarded"]
                        ELSE attribution
      /\ Finish(s)
      /\ UNCHANGED <<totalVisits, archived, sales>>

-----------------------------------------------------------------------------
DeleteCustomer(c) ==
  /\ "delete" \in Kinds
  /\ c \notin archived
  /\ Free(c)
  /\ archived' = archived \cup {c}
  /\ UNCHANGED <<clock, account, totalVisits, sales, attribution, rewards, req>>

\* A request ends without effect: refused under the lock, failed or crashed.
Abort(s) ==
  /\ req[s] # Idle
  /\ Finish(s)
  /\ UNCHANGED <<clock, account, totalVisits, archived, sales, attribution, rewards>>

Tick ==
  /\ clock < MaxClock
  /\ clock' = Now
  /\ UNCHANGED <<account, totalVisits, archived, sales, attribution, rewards, req>>

\* The bound on time is reached and every request has ended.
Quiesce ==
  /\ clock = MaxClock
  /\ \A s \in Slots : req[s] = Idle
  /\ UNCHANGED vars

Next ==
  \/ \E s \in Slots, r \in PosReceipts : IngestBegin(s, r)
  \/ \E s \in Slots : IngestCount(s)
  \/ \E s \in Slots : IngestCommit(s)
  \/ \E s \in Slots, id \in DOMAIN sales, ext \in RefundIds :
        \E amount \in 1..sales[id].net : RefundBegin(s, id, ext, amount)
  \/ \E s \in Slots : RefundCommit(s)
  \/ \E s \in Slots, k \in DOMAIN rewards : PayBegin(s, k)
  \/ \E s \in Slots : PayCommit(s)
  \/ \E c \in Customers : DeleteCustomer(c)
  \/ \E s \in Slots : Abort(s)
  \/ Tick
  \/ Quiesce

Spec == Init /\ [][Next]_vars
-----------------------------------------------------------------------------
(* Properties *)

Time == 0..MaxClock

RowType ==
  [op : {"credit", "debit"}, amount : Nat \ {0}, after : Nat,
   src : {"receipt", "refund", "referral", "referral_reversal"},
   ref : SaleIds \cup {NoSale}, by : Friends \cup {Nobody}, at : Time, committed : Time]

SaleType ==
  [customer : Customers, net : Nat, source : {"pos", "refund"},
   status : {"completed", "pending", "refunded", "partially_refunded", "cancelled"},
   original : SaleIds \cup {NoSale}, visit : {"none", "counted", "reversed"}, short : Nat]

AttributionType ==
  [status : {"registered", "reward_pending", "rewarded", "reversed"},
   sale : SaleIds \cup {NoSale}, at : Time, committed : Time \cup {Never},
   reversed : Time \cup {Never}]

RewardType ==
  [status : {"pending", "issued", "reversed"}, available : Nat, lost : Nat]

(***************************************************************************)
(* The columns keep the ranges of the schema; in particular a refund never *)
(* restores more to a lot than was taken from it.                          *)
(***************************************************************************)
TypeOK ==
  /\ clock \in Time
  /\ \A c \in Customers : IsAccount(account[c], RowType, Time)
  /\ totalVisits \in [Customers -> Nat]
  /\ archived \subseteq Customers
  /\ DOMAIN sales \subseteq SaleIds
  /\ \A id \in DOMAIN sales : sales[id] \in SaleType
  /\ attribution \in [Friends -> AttributionType]
  /\ DOMAIN rewards \subseteq Friends \X Roles
  /\ \A k \in DOMAIN rewards : rewards[k] \in RewardType

(***************************************************************************)
(* For every customer the ledger explains total_points, the unspent lots   *)
(* add up to it, and each lot has lost exactly what is still redeemed:     *)
(* receipts, partial and full refunds, restored lots and recovered         *)
(* referral rewards keep the four tables in step.                          *)
(***************************************************************************)
AccountsAgree ==
  \A c \in Customers :
    LET a == account[c]
    IN  /\ LedgerExplains(a)
        /\ LotsBack(a)
        /\ \A t \in DOMAIN a.lots :
             a.lots[t].issued = a.lots[t].remaining +
               SumOver(a.redemptions, {p \in DOMAIN a.redemptions : p[1] = t})

(***************************************************************************)
(* Points given back by a refund return to the lots they came from: the    *)
(* branch of restoreBonusLots that makes a lot of its own is for legacy    *)
(* receipts only, so a refund never makes old points young.                *)
(***************************************************************************)
RestoredToTheirLots ==
  \A c \in Customers : \A t \in DOMAIN account[c].lots \ {0} :
    \E i \in 1..Len(account[c].ledger) :
      LET r == account[c].ledger[i]
      IN  r.at = t /\ r.op = "credit" /\ r.src \in {"receipt", "referral"}

Refunds(id) == {x \in Reversals(id) : sales[x].source = "refund"}

(***************************************************************************)
(* Refunds of a sale never exceed it, however many run at once, and its    *)
(* status says what they add up to.  A refund the POS sends as a receipt   *)
(* counts towards the sum, but Ingest does not touch the sale it names, so *)
(* with one of those the status may lag behind.                            *)
(***************************************************************************)
RefundsWithinSale ==
  \A id \in DOMAIN sales : sales[id].source = "pos" =>
    /\ Total([x \in Refunds(id) |-> sales[x].net]) <= sales[id].net
    /\ sales[id].status = "completed" => Refunds(id) = {}
    /\ Refunds(id) # {} /\ Reversals(id) = Refunds(id) =>
         sales[id].status =
           (IF AlreadyRefunded(id) = sales[id].net THEN "refunded" ELSE "partially_refunded")

\* The points the rows of one kind that name one of these sales moved.
Moved(op, src, ids) ==
  Total([c \in Customers |->
           LET l == account[c].ledger
           IN  Total([i \in {j \in 1..Len(l) : l[j].op = op /\ l[j].src = src /\ l[j].ref \in ids} |->
                        l[i].amount])])

(***************************************************************************)
(* Refunds never give back more points than were spent on their sale, nor  *)
(* take back more than it earned, and a full refund settles the sale:      *)
(* every point spent on it is back on the account, and every point earned  *)
(* by it was taken back, or was out of reach because the balance was too   *)
(* low (short).  The code counts every row of the receipts that name the   *)
(* sale as given or taken back: also those of a reversed referral, and of  *)
(* a completed receipt that names it (an exchange).                        *)
(***************************************************************************)
FullRefundSettles ==
  \A id \in DOMAIN sales : sales[id].source = "pos" /\ Refunds(id) # {} =>
    LET ids     == Reversals(id)
        spent   == Moved("debit", "receipt", {id})
        earned  == Moved("credit", "receipt", {id})
        missing == Total([x \in Refunds(id) |-> sales[x].short])
    IN  /\ Moved("credit", "refund", ids) <= spent
        /\ Moved("debit", "refund", ids) <= earned
        /\ sales[id].status = "refunded" =>
             /\ LedgerSum("credit", ids) >= spent
             /\ LedgerSum("debit", ids) + missing >= earned

(***************************************************************************)
(* total_visits counts the receipts with a visit that no full refund       *)
(* reversed: the visit is reversed once, with its sale.                    *)
(***************************************************************************)
VisitsCounted ==
  \A c \in Customers :
    totalVisits[c] = Cardinality({id \in DOMAIN sales :
                                    sales[id].customer = c /\ sales[id].visit = "counted"})

RowsOf(c, src, f) ==
  {i \in 1..Len(account[c].ledger) :
     account[c].ledger[i].src = src /\ account[c].ledger[i].by = f}

(***************************************************************************)
(* A referral reward is credited at most once and recovered at most once,  *)
(* and recovered only after it was credited, by no more than its value:    *)
(* overlapping workers and repeated refunds find the ledger keys taken.    *)
(***************************************************************************)
RewardPaidAndRecoveredOnce ==
  \A c \in Customers, f \in Friends :
    LET paid == RowsOf(c, "referral", f)
        back == RowsOf(c, "referral_reversal", f)
    IN  /\ Cardinality(paid) <= 1 /\ Cardinality(back) <= 1
        /\ \A j \in back : \E i \in paid :
             i < j /\ account[c].ledger[j].amount <= account[c].ledger[i].amount

(***************************************************************************)
(* A reward marked issued was credited to its beneficiary, and one still   *)
(* pending was not: no crash between the worker's statements shows.        *)
(***************************************************************************)
IssuedMeansPaid ==
  \A k \in DOMAIN rewards :
    /\ rewards[k].status = "issued" => RowsOf(Beneficiary(k), "referral", k[1]) # {}
    /\ rewards[k].status = "pending" => RowsOf(Beneficiary(k), "referral", k[1]) = {}

(***************************************************************************)
(* A reversed referral comes back to life only through a worker that read  *)
(* its candidates before the refund committed (it checks no status again). *)
(***************************************************************************)
RevivedOnlyByStaleWorker ==
  [][\A f \in Friends :
       attribution[f].status = "reversed" /\ attribution'[f].status # "reversed" =>
         \E s \in Slots : /\ req[s].kind = "pay"
                          /\ req[s].what[1] = f
                          /\ req[s].at <= attribution[f].reversed
                          /\ req'[s] = Idle]_vars

(***************************************************************************)
(* The referrer has more rewarded friends than max_rewards_per_customer    *)
(* only if two of the qualifying receipts overlapped (the count is not     *)
(* locked) or a reversed referral was revived.                             *)
(***************************************************************************)
LimitExceededOnlyByOverlap ==
  RewardLimit # NoLimit /\ Cardinality(Counted) > RewardLimit =>
    \/ \E f \in Counted : attribution[f].reversed # Never
    \/ \E f, g \in Counted : /\ f # g
                             /\ attribution[f].at <= attribution[g].committed
                             /\ attribution[g].at <= attribution[f].committed

(***************************************************************************)
(* A reversal receipt is immutable (docs/integration-core.md: refunds      *)
(* "create an immutable reversal receipt").                                *)
(***************************************************************************)
ReversalImmutable ==
  [][\A id \in DOMAIN sales : sales[id].source = "refund" => sales'[id] = sales[id]]_vars

(***************************************************************************)
(* Receipts, refunds and referral rewards keep the tables of every account *)
(* in step; however a sale is refunded, in parts, at once, by the POS and  *)
(* by hand, the refunds stay within it, its status says so and its visit   *)
(* is counted until a full refund.                                         *)
(***************************************************************************)
AccountsTrue ==
  /\ TypeOK
  /\ AccountsAgree
  /\ RefundsWithinSale
  /\ VisitsCounted

(***************************************************************************)
(* A full refund settles the points of its sale, however the shares of the *)
(* partial ones were rounded, and points given back go to the lots they    *)
(* came from.                                                              *)
(***************************************************************************)
RefundsSettle ==
  /\ RestoredToTheirLots
  /\ FullRefundSettles

(***************************************************************************)
(* A reward says issued exactly from its payment on, and a reversed        *)
(* referral is revived by a stale worker only.                             *)
(***************************************************************************)
ReferralsPaid ==
  /\ []IssuedMeansPaid
  /\ RevivedOnlyByStaleWorker
=============================================================================
