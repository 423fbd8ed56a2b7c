# Tappix Loyal: TLA+ models, model checking and proofs

Tappix Loyal is a multi-tenant loyalty platform: a Go API on PostgreSQL and
Redis (`apps/api`) with background workers, and a web application
(`apps/business`). Its core is money-like: bonus points, rewards of limited
stock, receipts and refunds from POS systems, referral payments. Those are
written by many handlers and workers at the same time, and what keeps them right
is row locks, unique keys and the order of a few SQL statements. This directory
models that core, and the integrations, logins and workers around it, in TLA+, checks
it with TLC on small instances, and proves most of the safety properties with
TLAPS for all instances.

Paths below are relative to `apps/api/internal/httpapi` unless they start
with another directory; `service.go` is `apps/api/internal/integration/service.go`.

## 1. Inventory

| Component | State | Operations | What is hard | What makes it correct |
|---|---|---|---|---|
| Bonus accounts (`service.go`, migration 000025) | `customers.total_points`, `bonus_ledger`, `bonus_lots`, `bonus_lot_redemptions` | credit, debit (FIFO over lots), restore after a refund | `now()` is the start of the transaction, so lots of overlapping transactions are not yet active | ledger explains the balance, lots back it, debits are attributed |
| Bonus desk (`customer_detail.go`, `operation_approvals.go`, `api.go`, `guest_engagement.go`, `loyalty_automation.go`) | accounts, visits, wheel spins, birthday events, approvals | manual bonus, request and decide approval, visit, spin, birthday worker, archive customer | checks made on the pool before the transaction; timestamps out of order; decisions at the same time | duplicates only by overlap, an approval executes once, visit limits hold |
| Rewards (`rewards.go`, `reward_expiry.go`, migration 000020) | definitions with stock, `customer_rewards`, `reward_transactions`, progress, timeline | issue, unlock by visit, reserve, redeem, cancel, sweep, archive definition | inventory races, retries with keys, SKIP LOCKED batches, reservations that run out | stock never exceeded, closed rewards stay closed, trail explains status, overdue rewards are swept |
| Receipts and refunds (`service.go`, `canonical_transactions.go`) | `sales_transactions`, visits, accounts | ingest, partial and full refund | duplicate and out-of-order deliveries, rounding of shares, several refunds at once | refunds stay within the sale and settle it, points return to their lots |
| Referrals (`service.go`, `loyalty_automation.go`) | `referral_attributions`, `referral_rewards` | qualify, pay (hourly worker), reverse on refund | a worker with candidates read earlier races a refund; the limit is an unlocked count | paid once, recovered once, over the limit only by overlap |
| Outbound webhooks (`integration_worker.go`, `integration_hub.go`) | `outbox_events`, `webhook_endpoints`, `webhook_deliveries` | create an endpoint, append, fan out, claim, post, record, endpoint health | no lease: a worker that dies leaves its claim; the answer is lost after the endpoint has the event; health is written after the delivery | a work queue with bounded attempts; everything settles, unless its worker was lost |
| Inbound webhook (`integration_hub.go`) | `webhook_deliveries`, receipts | register, ingest, record | a retry of a failed delivery is answered as a duplicate | what was accepted is stored or visibly failed |
| Poster (`poster_sync.go`, `poster_worker.go`, `integration/poster.go`) | `integration_jobs`, `integration_connections`, receipts | webhook, import, daily job, job steps, retry by staff, refund | events out of order, a job that fails between its steps, refunds on both sides | succeeded means applied; a return stands |
| Analytics projection (`analytics_projection_worker.go`) | jobs, `analytics_daily_facts` | enqueue, claim, rebuild under an advisory lock | rebuilds overlap and take their snapshot at their first statement | the projection catches up and never goes back |
| Staff sessions, reset, MFA (`auth.go`, `password_recovery.go`, `security.go`, `workspaces.go`) | Redis: `refresh:`, `sessionmeta:`, `sessions:`, reset links, challenges; `users` | login, MFA, refresh, switch, logout, list, end, forgot, reset, set up, enable, disable | every handler is several Redis calls whose errors are ignored | a secret is used once, sessions can be ended |
| Guest login (`whatsapp_otp.go`, `portals.go`) | Redis: the code's record, PIN counter and lock | request, verify, PIN | read, increment, write back with a TTL read in between | guessing is bounded |
| Registration (`portals.go`, `api.go`, `referrals.go`, `guest_engagement.go`) | `customers`, `referral_attributions` | register, create, archive, click | count before insert, clicks chosen without a lock | one card per phone, the plan's limit, one attribution |
| Employees (`operations.go`) | `users`, `company_memberships` | update, archive | two statements, the second one's error ignored | access follows the account |
| Report schedules and runs (`reports.go`) | `report_schedules`, `report_runs` | save, delete, plan, send now, recover, claim, deliver, finish | a slow run is taken over after two minutes; delivery fails half way | each due time answered once, runs end, sent means received |
| Campaigns (`campaigns.go`) | `marketing_campaigns`, `campaign_recipients` | send | check and mark in two statements on the client's context | mailed once, the status tells the truth |
| Automations (`loyalty_automation.go`, `whatsapp_otp.go`) | `campaign_automation_runs` | collect, claim by upsert, send, record, provider's report | a claim goes stale after five minutes, sent or not | one message per trigger, bounded attempts |
| Bookings (`extensions.go`) | `bookings`, the site's switch | book, update | reads the status, writes without it | one booking per slot, cancelled stays cancelled |
| Partnership offers (`partnerships.go`) | offers, redemptions, points | arrange, redeem, refund | the receipt is not locked | limits hold exactly, a credit per redemption |
| Subscriptions and limits (`billing_admin.go`, `entitlements.go`, `subscription_worker.go`, `management.go`) | `subscriptions`, `company_modules`, counted rows | replace, expire, admit, count, add | which row is newest; count before insert | the live subscription is the one in force |
| Dashboards, administration, files, UI | single rows | read, CRUD | - | - |

The components share state through the database only: every handler and worker
writes the same customer row under `SELECT ... FOR UPDATE`, `createVisit` runs
the reward rules inside its own transaction, `Ingest` and `Refund` do the same
with the referral program, and the outbox is written with them.

## 2. Plan

Done, in this order: `BonusLots` and `BonusDesk`; `RewardStock` and
`RewardDesk`; `Receipts`; the integrations (`WorkQueue`, `Webhooks`,
`InboundWebhook`, `PosterSync`, `Projection`); access (`Sessions`, `GuestLogin`,
`Registration`, `Employees`, `SlotBookings`, `Partnerships`); the workers
(`ReportSchedules`, `ReportRuns`, `Campaigns`, `Automations`, `Subscriptions`).

Proved since: the bonus desk, the reward desk, receipts and referrals, the
integrations with both refinements of `WorkQueue`, the workers, sessions and the
rest of access (section 5).

With `RefundsSettle` of `Receipts` every safety property of the passing runs is
proved; liveness is checked by TLC. What could come next is in section 6.

No module declares a RECURSIVE operator.

## 3. Modules

| Module | Models | Composed from |
|---|---|---|
| `BonusLots` | one bonus account as operators: credit, debit, consume, restore | - |
| `RewardStock` | one reward definition as operators: issue, visit rule, trail | - |
| `BonusDesk` | all handlers that change a balance outside the POS | `BonusLots`, `RewardStock` |
| `RewardDesk` | issuing, unlocking and life of rewards, sweepers | `RewardStock` |
| `Receipts` | ingest, refund, referral qualification, payment, reversal | `BonusLots` |
| `WorkQueue` | what a table used as a work queue promises (abstract) | - |
| `Webhooks` | outbox, fan-out, deliveries, endpoint health; implements `WorkQueue` | - |
| `InboundWebhook` | the generic inbound webhook | - |
| `PosterSync` | the Poster connection and its job worker; implements `WorkQueue` | - |
| `Projection` | analytics jobs and rebuilds | - |
| `Sessions` | staff sessions, reset links, MFA | - |
| `GuestLogin` | one-time codes and PINs | - |
| `Registration`, `Employees`, `SlotBookings`, `Partnerships` | the component of that name | - |
| `ReportSchedules`, `ReportRuns`, `Campaigns`, `Automations`, `Subscriptions` | the component of that name | - |
| `MCBonusDesk`, `MCRewardDesk`, `MCReceipts` | symmetry and the receipts of the instances | the module of the same name |
| `MCIntegrations`, `MCAccess`, `MCWorkers` | one instance for several components (section 4) | those components |
| `BonusLots_proofs` | lemmas about sums and one account | `BonusLots` |
| `BonusDesk_proofs`, `RewardDesk_proofs`, `Receipts_proofs` | theorems | the module of the same name |
| `Integrations_proofs` | theorems | `Webhooks`, `InboundWebhook`, `Projection`, `PosterSync` |
| `Workers_proofs` | theorems | `Campaigns`, `Automations`, `Subscriptions`, `ReportRuns`, `ReportSchedules` |
| `Sessions_proofs` | theorems | `Sessions` |
| `Access_proofs` | theorems | `Employees`, `SlotBookings`, `Partnerships`, `GuestLogin`, `Registration` |

`BonusLots` and `RewardStock` have no variables. They are to the state machines
what `service.go` and `issueRewardTx` are to the handlers: shared code that runs
inside somebody else's transaction.

### How a handler becomes actions

A handler is two actions (`BonusBegin`/`BonusCommit`, `RefundBegin`/`RefundCommit`).

* *Begin* is input validation, the reads made on the pool outside the
  transaction, and `BEGIN`. It fixes `now()`: every `created_at`, `issued_at`
  and `activates_at` of the transaction is this moment. The clock advances with
  every `BEGIN`, so timestamps differ.
* *Commit* is everything done under the row lock, up to and including `COMMIT`.
  PostgreSQL runs at READ COMMITTED, so these statements see all earlier
  commits, and nobody else can write the locked rows before the commit: the
  statements are one step. Its guard is the conjunction of the handler's
  refusals.
* *Abort* ends a request without effect: a refusal under the lock, a lost
  connection, a deadlock victim, a crash. All writes are in one transaction, so
  a crash leaves nothing behind.

What is read between `BEGIN` and the lock and used after it gets a step of its
own: the count of a referrer's rewarded friends (`IngestCount`). The referral
worker reads its candidates in `PayBegin` and pays each in a transaction that
begins later, in `PayCommit`.

Handlers without a transaction, and all that talk to Redis, a mail server or
another company's endpoint, are split further: one action per statement or call
whose effect others can see. Between two of them the client may disconnect (its
context ends and with it every later statement), the process may die, or a call
may fail with its error ignored, where the code ignores it. Each of these faults
is bounded by a constant (`MaxSenderFaults`, `MaxLost`, `MaxCourierFaults`, ...).
A lost worker comes back idle: its loop is started again with the process.

### State and code

* *Account* (`BonusLots`): `points` is `total_points`; `ledger` the rows of
  `bonus_ledger` (`after` is `balance_after`, `ref` the id in the row's key or
  its `sales_transaction_id`, `by` its `created_by` or, in `Receipts`, the
  friend whose referral it belongs to, `committed` is history: the clock at
  commit); `lots` by the timestamp of the transaction that issued them;
  `redemptions` by lot and debit row, with what is still redeemed.
* *Stock* (`RewardStock`): `issued` is `inventory_issued`; `rewards`, `trail`
  and `progress` are `customer_rewards`, `reward_transactions` and the visit
  rule's progress; `timeline` the reward events on the customer's timeline.
* *Requests*: `req[s]` is what the handler in slot `s` has in its local
  variables. There are as many handlers in flight as slots.
* *Sales* (`Receipts`): a row per external id. `original` is
  `original_transaction_id`, `source` tells receipts from refunds, `visit` is
  the linked visit, `short` is history: earned points a refund wanted to take
  back and could not, the balance being too low.
* *Workers and requests* of the other modules are records with a program counter
  `at` and the handler's local variables (`sender`, `runner`, `analyst`,
  `courier`, `planner`, `clerk`, `automaton`, `req`, `guest`, ...).
* *History variables* record what the code keeps nowhere and a property needs:
  what an endpoint, a recipient or a customer really got (`received`, `copies`,
  `mailed`), and which overlap or loss happened (`unsent`, `orphaned`,
  `overtaken`, `doubtful`, `mishaps`, `overlaps`, `stale`, `past`). An overlap is
  recorded when it happens, never derived from its consequence.
* Archived customers, definitions switched off or deleted, and the sweepers'
  `now()` are variables of their own.

`PROJECT.json` maps every definition to the lines it translates.

Data is abstracted to what properties tell apart: amounts are small numbers,
customers and staff are names, descriptions and other texts are left out.
`int(float64(points) * ratio)` in `Refund` is the floor of the share, or one
less where the share is whole, because the floating-point product can fall below
a whole number (`ProRata`).

Definitions named after a mistake (`CreditWithoutLot`, `QualifiesOneMore`) are
deliberately wrong variants of the definition that follows. No specification
uses them: each is put in the place of the correct one to see that a property
notices, and `PROJECT.json` lists under `mutants` which property that is.

## 4. Runs

Passing:

| Run | Instance | Properties | Shows |
|---|---|---|---|
| `desk_staff` | two requests in flight, an employee and a manager, approvals, archiving | `TypeOK`, `LedgerExplainsBalance`, `LotsExplained`, `BonusRepeatOnlyByOverlap`, `ApprovalExecutedOnce`, `ArchivedFrozenForStaff` | the four tables of an account agree after every commit; the 30-second check misses only overlapping requests; an approval executes once and in time; archiving stops staff |
| `desk_guest` | two requests in flight: visits, spins, birthday workers | `VisitsExact`, `GiftsOnce` | windows hold though transactions commit out of order; each round of visits is rewarded once; gifts are given once |
| `reward_issue` | two customers, stock of two, cooldown, non-repeatable, with and without keys | `InventoryNeverExceeded`, `HeldOnce`, `CooldownRespected` | manual issues and visit rules cannot oversell or hand out twice |
| `reward_life` | one reward, both endpoints, keys, a sweeper | `TrailTrue`, `ClosedForGood` | reserve, redeem, cancel, expire and sweep in any order leave a trail that explains the status |
| `reward_sweep` | fair worker, batch of one, two rewards | `OverdueSwept` (liveness) | nothing overdue is passed over for ever |
| `receipts_money` | one friend, receipts that earn, spend and qualify, a preliminary receipt, a refund sent as a receipt, an exchange (a completed receipt that names the first one), two refunds, the worker | `AccountsTrue`, `RefundsSettle`, `RewardPaidAndRecoveredOnce` | the tables of an account agree, refunds stay within the sale and settle it to the point; what is spent returns to the lots it came from |
| `receipts_referral` | two friends of one referrer, limit one, a refund, workers, archiving | `LimitExceededOnlyByOverlap`, `ReferralsPaid` | which races can exceed the limit or revive a reversed referral, and that nothing else can |
| `integrations` | two events, one endpoint, two attempts; two notices; one receipt, an import, two days; two sources; two workers of each kind, one of them may be lost | `DeliveriesAreAQueue`, `JobsAreAQueue` (refinement), `DeliveriesAccounted`, `JobsAccounted`, `AcceptedOrVisible`, `ReturnsStand`, `ProjectionCurrent`, `WorkSettles` (liveness) | both tables are work queues; what waits is settled unless a worker dies with it, which is the one way anything is left behind; returns and facts never go back |
| `access` | two requests of each kind, three tokens, one reset link, two MFA secrets, two codes, a limit of one card, two slots, an offer of two | `SecretsUsedOnce`, `SessionsEnd`, `GuestLoginBounded`, `CardsInOrder`, `AccessFollowsAccount`, `BookingsKept`, `RedemptionsExact` | what check-then-act on Redis and in separate statements guarantees, and exactly which overlaps it does not cover |
| `workers` | two workers of each kind, one schedule edited three times, one run with two recipients, three customers with one held out, one trigger, two plans | `DueTimesAnswered`, `RunsAccounted`, `CampaignAccounted`, `MessagesAccounted`, `SubscriptionInForce`, `WorkEnds` (liveness) | how often anything is sent, that it ends, and what the stored status is worth then |

A property that sums up a component is a conjunction of parts, each with a name
and a comment of its own in the module: `LotsExplained` is `LotsBackBalance`,
`DebitsAttributed` and `ShortageNeedsOverlap`, `SessionsEnd` is
`ResetEndsOldSessions`, `EndedSessionsStayEnded` and `LiveSessionsListed`, and so
on. `PROJECT.json` has a mutant for every part.

*The refinement.* `WorkQueue` says of an item that it is put once, taken by one
worker, finished, given back or buried after a bounded number of tries, and never
worked on again once finished; an operator may ask for a fresh set. `Webhooks`
maps a delivery to an item by its status and attempts. `PosterSync` counts the
attempt at the claim and not at the end, so a job in processing maps to one try
fewer. Neither needs a lease for this: what is lost with a worker stays taken,
which `WorkQueue` allows and `WorkSettles` excuses.

Violations (each states what a document, comment or test of the repository says;
the findings in `PROJECT.json` quote it):

| Run | Property | What the code does |
|---|---|---|
| `poster_daily` | `DailyReconciliation` | every Poster job counts as a synchronisation, so a connection with regular webhooks is never reconciled |
| `receipts_reversal` | `ReversalImmutable` | the receipt of a partial refund can be refunded itself |

Three more of that kind are stated in the modules and are false of the code. They
are in no run:

* `BonusDesk!ResubmissionAppliedOnce`: `customerBonus` stores the client's
  `idempotencyKey` only with an approval; on the direct path a resubmission after
  the 30-second window is applied twice (two `BonusBegin`/`BonusCommit` pairs with
  one key).
* `RewardDesk!ExpiredOnTimeline`: a staff request that meets an overdue reward
  expires it without the `reward.expired` event (`rewards.go:447`), and no sweep
  sees it afterwards.
* `RewardDesk!RedeemedAnswerTrue`: such a request stores its key on the expired
  transition, and a retry with the key is answered "redeemed" (`rewards.go:435`).

Properties of the form "only by overlap" state exactly how far an unlocked check
can be trusted: they say that the only way to break the rule is two transactions
in flight at the same time, and the repository's own limits (a spin a week,
rewards per referrer, a bonus in 30 seconds) hold otherwise.

`FullRefundSettles` compares two sums that a reader may expect to be of the same
rows. What a refund still has to give back and take back is computed in the code
from *all* rows of the receipts that name the sale: also the debits that reversed
a referral reward, of any customer, and the rows of an exchange. Points the sale
earned or was paid with then stay where they are. The bound on what refunds move
is therefore stated of refund rows (`Moved`), and the settlement of all rows
(`LedgerSum`): of refund rows alone it is false.

### Bounds, and why they are enough

* Two slots: every race in this code is between two transactions (a check before
  a lock against a commit; a stale candidate against a refund). The theorems
  cover any number for the properties they state.
* Windows, validity, cooldown and delay are one to six clock units, small enough
  that behaviours cross them and large enough that two operations fit inside.
* `MCIntegrations`, `MCAccess` and `MCWorkers` put several components in one
  instance. The components share no row, so a behaviour that interleaves two of
  them is two behaviours of one each: the variable `part` picks the component (or
  a group of its operations) a behaviour exercises, the others stay in their
  initial state, and the state spaces add up instead of multiplying. The large
  components are taken in overlapping groups. `Sessions`: ending tokens, resets,
resets against logouts (two tokens, nothing expires), MFA, each together with
logins and some also with refreshes and workspace switches. `PosterSync`: lost workers, retries, imports, the cashier, the daily
  jobs. An interleaving of two groups that share no group is not explored.
* Attempts: two or three instead of three to eight, so that first, middle and last
  differ. Three tokens: one exchanged twice, or two sessions and an exchange.
  Faults: one per behaviour.
* Back-off, TTLs and leases are untimed: what may expire or be taken over may be
  so at any moment. That allows more than the clock would, so the safety results
  carry over; `DailyReconciliation` is the one property about time, and its run
  has a clock.
* `MaxClock` bounds time and with it the number of transactions (each `BEGIN`
  takes a tick): 4 to 7. In `receipts_money` five are enough for two purchases,
  a partial and a final refund of one and a refund of the other, or for a
  purchase, payment, disqualifying refund, stale payment and final refund.
* Amounts are 1 to 3: partial consumption of a lot, a debit over two lots, a
  share that rounds down and a balance too low to take everything back all occur.
* `Kinds` picks the handlers of an instance; together the runs take every action.
* `RefundReversals = FALSE` in the passing runs of `Receipts`: clients refund
  sales and not refunds, as the Poster worker makes sure of
  (`poster_worker.go:102`). `receipts_reversal` shows what happens otherwise.
* Slots are permuted as symmetric sets; no action tells one from another. The
  liveness run uses no symmetry.
* At the end of time `Quiesce` stutters, so that deadlock checking stays on:
  every other state in which nothing can happen is an error.

### Fairness

`reward_sweep`: the worker's sweep begins under weak fairness
(`StartRewardExpiryWorker` runs on a ticker for as long as the process lives) and
commits under strong fairness: a database error loses one tick, not all of them.
Requests in flight end, weakly fair, because their context does and a row lock
does not outlive its transaction. Staff are under no obligation to sweep, no
handler has to begin, and time need not pass. `SKIP LOCKED` may pass over a row
as long as a staff request works on it.

`integrations` and `workers`: the steps of every worker's loop are weakly fair,
since `StartIntegrationWorkers`, `StartAnalyticsProjectionWorker`,
`StartReportWorker`, `StartAutomation` and `StartSubscriptionLifecycleWorker`
loop until the process ends and a restart begins them anew. Strong fairness is
assumed twice: of the advisory lock, which PostgreSQL grants in the order of
waiting, and of an automation's claim, whose five minutes are over some time.
Nothing is assumed of endpoints, mail servers, Poster, clients, staff or faults:
an attempt may always fail.

## 5. Proofs

Proved with TLAPS for every value of the constants (any number of slots, workers,
requests, customers, items, any amounts, windows and limits):

| Theorem | Says |
|---|---|
| `BonusDesk_proofs!TypeCorrect` | `TypeOK`: balances and lots never negative, no lot above what was issued |
| `BonusDesk_proofs!BalanceExplained` | `LedgerExplainsBalance` |
| `BonusDesk_proofs!RepeatsOverlap` | `BonusRepeatOnlyByOverlap` |
| `BonusDesk_proofs!ApprovalsExact` | `ApprovalExecutedOnce` |
| `BonusDesk_proofs!ArchivedAccountStands` | `ArchivedFrozenForStaff`, an action property |
| `BonusDesk_proofs!GiftsGivenOnce` | `GiftsOnce` |
| `BonusDesk_proofs!VisitsAreExact` | `VisitsExact` |
| `BonusDesk_proofs!LotsAreExplained` | `LotsExplained` |
| `Receipts_proofs!AccountsAreTrue` | `AccountsTrue`: the tables of every account agree, refunds stay within their sale, visits are counted |
| `Receipts_proofs!FullRefundsSettle` | `FullRefundSettles`: no refund moves more points than its sale did, a full one settles it, also where refunds are refunded |
| `Receipts_proofs!RefundsAreSettled` | `RefundsSettle`: this, and points given back return to the lots they came from, where no refund is refunded |
| `Receipts_proofs!PaidAndRecoveredOnce` | `RewardPaidAndRecoveredOnce` |
| `Receipts_proofs!ReferralsArePaid` | `ReferralsPaid`, an action property among its parts |
| `Receipts_proofs!LimitHoldsApart` | `LimitExceededOnlyByOverlap` |
| `RewardDesk_proofs!RewardTypes` | `TypeOK` |
| `RewardDesk_proofs!InventoryKept` | `InventoryNeverExceeded` |
| `RewardDesk_proofs!ClosedStaysClosed` | `ClosedForGood`, an action property |
| `RewardDesk_proofs!HeldAtMostOnce` | `HeldOnce` |
| `RewardDesk_proofs!CooldownKept` | `CooldownRespected` |
| `RewardDesk_proofs!TrailIsTrue` | `TrailTrue` |
| `Integrations_proofs!DeliveriesAccountedFor` | `DeliveriesAccounted` |
| `Integrations_proofs!DeliveriesImplementQueue` | `DeliveriesAreAQueue`: the deliveries refine `WorkQueue` |
| `Integrations_proofs!AcceptedNoticesFound` | `AcceptedOrVisible` |
| `Integrations_proofs!ProjectionIsCurrent` | `ProjectionCurrent`, an action property among its parts |
| `Integrations_proofs!PosterJobsAccountedFor` | `JobsAccounted` |
| `Integrations_proofs!PosterReturnsStand` | `ReturnsStand`, an action property |
| `Integrations_proofs!PosterJobsImplementQueue` | `JobsAreAQueue`: the Poster jobs refine `WorkQueue` |
| `Workers_proofs!ReportRunsAccountedFor` | `RunsAccounted`, an action property among its parts |
| `Workers_proofs!DueTimesAreAnswered` | `DueTimesAnswered` |
| `Workers_proofs!CampaignIsAccountedFor` | `CampaignAccounted` |
| `Workers_proofs!MessagesAreAccountedFor` | `MessagesAccounted` |
| `Workers_proofs!SubscriptionsAreInForce` | `SubscriptionInForce` |
| `Access_proofs!AccessFollows` | `AccessFollowsAccount` |
| `Access_proofs!BookingsAreKept` | `BookingsKept`, action properties among its parts |
| `Access_proofs!RedemptionsAreExact` | `RedemptionsExact`, an action property among its parts |
| `Access_proofs!GuestLoginIsBounded` | `GuestLoginBounded` |
| `Access_proofs!CardsAreInOrder` | `CardsInOrder` |
| `Sessions_proofs!SecretsAreUsedOnce` | `SecretsUsedOnce` |
| `Sessions_proofs!SessionsAreEnded` | `SessionsEnd` |

They rest on the named assumptions of the modules, which TLC evaluates in every
run: constants are numbers of the right sign and sets of numbers; the sets of
workers, requests, endpoints and events are finite where a property or an
invariant counts or adds over their members (`Senders`, `Couriers`, `Applicants`,
`Creators`, `Friends`); the referrer is not among the friends (registration
attributes nobody to himself, `portals.go:104`);
the value that stands for "none" is not a member of the set it is added to; and
a receipt's id is not the word that tells a Poster job's kind.

*The bonus desk.* `BonusLots_proofs` shows once what `Credit` and `Debit`
preserve for any account: its shape, and that appending a row whose
`balance_after` follows from the current balance keeps the ledger an explanation
of it. The inductive invariant `IInv` is `TypeOK`, `RequestsValid` and
`LedgerExplainsBalance` together: the type invariant alone is not inductive,
because the row a commit writes has the right type only if the request in flight
was validated when it began. `RepeatsOverlap` needs a strengthening about
requests in flight: any equal operation that is in the ledger, inside the
request's window and missed by its unlocked check committed after the request
began (`MissedOnlyLaterCommits`, the first half of `RepeatInv`).
`ApprovalsExact` needs that every ledger row of an approval
names an approval that exists, so that a new one meets no row under its id
(`ApprovalRowsKnown`, in `ApprovalInv`). `GiftsGivenOnce` has a strengthening of
the same kind for spins (`SpinInv`); birthdays need none but that a year's row is
written by the statement that looks for it (`BirthdayInv`). For `VisitsAreExact`
the counts and the newest visit of `createVisit` are read under the row lock, so
the limits follow from the visits on record alone once these are known to have
begun before now and at different times (`VisitsApart`, `VisitsBegun`); a round's
reward is issued in the commit that completes it (`RoundsRewarded`).

*Lots and sums.* The balance, the lots and the redemptions are related by sums,
and the library states no fact about `MapThenSumSet`. `BonusLots_proofs` therefore
begins with a small theory of `SumOver`: induction over a finite set for a *set*
of its subsets (an instance of well-founded induction that needs no operator
parameter), from it that the order of addition does not matter (`SumAny`), and
from that the facts the proofs cite (`SumTake`, `SumSame`, `SumAdded`,
`SumSplits`, `SumSupport`, `SumReindexed`, `SumGrouped`). `CreditKept`,
`DebitKept` and `RestoreKept` say that an account whose lots add up to its
balance and have each lost exactly what is still redeemed from them stays
one (`Kept`), whoever credits, debits or restores; the desk, which never gives a
debit back, also keeps every debit attributed in full (`Backed`). A credit needs
for this that no lot has its timestamp yet, which `StampsFresh` says of every
request in flight.
`ShortageNeedsOverlap` is then a fact about states: lots that add up to an
amount have a FIFO split of it (`FifoExists`, by induction on the amount), so a
shortage means that part of the balance is in lots younger than the debit.

*The reward desk.* Every step is classified once (`StepCases`): it leaves the
stock alone, grants one reward, moves one reward along a legal transition, or
sweeps. Each theorem is then proved from the cases. `HeldAtMostOnce` and
`CooldownKept` need only the guard of `issueRewardTx`, because it is evaluated
under the lock on the definition: the proofs show that no state read before that
lock is relied on. They hold for any number of sweepers, the worker and staff at
the same time, which the run `reward_life` (one sweeper) leaves out.
`TrailIsTrue` compares a step with the rows it adds: for each reward a step adds
one row that says its new status, or none and leaves it alone, or none because
the row's key is on the trail (`TrailStep`). That only a reservation's key can be
met there, never a redemption's or a cancellation's, needs to know of every key
on the trail which transition it stands for, and of every request in flight that
its key is its own (`KeysRecorded`, `RequestKeys`). A sweep's two blocks of rows
are shown to list each reward once by counting the smaller ids (`RanksList`).

*Receipts.* `Books` is the inductive invariant of the accounts: the accounts are
`Kept` and explained by their ledgers, the sales have their refunds within them
(`SalesOK`), every request in flight names what it read, and none of them has the
timestamp of a lot that exists (`StampsFresh`), so that neither an earned lot nor
the one a refund opens for points it cannot give back replaces another. A refund
writes an account up to three times (restore, take back, recover a referral
reward); each write is shown to keep the account, with `RestoreKept` for the
first. `Referrals` is about the rows of the referral program: each names a reward
that is no longer pending, there is one row for a key, a payment is the reward's
value, and a recovery comes after it and is at most that (`RowsTrue`,
`OneRowPerKey`). It does not matter how many workers hold the same stale
candidate: the reward's status is read again under the lock on its row.
`ReversalsFinal` is why only a worker in flight revives a referral. For the limit,
`Limits` says that a receipt past its count has counted every friend who was
rewarded before the receipt began and still stands; of friends whose receipts
were apart the last one has counted all others, so they are no more than the
limit. Nothing bounds the number of receipts, refunds, friends, workers or slots,
and the theorems hold with `RefundReversals` true as well, but for
`RestoredToTheirLots`: the refund of a refund finds no redemption to restore and
makes a lot of its own, so `RefundsAreSettled` assumes that there is none.

*The points of a sale.* `Points` is the invariant behind `FullRefundsSettle`. The
statement itself is not inductive: whether the last refund makes up for the
rounding of the earlier ones depends on how much those gave and took. The
invariant says of every sale not yet fully refunded that its refunds gave back
and took back at most their part of the amount (`SaleBalanced`, with
`WithinPart`: points times net against total times refunded, so that nothing is
divided), and for every customer that what is still redeemed for the sale plus
what refunds gave back is what was spent on it (`SpentStands`). From the first
follows that the next share fits, rounded up or down, and that the share of a
full refund is all that is left (`SharesOfSale`), from the second that `restoreLots` finds enough redemptions to restore
and no lot is made. The handlers are described once by the rows they append and
the sale these name (`NamedRows`); the sums over all customers' ledgers change by
exactly that (`Weight`, `Marked`). Products of two unknowns are kept inside
`WithinPart` and `ShareFits`, in lemmas of their own (`TimesKeeps`).

*Work queues.* `Webhooks` and `PosterSync` have no lease, so the heart of both
invariants is who holds a claim: a row in processing has exactly one worker, or
is remembered as lost with its worker, and a worker at a row's later steps finds
it in processing (`HoldersExact`, `JobsHeld`). The queue properties follow step
by step: with a holder, each write of a result is a `Finish`, `GiveBack` or
`Bury` of one item that was taken, and every other step stutters. That attempts
cover copies (`ReceiptsExact`) needs to know where each worker is, and the
endpoint's error status needs a count: failures counted, plus those recorded on
a delivery and not yet counted, are at most the attempts recorded
(`FailuresBacked`), because `failWebhookDelivery` writes the delivery first.

*Poster.* `EventsTrue` says what a worker may rely on between its calls: past the
sale's statements its event is applied, and one about to refund asks for all that
was left when it looked. That what it looked at may be stale does no harm because
every step only lets sales grow (`SalesGrow`): a refund meanwhile makes the
amount too large and is refused, and no late event makes a return a sale again.
`SalesGrow` is proved of every step with the invariant, and is `ReturnsStand`.

*The projection.* The rebuild takes the company's advisory lock before its
snapshot. `ReadsCurrent` says that what it has read contains the projection it
will replace; this is kept because whoever rebuilds holds the lock (`LockExact`).

*Reports.* A run that was never taken from a worker at it has one worker
(`HeldByOne`), so its attempts are bounded and nobody writes over its outcome.
Copies stay within the attempts for runs taken over, too: each worker still
delivering to a recipient has an attempt of its own behind it (`CopiesBacked`,
with the number of such workers). A schedule's due time that two workers did not
hold together is queued by one, which then moves the schedule on (`DueInv`).

*Campaigns, automations, subscriptions.* What holds whoever overlaps (`RowsTrue`,
`IdsApart`, `OneLive`) is kept apart from what holds while nothing overlapped:
then one request is at work and knows the state it writes to (`Alone`,
`TriggerInv`, `LiveIsNewest`, `RoomLeft`). For the campaign's final status the
request's counters have to be those of the rows (`Counted`); the counters of two
requests are not, which is the exception the property names.

*Access.* `Partnerships` is the module whose lock excludes everybody else: one
request at most is past the lock, and the counts it read still hold at its
insert (`RedeemersExact`), whence limits without exception. `GuestLogin` has no
lock: a handler's copy of the record is the record, but for the attempt it has
counted itself, as long as nobody wrote meanwhile (`CopiesFresh`); for a code
that no such write concerns, attempts are counted (`TriesOf`). In `Registration`
a click is given to one card because it is chosen and taken in the transaction
of the insert (`Attributions`); the limit is the "only by overlap" kind
(`RoomKept`).

*Sessions.* Redis has no locks, so the invariant says what each handler may rely on
between two of its commands, unless it knows it was crossed. A link or a token
that no two requests read together has one holder, and once it was used it is
gone, or its holder is about to take it away (`LinksOnce`, `TokensOnce`). A
revocation's list of members holds every key that will be there when it deletes,
but for the excused ones (`ListInv`): every session added meanwhile is excused.
What is about to be issued, and was not crossed, goes back to the present
password, or a reset is still to revoke it (`ResetInv`). The attempt to prove
the second of these found that a logout half way, whose token is off the list and
still has its key, escapes the revocation of a reset: the instances had never let
the two overlap. `RevokeMembers` now excuses it, and a group of instances of its
own (section 4) shows it.

Only model-checked: liveness (`OverdueSwept`, `WorkSettles`, `WorkEnds`), as
fairness and `ENABLED` are beyond the prover. Some leaves of the proofs name
their prover and a longer time (`SMTT(30)`, `ZenonT(30)`), so that they do not
depend on the speed of the machine.

## 6. Not modelled

* Dashboards, exports, administration, files, notifications, observability and
  the web application: read-only queries, single-row CRUD and input and output.
* Poster's client import and the connection wizard; the portal's reads; single
  modules switched by hand (`updateModule`); creating employees.
* The analytics job and the outbox row that `Ingest` and `Refund` write are
  inputs of `Projection` and `Webhooks`; customer events on the timeline are left
  out where no property is about them.
* Signatures, encryption, tokens' formats and the wording of messages. Access
  tokens live until they expire, whatever happens to their session
  (`switchWorkspace` accepts them, and `Sessions` models that).
* `expireBonusLots`: no code sets `expires_at` of a lot, so nothing expires.
* Lock order and the connection pool: `createVisit` and `issueReward` lock the
  customer and the definition in opposite orders, and `createVisit` takes a
  second connection inside its transaction. A deadlock victim is an `Abort`
  here; the hazards are listed in `PROJECT.json`.
* Tenancy: one company. Every statement filters by `company_id` and no row of
  one company refers to another's, except for partnership offers.
* Sandbox receipts, receipts without a customer, items and payments: they touch
  no balance. Matching a customer by phone and a branch by its mapping is the
  input of `Ingest` (`customer`, `mapped`).
* The monthly referral limit, a second count with the shape of the per-referrer
  one.
* What one request alone shows, and a unit test reaches: a visit rule of 0 points
  whose ledger row the CHECK refuses (`api.go:557`), an approval key used again
  with another amount (`operation_approvals.go:27`), a refund refused because the
  paid referrer was archived (`service.go:444`).
* The tolerance of 0.0001 in `Refund`: amounts are whole units here.
