----------------------------- MODULE PosterSync ------------------------------
(***************************************************************************)
(* Receipts of a Poster account. posterWebhook stores an event and queues  *)
(* a job for it in one statement; syncIntegrationConnection,               *)
(* startIntegrationReconciliation and the hourly queuePosterDaily queue    *)
(* imports. The worker of every replica claims one job at a time           *)
(* (processNextPosterJob), asks Poster for the receipt or for the list,    *)
(* and stores what it learns through Service.Ingest and Service.Refund.    *)
(*                                                                         *)
(* Each call to Poster and each database call is a step. What Poster said  *)
(* and what a SELECT returned is kept by the worker and may be stale when  *)
(* it is used. A worker can be lost at any step; its job stays in          *)
(* processing. Ingest and Refund are one step each here and are modelled   *)
(* in detail in Receipts.                                                  *)
(***************************************************************************)
EXTENDS Integers, FiniteSets

CONSTANTS
  Tickets,          \* receipts of the Poster account
  Net,              \* net amount of a receipt, in units
  Imports,          \* imports staff may ask for
  Runners,          \* workers, one in each replica
  MaxJobAttempts,   \* integration_jobs.max_attempts
  DayLength,        \* ticks in a day
  SyncAge,          \* age of last_sync_at that makes a daily job due (20 hours)
  MaxTick,          \* bound on time
  MaxRevivals,      \* bound on the jobs an operator retries
  MaxRunnerFaults   \* bound on workers lost

ASSUME PosterAssumption ==
  /\ {"daily", "manual"} \cap Tickets = {}  \* a receipt's id is not the word that tells a job's kind
  /\ Net \in Nat \ {0}
  /\ MaxJobAttempts \in Nat \ {0}
  /\ DayLength \in Nat \ {0}
  /\ SyncAge \in Nat \ {0}
  /\ MaxTick \in Nat
  /\ MaxRevivals \in Nat
  /\ MaxRunnerFaults \in Nat

VARIABLES
  tick,         \* time
  pos,          \* the receipt at Poster
  sale,         \* sales_transactions: status and what was refunded, and under which event
  inbound,      \* webhook_deliveries of the Poster endpoint
  job,          \* integration_jobs
  link,         \* integration_connections: status and last_sync_at
  queuedAt,     \* when queuePosterDaily last ran
  runner,       \* what each worker is doing
  orphaned,     \* jobs whose worker was lost
  revivals,     \* jobs retried by an operator so far
  runnerFaults  \* workers lost so far

posterVars == <<tick, pos, sale, inbound, job, link, queuedAt, runner, orphaned, revivals, runnerFaults>>
jobVars == <<sale, inbound, job, link, orphaned>>

WebhookJobs == Tickets \X {"close", "return"}
Day(t) == t \div DayLength
DailyJobs == {<<"daily", d>> : d \in 0..Day(MaxTick)}
ImportJobs == DailyJobs \cup {<<"manual", i>> : i \in Imports}
Jobs == WebhookJobs \cup ImportJobs

NoJob == <<"none", "none">>
Serving(at, j, remaining, batch, failed) ==
  [at |-> at, job |-> j, remaining |-> remaining, batch |-> batch, failed |-> failed]
AtTop == Serving("top", NoJob, 0, {}, FALSE)
JobRow(status, attempts) == [status |-> status, attempts |-> attempts]
NoRow == JobRow("none", 0)
Queued == JobRow("pending", 0)
Sold(status, refunded, under) == [status |-> status, refunded |-> refunded, under |-> under]
NotStored == Sold("none", 0, {})

\* A connection whose credentials Poster accepted (createIntegrationConnection).
PosterInit ==
  /\ tick = 0
  /\ pos = [x \in Tickets |-> "open"]
  /\ sale = [x \in Tickets |-> NotStored]
  /\ inbound = [j \in WebhookJobs |-> "none"]
  /\ job = [j \in Jobs |-> NoRow]
  /\ link = [status |-> "active", lastSync |-> 0]
  /\ queuedAt = 0
  /\ runner = [w \in Runners |-> AtTop]
  /\ orphaned = {}
  /\ revivals = 0
  /\ runnerFaults = 0

(***************************************************************************)
(* The account: a receipt is closed, and may be returned or deleted.       *)
(***************************************************************************)
PosterMoves(x) ==
  /\ \/ pos[x] = "open" /\ pos' = [pos EXCEPT ![x] = "closed"]
     \/ pos[x] = "closed" /\ pos' = [pos EXCEPT ![x] = "returned"]
  /\ UNCHANGED <<tick, jobVars, queuedAt, runner, revivals, runnerFaults>>

(***************************************************************************)
(* posterWebhook: an event may come late, again, or never. The delivery    *)
(* and its job are inserted together, or neither is.                       *)
(***************************************************************************)
PosterWebhook(j) ==
  /\ pos[j[1]] = "returned" \/ (j[2] = "close" /\ pos[j[1]] = "closed")
  /\ inbound[j] = "none"
  /\ inbound' = [inbound EXCEPT ![j] = "pending"]
  /\ job' = [job EXCEPT ![j] = Queued]
  /\ UNCHANGED <<tick, pos, sale, link, queuedAt, runner, orphaned, revivals, runnerFaults>>

\* syncIntegrationConnection and startIntegrationReconciliation, each with a key of its own.
QueueImport(i) ==
  /\ job[<<"manual", i>>].status = "none"
  /\ job' = [job EXCEPT ![<<"manual", i>>] = Queued]
  /\ UNCHANGED <<tick, pos, sale, inbound, link, queuedAt, runner, orphaned, revivals, runnerFaults>>

\* queuePosterDaily, at the start of the worker and then every hour.
DailyDue ==
  /\ link.status \in {"active", "degraded"}
  /\ tick - link.lastSync >= SyncAge

QueuePosterDaily(w) ==
  /\ runner[w].at = "top"
  /\ LET j == <<"daily", Day(tick)>> IN
       job' = IF DailyDue /\ job[j].status = "none" THEN [job EXCEPT ![j] = Queued] ELSE job
  /\ queuedAt' = tick
  /\ UNCHANGED <<tick, pos, sale, inbound, link, runner, orphaned, revivals, runnerFaults>>

\* integrationJobRetry.
IntegrationJobRetry(j) ==
  /\ revivals < MaxRevivals
  /\ revivals' = revivals + 1
  /\ job[j].status \in {"failed", "dead"}
  /\ job' = [job EXCEPT ![j] = Queued]
  /\ UNCHANGED <<tick, pos, sale, inbound, link, queuedAt, runner, orphaned, runnerFaults>>

(***************************************************************************)
(* Service.Ingest and Service.Refund as one transaction each: a receipt is *)
(* stored once; a refund is applied once under its key, and only to a sale *)
(* with enough left.                                                       *)
(***************************************************************************)
IngestReplaces(x, status) == [sale EXCEPT ![x] = Sold(status, @.refunded, @.under)]

Ingest(x, status) ==
  IF sale[x].status = "none" THEN [sale EXCEPT ![x] = Sold(status, @.refunded, @.under)] ELSE sale

RefundAccepted(x, key, amount) ==
  \/ key \in sale[x].under
  \/ sale[x].status = "completed" /\ amount <= Net - sale[x].refunded

Refund(x, key, amount) ==
  IF key \in sale[x].under THEN sale
  ELSE [sale EXCEPT ![x] =
         Sold(IF @.refunded + amount >= Net THEN "refunded" ELSE @.status, @.refunded + amount, @.under \cup {key})]

\* A cashier refunds one unit through refundCanonicalTransaction.
StaffRefund(x) ==
  /\ "staff" \notin sale[x].under
  /\ RefundAccepted(x, "staff", 1)
  /\ sale' = Refund(x, "staff", 1)
  /\ UNCHANGED <<tick, pos, inbound, job, link, queuedAt, runner, orphaned, revivals, runnerFaults>>

(***************************************************************************)
(* processNextPosterJob: the claim counts the attempt. The list or the     *)
(* receipt is fetched next.                                                *)
(***************************************************************************)
ClaimableInProcessing(j) == job[j].status \in {"pending", "failed", "processing"}

ClaimablePendingOnly(j) == job[j].status = "pending"

\* available_at is left out: the backoff may be over at any later step.
Claimable(j) == job[j].status \in {"pending", "failed"}

Goto(w, at, remaining) == runner' = [runner EXCEPT ![w] = Serving(at, @.job, remaining, @.batch, @.failed)]

ClaimJob(w) ==
  /\ runner[w].at = "top"
  /\ \E j \in Jobs :
       /\ Claimable(j)
       /\ job' = [job EXCEPT ![j] = JobRow("processing", @.attempts + 1)]
       /\ runner' = [runner EXCEPT ![w] = Serving("fetch", j, 0, {}, FALSE)]
  /\ UNCHANGED <<sale, inbound, link, orphaned>>

(***************************************************************************)
(* PosterAdapter.GetTransaction, the choice between a sale and a return,   *)
(* and for a return the SELECT of what is left of the stored receipt.      *)
(***************************************************************************)
AfterFetch(w, done) ==
  /\ runner[w].at = "fetch"
  /\ runner[w].job \in WebhookJobs
  /\ LET x == runner[w].job[1]
         left == Net - sale[x].refunded IN
       Goto(w, IF pos[x] # "returned" /\ runner[w].job[2] # "return" THEN "ingest"
               ELSE IF sale[x].status = "none" THEN "recover"
               ELSE IF done[left] THEN "mark" ELSE "refund",
            IF done[left] THEN 0 ELSE left)
  /\ UNCHANGED jobVars

FetchTakesPartialForDone(w) == AfterFetch(w, [n \in 0..Net |-> n < Net])

FetchReceipt(w) == AfterFetch(w, [n \in 0..Net |-> n = 0])

\* The sale is stored as completed, to be refunded next (source poster_webhook_recovery).
RecoverReceipt(w) ==
  /\ runner[w].at = "recover"
  /\ sale' = Ingest(runner[w].job[1], "completed")
  /\ Goto(w, "refund", Net)
  /\ UNCHANGED <<inbound, job, link, orphaned>>

RefundReceipt(w) ==
  /\ runner[w].at = "refund"
  /\ LET x == runner[w].job[1]
         key == runner[w].job[2] IN
       IF RefundAccepted(x, key, runner[w].remaining)
       THEN /\ sale' = Refund(x, key, runner[w].remaining)
            /\ Goto(w, "mark", 0)
       ELSE /\ Goto(w, "fail", 0)
            /\ UNCHANGED sale
  /\ UNCHANGED <<inbound, job, link, orphaned>>

IngestReceipt(w) ==
  /\ runner[w].at = "ingest"
  /\ sale' = Ingest(runner[w].job[1], "completed")
  /\ Goto(w, "mark", runner[w].remaining)
  /\ UNCHANGED <<inbound, job, link, orphaned>>

MarkDelivery(w) ==
  /\ runner[w].at = "mark"
  /\ inbound' = [inbound EXCEPT ![runner[w].job] = "succeeded"]
  /\ Goto(w, "finish", runner[w].remaining)
  /\ UNCHANGED <<sale, job, link, orphaned>>

(***************************************************************************)
(* importPosterTransactions, also under reconcilePoster: the list is read  *)
(* once, each receipt is ingested in a transaction of its own, and one     *)
(* that fails is counted and passed over.                                  *)
(***************************************************************************)
FetchList(w) ==
  /\ runner[w].at = "fetch"
  /\ runner[w].job \in ImportJobs
  /\ runner' = [runner EXCEPT ![w] =
       Serving("import", @.job, @.remaining,
               {<<x, IF pos[x] = "returned" THEN "cancelled" ELSE "completed">> : x \in {y \in Tickets : pos[y] # "open"}},
               @.failed)]
  /\ UNCHANGED jobVars

ImportReceipt(w) ==
  /\ runner[w].at = "import"
  /\ \/ \E r \in runner[w].batch : \E ok \in BOOLEAN :
          /\ sale' = IF ok THEN Ingest(r[1], r[2]) ELSE sale
          /\ runner' = [runner EXCEPT ![w] = Serving("import", @.job, @.remaining, @.batch \ {r}, @.failed \/ ~ok)]
     \/ /\ runner[w].batch = {}
        /\ Goto(w, "finish", runner[w].remaining)
        /\ UNCHANGED sale
  /\ UNCHANGED <<inbound, job, link, orphaned>>

(***************************************************************************)
(* The end of a job that succeeded, and finishPosterJob for one that       *)
(* failed: the job, then the connection or the delivery.                   *)
(***************************************************************************)
FinishJob(w) ==
  /\ runner[w].at = "finish"
  /\ job' = [job EXCEPT ![runner[w].job] = JobRow("succeeded", @.attempts)]
  /\ Goto(w, "health", runner[w].remaining)
  /\ UNCHANGED <<sale, inbound, link, orphaned>>

ConnectionHealth(w) ==
  /\ runner[w].at = "health"
  /\ link' = [status |-> IF runner[w].failed THEN "degraded" ELSE "active", lastSync |-> tick]
  /\ runner' = [runner EXCEPT ![w] = AtTop]
  /\ UNCHANGED <<sale, inbound, job, orphaned>>

GivenUpNever(row) == "failed"

GivenUp(row) == IF row.attempts >= MaxJobAttempts THEN "dead" ELSE "failed"

FailJob(w) ==
  /\ runner[w].at \in {"fail", "secret"}
  /\ job' = [job EXCEPT ![runner[w].job] = JobRow(GivenUp(@), @.attempts)]
  /\ link' = IF runner[w].at = "secret" THEN [status |-> "error", lastSync |-> link.lastSync] ELSE link
  /\ Goto(w, "journal", runner[w].remaining)
  /\ UNCHANGED <<sale, inbound, orphaned>>

FailDelivery(w) ==
  /\ runner[w].at = "journal"
  /\ LET j == runner[w].job IN
       inbound' = IF j \in WebhookJobs THEN [inbound EXCEPT ![j] = GivenUp(job[j])] ELSE inbound
  /\ runner' = [runner EXCEPT ![w] = AtTop]
  /\ UNCHANGED <<sale, job, link, orphaned>>

(***************************************************************************)
(* A call returns an error: Poster does not answer, the receipt is not     *)
(* found, ingestion is refused, the credentials cannot be read.            *)
(***************************************************************************)
JobTrouble(w) ==
  /\ \/ /\ runner[w].at \in {"fetch", "recover", "refund", "ingest", "mark"}
        /\ Goto(w, "fail", 0)
     \/ runner[w].at = "fetch" /\ Goto(w, "secret", 0)
  /\ UNCHANGED jobVars

Working(w) == runner[w].at \notin {"top", "health", "journal"}

LoseRunner(w) ==
  /\ runnerFaults < MaxRunnerFaults
  /\ runner[w].at # "top"
  /\ runnerFaults' = runnerFaults + 1
  /\ orphaned' = IF Working(w) THEN orphaned \cup {runner[w].job} ELSE orphaned
  /\ runner' = [runner EXCEPT ![w] = AtTop]
  /\ UNCHANGED <<tick, pos, sale, inbound, job, link, queuedAt, revivals>>

\* The hourly check is run within every tick.
Tick ==
  /\ tick < MaxTick
  /\ queuedAt = tick
  /\ tick' = tick + 1
  /\ UNCHANGED <<pos, jobVars, queuedAt, runner, revivals, runnerFaults>>

RunnerStep(w) ==
  /\ \/ ClaimJob(w)
     \/ FetchReceipt(w) \/ RecoverReceipt(w) \/ RefundReceipt(w)
     \/ IngestReceipt(w) \/ MarkDelivery(w)
     \/ FetchList(w) \/ ImportReceipt(w)
     \/ FinishJob(w) \/ ConnectionHealth(w)
     \/ FailJob(w) \/ FailDelivery(w)
     \/ JobTrouble(w)
  /\ UNCHANGED <<tick, pos, queuedAt, revivals, runnerFaults>>

PosterNext ==
  \/ \E x \in Tickets : PosterMoves(x) \/ StaffRefund(x)
  \/ \E j \in WebhookJobs : PosterWebhook(j)
  \/ \E i \in Imports : QueueImport(i)
  \/ \E j \in Jobs : IntegrationJobRetry(j)
  \/ \E w \in Runners : QueuePosterDaily(w) \/ RunnerStep(w) \/ LoseRunner(w)
  \/ Tick

\* The loop of the worker never ends; requests, time and losses are not fair.
PosterFairness == \A w \in Runners : WF_posterVars(RunnerStep(w))

PosterSpec == PosterInit /\ [][PosterNext]_posterVars /\ PosterFairness

-----------------------------------------------------------------------------
Statuses == {"none", "pending", "processing", "failed", "succeeded", "dead"}

\* Every row and every worker has its type.
PosterTypeOK ==
  /\ tick \in 0..MaxTick
  /\ pos \in [Tickets -> {"open", "closed", "returned"}]
  /\ sale \in [Tickets -> [status : {"none", "completed", "cancelled", "refunded"}, refunded : 0..Net,
                           under : SUBSET {"close", "return", "staff"}]]
  /\ inbound \in [WebhookJobs -> Statuses]
  /\ job \in [Jobs -> [status : Statuses, attempts : 0..MaxJobAttempts]]
  /\ link \in [status : {"active", "degraded", "error"}, lastSync : 0..MaxTick]
  /\ queuedAt \in 0..MaxTick
  /\ \A w \in Runners : runner[w].job \in Jobs \cup {NoJob} /\ runner[w].remaining \in 0..Net
  /\ orphaned \subseteq Jobs
  /\ revivals \in 0..MaxRevivals
  /\ runnerFaults \in 0..MaxRunnerFaults

(***************************************************************************)
(* A Poster event whose job or delivery is marked succeeded took effect: a *)
(* closed receipt is stored and a returned one refunded in full, in        *)
(* whatever order the events, the imports and the cashier's refunds came,  *)
(* and however often the job was retried. Refunds never exceed the sale.   *)
(***************************************************************************)
SucceededEventApplied ==
  \A j \in WebhookJobs :
    job[j].status = "succeeded" \/ inbound[j] = "succeeded" =>
      /\ sale[j[1]].status # "none"
      /\ j[2] = "return" => sale[j[1]].refunded = Net

(***************************************************************************)
(* A receipt that was refunded, or imported as cancelled, is never a sale  *)
(* again, whatever event arrives late; no refund is taken back.            *)
(***************************************************************************)
ReturnsStand ==
  [][\A x \in Tickets :
       /\ sale[x].status \in {"cancelled", "refunded"} => sale'[x].status = sale[x].status
       /\ sale'[x].refunded >= sale[x].refunded]_posterVars

(***************************************************************************)
(* A job in processing is in the hands of exactly one worker, or its       *)
(* worker was lost: processNextPosterJob has no lease and                  *)
(* integrationJobRetry takes only failed and dead jobs.                    *)
(***************************************************************************)
JobHeldOrOrphaned ==
  \A j \in Jobs :
    LET holders == {w \in Runners : Working(w) /\ runner[w].job = j} IN
    job[j].status = "processing" => Cardinality(holders) = (IF j \in orphaned THEN 0 ELSE 1)

(***************************************************************************)
(* With fair workers the job of every accepted Poster event succeeds or is *)
(* dead, unless its worker is lost.                                        *)
(***************************************************************************)
EventSettles ==
  \A j \in WebhookJobs :
    job[j].status = "pending" ~> job[j].status \in {"succeeded", "dead"} \/ j \in orphaned

(***************************************************************************)
(* docs/integration-core.md: "Active Poster connections receive a daily    *)
(* one-day reconciliation". Once a day is over and the connection was      *)
(* never in error, the job of that day was queued.                         *)
(***************************************************************************)
DailyReconciliation ==
  link.status # "error" => \A d \in 1..(Day(tick) - 1) : job[<<"daily", d>>].status # "none"

(***************************************************************************)
(* integration_jobs as the abstract queue: a row counts its attempt when   *)
(* it is claimed, the queue when the attempt ends.                         *)
(***************************************************************************)
QueuedJob == [j \in Jobs |->
  [st |-> CASE job[j].status = "none" -> "absent"
            [] job[j].status \in {"pending", "failed"} -> "waiting"
            [] job[j].status = "processing" -> "taken"
            [] job[j].status = "succeeded" -> "finished"
            [] job[j].status = "dead" -> "dead",
   tries |-> IF job[j].status = "processing" THEN job[j].attempts - 1 ELSE job[j].attempts]]

JobQueue == INSTANCE WorkQueue WITH Items <- Jobs, MaxTries <- MaxJobAttempts, item <- QueuedJob

\* The jobs implement the work queue, retries by an operator included.
JobsAreAQueue == JobQueue!QueueSpec

(***************************************************************************)
(* A job that says succeeded has done its work and one in processing has a *)
(* worker, or lost it.                                                     *)
(***************************************************************************)
JobsAccounted ==
  /\ PosterTypeOK
  /\ SucceededEventApplied
  /\ JobHeldOrOrphaned
=============================================================================
