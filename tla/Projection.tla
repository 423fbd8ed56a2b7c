----------------------------- MODULE Projection ------------------------------
(***************************************************************************)
(* The analytics projection of one company. Every receipt, refund and      *)
(* customer event queues an analytics_projection job in the transaction    *)
(* that stores it. Workers claim jobs (processAnalyticsJobs) and rebuild   *)
(* analytics_daily_facts and analytics_customer_features from the source   *)
(* tables (refreshAnalyticsCompany); so do the daily pass and staff, with  *)
(* no job. A rebuild is a transaction that takes an advisory lock, deletes *)
(* and inserts again what it then reads: each statement of it sees what is *)
(* committed when the statement begins.                                    *)
(***************************************************************************)
EXTENDS Integers, FiniteSets

CONSTANTS
  Sources,            \* receipts and customer events
  ProjectionWorkers,  \* workers, one in each replica
  Refreshers,         \* the daily pass, and staff who refresh by hand
  MaxRefreshTries,    \* integration_jobs.max_attempts
  MaxAnalystFaults    \* bound on workers lost

ASSUME ProjectionAssumption == MaxRefreshTries \in Nat \ {0} /\ MaxAnalystFaults \in Nat

VARIABLES
  committed,      \* source rows
  task,           \* their analytics_projection jobs
  facts,          \* sources the committed projection accounts for
  lock,           \* who holds pg_advisory_xact_lock
  analyst,        \* what each worker is doing
  dropped,        \* jobs whose worker was lost
  analystFaults   \* workers lost so far

projVars == <<committed, task, facts, lock, analyst, dropped, analystFaults>>

Analysts == ProjectionWorkers \cup Refreshers
NoSource == "none"
NoAnalyst == "nobody"

ASSUME NullsAssumption == NoSource \notin Sources /\ NoAnalyst \notin Analysts

Waiting == [at |-> "idle", source |-> NoSource, read |-> {}]

ProjInit ==
  /\ committed = {}
  /\ task = [f \in Sources |-> [status |-> "none", attempts |-> 0]]
  /\ facts = {}
  /\ lock = NoAnalyst
  /\ analyst = [w \in Analysts |-> Waiting]
  /\ dropped = {}
  /\ analystFaults = 0

CommitSourceWithoutJob(f) ==
  /\ f \notin committed
  /\ committed' = committed \cup {f}
  /\ UNCHANGED <<task, facts, lock, analyst, dropped, analystFaults>>

\* Ingest, Refund and appendCustomerEvent: the row and its job, once per idempotency key.
CommitSource(f) ==
  /\ f \notin committed
  /\ committed' = committed \cup {f}
  /\ task' = [task EXCEPT ![f] = [status |-> "pending", attempts |-> 0]]
  /\ UNCHANGED <<facts, lock, analyst, dropped, analystFaults>>

\* processAnalyticsJobs: the claim counts the attempt.
ClaimTask(w) ==
  /\ w \in ProjectionWorkers
  /\ analyst[w].at = "idle"
  /\ \E f \in Sources :
       /\ task[f].status \in {"pending", "failed"}
       /\ task' = [task EXCEPT ![f] = [status |-> "processing", attempts |-> @.attempts + 1]]
       /\ analyst' = [analyst EXCEPT ![w] = [at |-> "lock", source |-> f, read |-> {}]]
  /\ UNCHANGED <<committed, facts, lock, dropped, analystFaults>>

\* refreshAllAnalytics once a day and refreshAnalytics on request.
RefreshWithoutJob(w) ==
  /\ w \in Refreshers
  /\ analyst[w].at = "idle"
  /\ analyst' = [analyst EXCEPT ![w] = [at |-> "lock", source |-> @.source, read |-> @.read]]
  /\ UNCHANGED <<committed, task, facts, lock, dropped, analystFaults>>

\* A rebuild on a snapshot taken before it has the lock (REPEATABLE READ).
LockAfterSnapshot(w) ==
  /\ \/ /\ analyst[w].at = "lock"
        /\ analyst' = [analyst EXCEPT ![w].at = "wait", ![w].read = committed]
        /\ UNCHANGED lock
     \/ /\ analyst[w].at = "wait"
        /\ lock = NoAnalyst
        /\ lock' = w
        /\ analyst' = [analyst EXCEPT ![w].at = "commit"]
  /\ UNCHANGED <<committed, task, facts, dropped, analystFaults>>

LockCompany(w) ==
  /\ analyst[w].at = "lock"
  /\ lock = NoAnalyst
  /\ lock' = w
  /\ analyst' = [analyst EXCEPT ![w] = [at |-> "read", source |-> @.source, read |-> @.read]]
  /\ UNCHANGED <<committed, task, facts, dropped, analystFaults>>

ReadSources(w) ==
  /\ analyst[w].at = "read"
  /\ analyst' = [analyst EXCEPT ![w] = [at |-> "commit", source |-> @.source, read |-> committed]]
  /\ UNCHANGED <<committed, task, facts, lock, dropped, analystFaults>>

Release(w) == IF lock = w THEN NoAnalyst ELSE lock
AfterRefresh(w, at) ==
  IF analyst[w].source = NoSource THEN Waiting ELSE [at |-> at, source |-> analyst[w].source, read |-> {}]

CommitFacts(w) ==
  /\ analyst[w].at = "commit"
  /\ facts' = analyst[w].read
  /\ lock' = Release(w)
  /\ analyst' = [analyst EXCEPT ![w] = AfterRefresh(w, "done")]
  /\ UNCHANGED <<committed, task, dropped, analystFaults>>

\* A statement of the rebuild fails and the transaction is rolled back.
RollbackFacts(w) ==
  /\ analyst[w].at \in {"read", "commit"}
  /\ lock' = Release(w)
  /\ analyst' = [analyst EXCEPT ![w] = AfterRefresh(w, "failed")]
  /\ UNCHANGED <<committed, task, facts, dropped, analystFaults>>

TaskResultAlwaysDone(row, at) == "succeeded"

TaskResult(row, at) ==
  IF at = "done" THEN "succeeded" ELSE IF row.attempts >= MaxRefreshTries THEN "dead" ELSE "failed"

EndTask(w) ==
  /\ analyst[w].at \in {"done", "failed"}
  /\ task' = [task EXCEPT ![analyst[w].source] = [status |-> TaskResult(@, analyst[w].at), attempts |-> @.attempts]]
  /\ analyst' = [analyst EXCEPT ![w] = Waiting]
  /\ UNCHANGED <<committed, facts, lock, dropped, analystFaults>>

LoseAnalyst(w) ==
  /\ analyst[w].at # "idle"
  /\ analystFaults < MaxAnalystFaults
  /\ analystFaults' = analystFaults + 1
  /\ dropped' = dropped \cup ({analyst[w].source} \ {NoSource})
  /\ lock' = Release(w)
  /\ analyst' = [analyst EXCEPT ![w] = Waiting]
  /\ UNCHANGED <<committed, task, facts>>

AnalystStep(w) ==
  \/ ClaimTask(w) \/ LockCompany(w) \/ ReadSources(w) \/ CommitFacts(w) \/ RollbackFacts(w) \/ EndTask(w)

ProjNext ==
  \/ \E f \in Sources : CommitSource(f)
  \/ \E w \in Analysts : AnalystStep(w) \/ RefreshWithoutJob(w) \/ LoseAnalyst(w)

(***************************************************************************)
(* The loops never end, and PostgreSQL serves those who wait for a lock in *)
(* the order they came.                                                    *)
(***************************************************************************)
ProjFairness ==
  \A w \in Analysts : WF_projVars(AnalystStep(w)) /\ SF_projVars(LockCompany(w))

ProjSpec == ProjInit /\ [][ProjNext]_projVars /\ ProjFairness

-----------------------------------------------------------------------------
(***************************************************************************)
(* A rebuild never takes a source out of the projection: of two rebuilds   *)
(* that overlap the one that commits last has read at least as much.       *)
(***************************************************************************)
ProjectionNeverGoesBack == [][facts \subseteq facts']_projVars

\* A source whose job succeeded is in the projection, whichever rebuilds ran since.
SucceededTaskProjected == \A f \in Sources : task[f].status = "succeeded" => f \in facts

(***************************************************************************)
(* With fair workers every source is projected, unless its job is dead or  *)
(* its worker was lost.                                                    *)
(***************************************************************************)
SourceProjected ==
  \A f \in Sources : f \in committed ~> f \in facts \/ task[f].status = "dead" \/ f \in dropped

(***************************************************************************)
(* The projection only grows, and holds every source whose job succeeded   *)
(* (refreshAnalyticsCompany).                                              *)
(***************************************************************************)
ProjectionCurrent ==
  /\ ProjectionNeverGoesBack
  /\ []SucceededTaskProjected
=============================================================================
