------------------------------ MODULE ReportRuns -----------------------------
(***************************************************************************)
(* Report runs. In every replica a worker takes runs one by one: it        *)
(* recovers those held for more than two minutes, claims a queued one,     *)
(* sends it to the recipients in turn and records the outcome              *)
(* (processNextReportRun, deliverReport, finishReportRun).                 *)
(*                                                                         *)
(* The two minutes are not timed: a worker may have been that slow at any  *)
(* step. The last_status copied to the schedule is left out.               *)
(***************************************************************************)
EXTENDS Integers, FiniteSets

CONSTANTS
  Runs,               \* scheduled, manual and retried runs
  Couriers,           \* the workers
  Recipients,         \* how many recipients a schedule has
  MaxReportAttempts,  \* 3
  MaxCourierFaults    \* bound on workers lost

ASSUME ReportRunsAssumption ==
  /\ {Recipients, MaxReportAttempts} \subseteq Nat \ {0} /\ MaxCourierFaults \in Nat
  /\ IsFiniteSet(Couriers)

VARIABLES
  report,         \* report_runs
  courier,        \* what each worker is doing
  copies,         \* reports each recipient got from a run
  courierFaults,
  overtaken       \* history: runs taken from a worker still at it

runVars == <<report, courier, copies, courierFaults, overtaken>>

NoReport == "none"
Resting == [at |-> "idle", run |-> NoReport, to |-> 1, result |-> "none"]
Settled == {"sent", "failed", "skipped"}
Letters == Runs \X (1 .. Recipients)
Exists(k) == report[k].status \notin {"none", "deleted"}

RunInit ==
  /\ report = [k \in Runs |-> [status |-> "none", attempts |-> 0]]
  /\ courier = [w \in Couriers |-> Resting]
  /\ copies = [x \in Letters |-> 0]
  /\ courierFaults = 0
  /\ overtaken = {}

\* queueReportRun, from a schedule, runReportSchedule or retryReportRun.
QueueRun(k) ==
  /\ report[k].status = "none"
  /\ report' = [report EXCEPT ![k] = [status |-> "queued", attempts |-> @.attempts]]
  /\ UNCHANGED <<courier, copies, courierFaults, overtaken>>

\* deleteReportSchedule takes the runs with it (ON DELETE CASCADE).
DeleteRun(k) ==
  /\ Exists(k)
  /\ report' = [report EXCEPT ![k] = [status |-> "deleted", attempts |-> @.attempts]]
  /\ UNCHANGED <<courier, copies, courierFaults, overtaken>>

RecoveredNever(r) == r

RecoveredAnew(r) == [r EXCEPT !.status = "queued"]

\* After two minutes in processing: queued again, or failed after the last attempt.
Recovered(r) == [status |-> IF r.attempts < MaxReportAttempts THEN "queued" ELSE "failed", attempts |-> r.attempts]

RecoverRun(w) ==
  /\ courier[w].at = "idle"
  /\ \E k \in Runs :
       /\ report[k].status = "processing"
       /\ report' = [report EXCEPT ![k] = Recovered(@)]
       /\ overtaken' = IF \E v \in Couriers : courier[v].run = k THEN overtaken \cup {k} ELSE overtaken
  /\ UNCHANGED <<courier, copies, courierFaults>>

ClaimableWithAttemptsLeft(k) == report[k].status \in {"queued", "sent", "failed"} /\ report[k].attempts < MaxReportAttempts

Claimable(k) == report[k].status = "queued"

ClaimedUncounted(r) == [status |-> "processing", attempts |-> r.attempts]

\* The claim counts the attempt.
Claimed(r) == [status |-> "processing", attempts |-> r.attempts + 1]

ClaimRun(w) ==
  /\ courier[w].at = "idle"
  /\ \E k \in Runs :
       /\ Claimable(k)
       /\ report' = [report EXCEPT ![k] = Claimed(@)]
       /\ courier' = [courier EXCEPT ![w] = [at |-> "deliver", run |-> k, to |-> 1, result |-> "none"]]
  /\ UNCHANGED <<copies, courierFaults, overtaken>>

\* What the worker does next, with the same run.
Going(w, at, to, result) == [at |-> at, run |-> courier[w].run, to |-> to, result |-> result]

AfterRefusalNext(w) == Going(w, "deliver", courier[w].to + 1, "none")

\* The first recipient that cannot be reached fails the run.
AfterRefusal(w) == Going(w, "finish", courier[w].to, "failed")

(***************************************************************************)
(* loadReportData, renderReport and deliverReport: the recipients in turn. *)
(* A channel that is not set up skips the run. An error may come before or *)
(* after the recipient has the report (a lost answer, a failed QUIT); a    *)
(* run without data fails like one whose first recipient is refused.       *)
(***************************************************************************)
DeliverNext(w) ==
  LET i == courier[w].to IN
  /\ courier[w].at = "deliver"
  /\ \/ /\ i <= Recipients
        /\ copies' = [copies EXCEPT ![<<courier[w].run, i>>] = @ + 1]
        /\ courier' = [courier EXCEPT ![w] = Going(w, "deliver", i + 1, "none")]
     \/ /\ i <= Recipients
        /\ \E n \in {0, 1} : copies' = [copies EXCEPT ![<<courier[w].run, i>>] = @ + n]
        /\ courier' = [courier EXCEPT ![w] = AfterRefusal(w)]
     \/ i = 1 /\ courier' = [courier EXCEPT ![w] = Going(w, "finish", i, "skipped")] /\ UNCHANGED copies
     \/ i > Recipients /\ courier' = [courier EXCEPT ![w] = Going(w, "finish", i, "sent")] /\ UNCHANGED copies
  /\ UNCHANGED <<report, courierFaults, overtaken>>

\* finishReportRun: for a failed run the attempts are read, and then the outcome written.
FinishRead(w) ==
  LET r == report[courier[w].run]
      again == courier[w].result = "failed" /\ Exists(courier[w].run) /\ r.attempts < MaxReportAttempts
  IN /\ courier[w].at = "finish"
     /\ courier' = [courier EXCEPT ![w] = Going(w, IF again THEN "requeue" ELSE "close", @.to, @.result)]
     /\ UNCHANGED <<report, copies, courierFaults, overtaken>>

\* Both updates name the run and nothing else: neither its status nor its attempts.
FinishWrite(w) ==
  LET k == courier[w].run
      status == IF courier[w].at = "requeue" THEN "queued" ELSE courier[w].result
  IN /\ courier[w].at \in {"requeue", "close"}
     /\ report' = IF Exists(k) THEN [report EXCEPT ![k] = [status |-> status, attempts |-> @.attempts]] ELSE report
     /\ courier' = [courier EXCEPT ![w] = Resting]
     /\ UNCHANGED <<copies, courierFaults, overtaken>>

\* A pass over the table that finds nothing to recover or to claim.
FindNothing(w) ==
  /\ courier[w].at = "idle"
  /\ \A k \in Runs : report[k].status \notin {"queued", "processing"}
  /\ UNCHANGED runVars

LoseCourier(w) ==
  /\ courier[w].at # "idle"
  /\ courierFaults < MaxCourierFaults /\ courierFaults' = courierFaults + 1
  /\ courier' = [courier EXCEPT ![w] = Resting]
  /\ UNCHANGED <<report, copies, overtaken>>

CourierStep(w) == RecoverRun(w) \/ ClaimRun(w) \/ DeliverNext(w) \/ FinishRead(w) \/ FinishWrite(w)

RunNext ==
  \/ \E k \in Runs : QueueRun(k) \/ DeleteRun(k)
  \/ \E w \in Couriers : CourierStep(w) \/ FindNothing(w) \/ LoseCourier(w)

\* The loop of StartReportWorker never ends, and a lost worker is started again.
RunFairness == \A w \in Couriers : WF_runVars(CourierStep(w))

RunSpec == RunInit /\ [][RunNext]_runVars /\ RunFairness

-----------------------------------------------------------------------------
(***************************************************************************)
(* A run has at most MaxReportAttempts attempts, lost workers included,    *)
(* unless it was recovered while its worker was still at it                *)
(* (processNextReportRun).                                                 *)
(***************************************************************************)
ExtraAttemptsOnlyByOverlap ==
  \A k \in Runs : report[k].attempts > MaxReportAttempts => k \in overtaken

\* A run marked sent has reached every recipient, whichever attempts failed half way.
SentReachedEveryone ==
  \A k \in Runs : report[k].status = "sent" => \A i \in 1 .. Recipients : copies[<<k, i>>] > 0

\* A recipient gets no more copies of a run than it had attempts, whoever made them.
CopiesWithinAttempts ==
  \A k \in Runs : \A i \in 1 .. Recipients : copies[<<k, i>>] <= report[k].attempts

(***************************************************************************)
(* A settled run stays as it is, unless a worker it was taken from writes  *)
(* its own outcome over it (finishReportRun).                              *)
(***************************************************************************)
SettledStays ==
  [][\A k \in Runs :
       report[k].status \in Settled =>
         report'[k].status \in {report[k].status, "deleted"} \/ k \in overtaken]_runVars

\* Every queued run settles or is deleted, lost workers included.
RunSettles == \A k \in Runs : report[k].status = "queued" ~> report[k].status \in Settled \cup {"deleted"}

(***************************************************************************)
(* A run's row can be believed: sent means everybody has the report,       *)
(* attempts bound the copies and are bounded themselves, and a settled run *)
(* stays settled, unless a run was taken from a worker still at it.        *)
(***************************************************************************)
RunsAccounted ==
  /\ []ExtraAttemptsOnlyByOverlap
  /\ []SentReachedEveryone
  /\ []CopiesWithinAttempts
  /\ SettledStays
=============================================================================
