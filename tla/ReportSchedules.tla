--------------------------- MODULE ReportSchedules ---------------------------
(***************************************************************************)
(* Report schedules: in every replica a worker queues a run for each       *)
(* schedule that is due and moves next_run_at on, in separate statements   *)
(* (processDueReportSchedules), while the owner edits the schedules. What  *)
(* becomes of the runs is ReportRuns.                                      *)
(*                                                                         *)
(* Time is counted in hours, the unit of a scheduled run's key. Weekly and *)
(* monthly schedules are longer cycles; channel, format and texts tell no  *)
(* runs apart and are left out.                                            *)
(***************************************************************************)
EXTENDS Integers, FiniteSets

CONSTANTS
  Schedules,
  Planners,        \* the workers
  Cycle,           \* hours from one due time of a schedule to the next
  MaxHour,         \* bound on time
  MaxEdits,        \* bound on edits of schedules
  MaxPlanFaults    \* bound on workers lost and failed inserts

ASSUME SchedulesAssumption ==
  Cycle \in Nat \ {0} /\ {MaxHour, MaxEdits, MaxPlanFaults} \subseteq Nat

VARIABLES
  hour,        \* the clock
  schedule,    \* report_schedules
  runs,        \* keys of the scheduled report_runs
  planner,     \* what each worker is doing, with the due schedules it read
  edits, planFaults,
  queuedFor,   \* history: due times and the runs queued for them
  passedOver,  \* history: due times that next_run_at was moved past
  troubled,    \* history: due times two workers held, or a fault concerns
  outdated     \* history: schedules edited under a worker

planVars == <<hour, schedule, runs, planner, edits, planFaults, queuedFor, passedOver, troubled, outdated>>

Settings(life, active, sendAt, next) == [life |-> life, active |-> active, sendAt |-> sendAt, next |-> next]
AtRest == [at |-> "idle", due |-> {}]
Queueing(due) == IF due = {} THEN AtRest ELSE [at |-> "queue", due |-> due]
Live(s) == schedule[s].life = "live"

NextReportRunFromNow(sendAt, now) == {h \in now .. now + Cycle - 1 : h % Cycle = sendAt}

\* nextReportRun: the one moment in the cycle after now that is at the schedule's hour.
NextReportRun(sendAt, now) == {h \in now + 1 .. now + Cycle : h % Cycle = sendAt}

PlanInit ==
  /\ hour = 0
  /\ schedule = [s \in Schedules |-> Settings("new", FALSE, 0, 0)]
  /\ runs = {}
  /\ planner = [w \in Planners |-> AtRest]
  /\ edits = 0 /\ planFaults = 0
  /\ queuedFor = {} /\ passedOver = {} /\ troubled = {} /\ outdated = {}

-----------------------------------------------------------------------------
HeldSchedules == {d.schedule : d \in UNION {planner[w].due : w \in Planners}}

SaveScheduleKeepsNext(s, active, sendAt) ==
  /\ schedule[s].life # "deleted"
  /\ edits < MaxEdits /\ edits' = edits + 1
  /\ schedule' = [schedule EXCEPT ![s] = Settings("live", active, sendAt, @.next)]
  /\ UNCHANGED <<hour, runs, planner, planFaults, queuedFor, passedOver, troubled, outdated>>

\* createReportSchedule and updateReportSchedule write all the settings and next_run_at.
SaveSchedule(s, active, sendAt) ==
  /\ schedule[s].life # "deleted"
  /\ edits < MaxEdits /\ edits' = edits + 1
  /\ \E next \in NextReportRun(sendAt, hour) :
       schedule' = [schedule EXCEPT ![s] = Settings("live", active, sendAt, next)]
  /\ outdated' = IF s \in HeldSchedules THEN outdated \cup {s} ELSE outdated \ {s}
  /\ UNCHANGED <<hour, runs, planner, planFaults, queuedFor, passedOver, troubled>>

\* deleteReportSchedule: the runs go with it (ON DELETE CASCADE).
DeleteSchedule(s) ==
  /\ Live(s)
  /\ edits < MaxEdits /\ edits' = edits + 1
  /\ schedule' = [schedule EXCEPT ![s] = Settings("deleted", @.active, @.sendAt, @.next)]
  /\ runs' = {k \in runs : k[1] # s}
  /\ queuedFor' = {x \in queuedFor : x.key[1] # s}
  /\ passedOver' = {d \in passedOver : d.schedule # s}
  /\ UNCHANGED <<hour, planner, planFaults, troubled, outdated>>

HourPasses ==
  /\ hour < MaxHour
  /\ hour' = hour + 1
  /\ UNCHANGED <<schedule, runs, planner, edits, planFaults, queuedFor, passedOver, troubled, outdated>>

-----------------------------------------------------------------------------
\* The row locks of the query end with it: another worker may find the same schedules due.
ReadDue(w) ==
  LET due == {[schedule |-> s, sendAt |-> schedule[s].sendAt, time |-> schedule[s].next] :
                s \in {x \in Schedules : Live(x) /\ schedule[x].active /\ schedule[x].next <= hour}}
  IN /\ planner[w].at = "idle"
     /\ planner' = [planner EXCEPT ![w] = Queueing(due)]
     /\ troubled' = troubled \cup {d \in due : \E v \in Planners : d \in planner[v].due}
     /\ UNCHANGED <<hour, schedule, runs, edits, planFaults, queuedFor, passedOver, outdated>>

Chosen(w) == CHOOSE d \in planner[w].due : TRUE

\* queueReportRun: inserted once for a key, and only for a schedule that exists.
QueueReportRunIfActive(d) ==
  IF Live(d.schedule) /\ schedule[d.schedule].active THEN {<<d.schedule, hour>>} ELSE {}

QueueReportRun(d) ==
  IF Live(d.schedule) THEN {<<d.schedule, hour>>} ELSE {}

\* The insert may fail: its error is ignored.
QueueDue(w) ==
  LET d == Chosen(w) IN
  /\ planner[w].at = "queue"
  /\ \/ /\ runs' = runs \cup QueueReportRun(d)
        /\ queuedFor' = queuedFor \cup {[due |-> d, key |-> k] : k \in QueueReportRun(d)}
        /\ UNCHANGED <<planFaults, troubled>>
     \/ /\ planFaults < MaxPlanFaults /\ planFaults' = planFaults + 1
        /\ troubled' = troubled \cup {d}
        /\ UNCHANGED <<runs, queuedFor>>
  /\ planner' = [planner EXCEPT ![w] = [at |-> "advance", due |-> @.due]]
  /\ UNCHANGED <<hour, schedule, edits, passedOver, outdated>>

\* The next time comes from the settings read and the present moment.
Advance(w) ==
  LET d == Chosen(w)  s == d.schedule IN
  /\ planner[w].at = "advance"
  /\ IF Live(s)
       THEN /\ \E next \in NextReportRun(d.sendAt, hour) :
                 schedule' = [schedule EXCEPT ![s] = Settings(@.life, @.active, @.sendAt, next)]
            /\ passedOver' = passedOver \cup {d}
       ELSE UNCHANGED <<schedule, passedOver>>
  /\ planner' = [planner EXCEPT ![w] = Queueing(@.due \ {d})]
  /\ UNCHANGED <<hour, runs, edits, planFaults, queuedFor, troubled, outdated>>

LosePlanner(w) ==
  /\ planner[w].at # "idle"
  /\ planFaults < MaxPlanFaults /\ planFaults' = planFaults + 1
  /\ troubled' = troubled \cup planner[w].due
  /\ planner' = [planner EXCEPT ![w] = AtRest]
  /\ UNCHANGED <<hour, schedule, runs, edits, queuedFor, passedOver, outdated>>

PlannerStep(w) == ReadDue(w) \/ QueueDue(w) \/ Advance(w)

PlanNext ==
  \/ \E s \in Schedules :
       \/ \E active \in BOOLEAN, h \in 0 .. Cycle - 1 : SaveSchedule(s, active, h)
       \/ DeleteSchedule(s)
  \/ HourPasses
  \/ \E w \in Planners : PlannerStep(w) \/ LosePlanner(w)

PlanSpec == PlanInit /\ [][PlanNext]_planVars

-----------------------------------------------------------------------------
(***************************************************************************)
(* A due time is answered by one run, unless two workers held it at once   *)
(* or one was lost between the run and the new next_run_at: the key holds  *)
(* the hour of queueing, not the due time (processDueReportSchedules).     *)
(***************************************************************************)
DueTimeRunOnce ==
  \A x, y \in queuedFor : x.due = y.due => x.key = y.key \/ x.due \in troubled

(***************************************************************************)
(* next_run_at does not move past a due time that no run was queued for,   *)
(* unless the insert failed: its error is ignored.                         *)
(***************************************************************************)
DueTimeNotLost ==
  \A d \in passedOver : d \in troubled \/ \E x \in queuedFor : x.due = d

(***************************************************************************)
(* next_run_at belongs to the settings of the schedule, unless it was      *)
(* edited while a worker held the settings it read before                  *)
(* (updateReportSchedule against processDueReportSchedules).               *)
(***************************************************************************)
NextRunFollowsSettings ==
  \A s \in Schedules : Live(s) => schedule[s].next % Cycle = schedule[s].sendAt \/ s \in outdated

(***************************************************************************)
(* Each due time of a schedule gets its run, once, and the next one        *)
(* follows the settings, whatever is edited meanwhile; exceptions need an  *)
(* overlap or a lost worker.                                               *)
(***************************************************************************)
DueTimesAnswered ==
  /\ DueTimeRunOnce
  /\ DueTimeNotLost
  /\ NextRunFollowsSettings
=============================================================================
