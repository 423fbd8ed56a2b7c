----------------------------- MODULE Automations -----------------------------
(***************************************************************************)
(* The messages automations send by themselves: every replica hourly, and  *)
(* staff on request (StartAutomation, runCampaignAutomations), collect the *)
(* customers with an occasion and claim, send and record a message for     *)
(* each (processCampaignAutomations). The WhatsApp provider reports what   *)
(* became of them (whatsAppStatusWebhook).                                 *)
(*                                                                         *)
(* A candidate is a trigger: the customer and the occasion in trigger_key. *)
(* Neither the five minutes after which a pending message may be taken     *)
(* over nor the pauses between attempts are timed.                         *)
(***************************************************************************)
EXTENDS Integers, FiniteSets

CONSTANTS
  Triggers,
  Automata,            \* workers, and staff who run the automations
  MaxMessageAttempts,  \* 3
  MaxMessages,         \* bound on messages accepted by the provider
  MaxAutomationFaults  \* bound on workers lost

ASSUME AutomationsAssumption ==
  /\ MaxMessageAttempts \in Nat \ {0} /\ {MaxMessages, MaxAutomationFaults} \subseteq Nat
  /\ "none" \notin Triggers

VARIABLES
  active,            \* campaign_automations.is_active
  current,           \* triggers whose occasion lasts
  outcome,           \* campaign_automation_runs
  automaton,         \* what each worker is doing
  received,          \* messages the customer of each trigger got
  accepted,          \* messages the provider accepted
  reports,           \* history: messages reported delivered, and of those the ones no run had yet
  automationFaults,
  doubtful           \* history: triggers taken over, lost, or failed after sending

autoVars == <<active, current, outcome, automaton, received, accepted, reports, automationFaults, doubtful>>

NoTrigger == "none"
Busy(at, batch, trigger, result, id) ==
  [at |-> at, batch |-> batch, trigger |-> trigger, result |-> result, id |-> id]
Asleep == Busy("idle", {}, NoTrigger, "none", 0)
Continue(rest) == IF rest = {} THEN Asleep ELSE Busy("claim", rest, NoTrigger, "none", 0)
Outcome(status, attempts, id, delivered, event) ==
  [status |-> status, attempts |-> attempts, id |-> id, delivered |-> delivered, event |-> event]
NoOutcome == Outcome("none", 0, 0, FALSE, FALSE)

AutoInit ==
  /\ active = TRUE
  /\ current = Triggers
  /\ outcome = [k \in Triggers |-> NoOutcome]
  /\ automaton = [w \in Automata |-> Asleep]
  /\ received = [k \in Triggers |-> 0]
  /\ accepted = 0
  /\ reports = [delivered |-> {}, early |-> {}]
  /\ automationFaults = 0
  /\ doubtful = {}

-----------------------------------------------------------------------------
\* updateCampaignAutomation.
SwitchAutomation ==
  /\ active' = ~active
  /\ UNCHANGED <<current, outcome, automaton, received, accepted, reports, automationFaults, doubtful>>

\* The birthday is over, the bonus has expired, the customer came back or was deleted.
OccasionPasses(k) ==
  /\ current' = current \ {k}
  /\ UNCHANGED <<active, outcome, automaton, received, accepted, reports, automationFaults, doubtful>>

\* The candidates of active automations are read first.
CollectCandidates(w) ==
  /\ automaton[w].at = "idle"
  /\ automaton' = [automaton EXCEPT ![w] = Continue(IF active THEN current ELSE {})]
  /\ UNCHANGED <<active, current, outcome, received, accepted, reports, automationFaults, doubtful>>

MayClaimFailed(r) == r.status \in {"none", "pending", "failed"}

MayClaimUnlessSkipped(r) == r.status # "skipped" /\ r.attempts < MaxMessageAttempts

MayClaimNewOnly(r) == r.status = "none"

\* The insert, or a pending run of five minutes ago, or a failed one with attempts left.
MayClaim(r) ==
  r.status \in {"none", "pending"} \/ (r.status = "failed" /\ r.attempts < MaxMessageAttempts)

ClaimTrigger(w) ==
  \E k \in automaton[w].batch :
    /\ automaton[w].at = "claim"
    /\ MayClaim(outcome[k])
    /\ outcome' = [outcome EXCEPT ![k] = Outcome("pending", @.attempts + 1, @.id, @.delivered, @.event)]
    /\ automaton' = [automaton EXCEPT ![w] = Busy("send", @.batch \ {k}, k, "none", 0)]
    /\ doubtful' = IF outcome[k].status = "pending" THEN doubtful \cup {k} ELSE doubtful
    /\ UNCHANGED <<active, current, received, accepted, reports, automationFaults>>

\* A run that is settled, or that was claimed or failed only just now, is passed over.
PassOver(w) ==
  \E k \in automaton[w].batch :
    /\ automaton[w].at = "claim"
    /\ outcome[k].status # "none"
    /\ automaton' = [automaton EXCEPT ![w] = Continue(@.batch \ {k})]
    /\ UNCHANGED <<active, current, outcome, received, accepted, reports, automationFaults, doubtful>>

(***************************************************************************)
(* The message: accepted under an id of the provider, refused, or refused  *)
(* after it was sent (an error of QUIT, a time-out). A customer without an *)
(* address is skipped.                                                     *)
(***************************************************************************)
SendMessage(w) ==
  LET k == automaton[w].trigger IN
  /\ automaton[w].at = "send"
  /\ \E result \in {"sent", "failed", "skipped"}, n \in {0, 1} :
       /\ result = "sent" => n = 1
       /\ result = "skipped" => n = 0
       /\ accepted + n <= MaxMessages
       /\ accepted' = accepted + n
       /\ received' = [received EXCEPT ![k] = @ + n]
       /\ automaton' = [automaton EXCEPT ![w] =
            Busy("record", @.batch, k, result, IF result = "sent" THEN accepted + 1 ELSE 0)]
       /\ doubtful' = IF result = "failed" /\ n = 1 THEN doubtful \cup {k} ELSE doubtful
  /\ UNCHANGED <<active, current, outcome, reports, automationFaults>>

\* The outcome is written to the run whatever happened to it since.
RecordMessage(w) ==
  LET k == automaton[w].trigger  result == automaton[w].result IN
  /\ automaton[w].at = "record"
  /\ outcome' = [outcome EXCEPT ![k] = Outcome(result, @.attempts, automaton[w].id, @.delivered, @.event)]
  /\ automaton' = [automaton EXCEPT ![w] =
       IF result = "sent" THEN Busy("event", @.batch, k, result, @.id) ELSE Continue(@.batch)]
  /\ UNCHANGED <<active, current, received, accepted, reports, automationFaults, doubtful>>

\* The timeline event, once per run; then the next candidate.
AppendSent(w) ==
  /\ automaton[w].at = "event"
  /\ outcome' = [outcome EXCEPT ![automaton[w].trigger] = Outcome(@.status, @.attempts, @.id, @.delivered, TRUE)]
  /\ automaton' = [automaton EXCEPT ![w] = Continue(@.batch)]
  /\ UNCHANGED <<active, current, received, accepted, reports, automationFaults, doubtful>>

\* The worker stops, or a statement of its own fails and ends the pass.
LoseAutomaton(w) ==
  /\ automaton[w].at # "idle"
  /\ automationFaults < MaxAutomationFaults /\ automationFaults' = automationFaults + 1
  /\ doubtful' = IF automaton[w].trigger = NoTrigger THEN doubtful ELSE doubtful \cup {automaton[w].trigger}
  /\ automaton' = [automaton EXCEPT ![w] = Asleep]
  /\ UNCHANGED <<active, current, outcome, received, accepted, reports>>

StatusKeepsLast(r, status) == Outcome(r.status, r.attempts, r.id, status = "delivered", r.event)

\* delivered_at is set by the first such report and kept.
StatusReported(r, status) ==
  Outcome(r.status, r.attempts, r.id, r.delivered \/ status = "delivered", r.event)

(***************************************************************************)
(* whatsAppStatusWebhook: reports come in any order and again; one that    *)
(* finds no run with the message's id is answered and forgotten.           *)
(***************************************************************************)
ProviderReports(id, status) ==
  /\ id \in 1 .. accepted
  /\ outcome' = [k \in Triggers |-> IF outcome[k].id = id THEN StatusReported(outcome[k], status) ELSE outcome[k]]
  /\ reports' = IF status # "delivered" THEN reports ELSE
       [delivered |-> reports.delivered \cup {id},
        early |-> IF \E k \in Triggers : outcome[k].id = id THEN reports.early ELSE reports.early \cup {id}]
  /\ UNCHANGED <<active, current, automaton, received, accepted, automationFaults, doubtful>>

AutomatonStep(w) ==
  \/ CollectCandidates(w) \/ ClaimTrigger(w) \/ PassOver(w) \/ SendMessage(w) \/ RecordMessage(w) \/ AppendSent(w)

AutoNext ==
  \/ SwitchAutomation
  \/ \E k \in Triggers : OccasionPasses(k)
  \/ \E w \in Automata : AutomatonStep(w) \/ LoseAutomaton(w)
  \/ \E id \in 1 .. MaxMessages, status \in {"sent", "delivered"} : ProviderReports(id, status)

(***************************************************************************)
(* The hourly loop of StartAutomation never ends, and does not pass over a *)
(* run for ever that it may claim: the five minutes are over some time.    *)
(***************************************************************************)
AutoFairness == \A w \in Automata : WF_autoVars(AutomatonStep(w)) /\ SF_autoVars(ClaimTrigger(w))

AutoSpec == AutoInit /\ [][AutoNext]_autoVars /\ AutoFairness

-----------------------------------------------------------------------------
(***************************************************************************)
(* A trigger's customer gets one message, unless an attempt was taken over *)
(* or lost before its outcome was recorded, or failed after sending.       *)
(***************************************************************************)
TriggerMailedOnce == \A k \in Triggers : received[k] > 1 => k \in doubtful

(***************************************************************************)
(* A failed message is tried again until MaxMessageAttempts and no more,   *)
(* unless the run was taken over while pending.                            *)
(***************************************************************************)
MessageAttemptsBounded == \A k \in Triggers : outcome[k].attempts > MaxMessageAttempts => k \in doubtful

(***************************************************************************)
(* A message reported delivered is recorded as delivered and stays so,     *)
(* whatever is reported or tried later, unless the report came before the  *)
(* id it names was recorded (whatsAppStatusWebhook).                       *)
(***************************************************************************)
DeliveryReportCounts ==
  \A k \in Triggers :
    outcome[k].id \in reports.delivered => outcome[k].delivered \/ outcome[k].id \in reports.early

\* A pending message is settled, while its automation is active and its occasion lasts.
PendingSettles ==
  \A k \in Triggers :
    outcome[k].status = "pending" ~> outcome[k].status # "pending" \/ ~active \/ k \notin current

(***************************************************************************)
(* A trigger sends one message in a bounded number of attempts and keeps   *)
(* the provider's report of its delivery, unless an attempt was taken      *)
(* over, lost or reported early.                                           *)
(***************************************************************************)
MessagesAccounted ==
  /\ TriggerMailedOnce
  /\ MessageAttemptsBounded
  /\ DeliveryReportCounts
=============================================================================
