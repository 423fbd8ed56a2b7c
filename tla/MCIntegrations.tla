--------------------------- MODULE MCIntegrations ----------------------------
(***************************************************************************)
(* One run for the four components of the integrations. They share no rows *)
(* (an outbox event, a source or a notice is a constant of its module), so *)
(* each behaviour exercises one of them, named by part, while the others   *)
(* stay in their initial state; the states add up instead of multiplying.  *)
(* PosterSync is exercised five times, each time with one more actor: lost *)
(* workers, an operator who retries a job or an import, each beside a lost *)
(* close event, a cashier who refunds, or the daily jobs of two days.      *)
(***************************************************************************)
EXTENDS Webhooks, InboundWebhook, PosterSync, Projection

CONSTANTS e1, e2, p1, x1, i1

VARIABLE part

mcVars == <<part, outVars, inVars, posterVars, projVars>>

AllSubscribed == Endpoints \X Events

MCInit ==
  /\ part \in {"out", "in", "lost", "retried", "imported", "cashier", "daily", "projection"}
  /\ OutInit /\ InInit /\ PosterInit /\ ProjInit

Never(S) == \A j \in S : job'[j].status = "none"

PosterPart ==
  /\ PosterNext
  /\ part = "lost" \/ runnerFaults' = 0
  /\ part = "retried" \/ revivals' = 0
  /\ part = "daily" \/ tick' = 0
  /\ part \in {"imported", "cashier"} \/ \A x \in Tickets : "staff" \notin sale'[x].under
  /\ CASE part \in {"lost", "cashier"} -> Never(ImportJobs)
       [] part = "retried" -> Never(ImportJobs \cup (Tickets \X {"close"}))
       [] part = "imported" -> Never(DailyJobs \cup (Tickets \X {"close"}))
       [] part = "daily" -> Never(WebhookJobs \cup (ImportJobs \ DailyJobs))
       [] OTHER -> FALSE

MCNext ==
  /\ UNCHANGED part
  /\ \/ part = "out" /\ OutNext /\ UNCHANGED <<inVars, posterVars, projVars>>
     \/ part = "in" /\ InNext /\ UNCHANGED <<outVars, posterVars, projVars>>
     \/ PosterPart /\ UNCHANGED <<outVars, inVars, projVars>>
     \/ part = "projection" /\ ProjNext /\ UNCHANGED <<outVars, inVars, posterVars>>

\* As in OutSpec, PosterSpec and ProjSpec; a part that is not exercised has no fairness.
MCSpec ==
  /\ MCInit /\ [][MCNext]_mcVars
  /\ \A w \in Senders : WF_outVars(part = "out" /\ SenderStep(w))
  /\ \A w \in Runners : WF_posterVars(part \notin {"out", "in", "projection"} /\ RunnerStep(w))
  /\ \A w \in Analysts :
       /\ WF_projVars(part = "projection" /\ AnalystStep(w))
       /\ SF_projVars(part = "projection" /\ LockCompany(w))

(***************************************************************************)
(* With fair workers nothing in the integrations waits for ever: every     *)
(* delivery and every Poster event is settled and every source projected,  *)
(* failures included, unless a worker was lost with it.                    *)
(***************************************************************************)
WorkSettles ==
  /\ DeliverySettles
  /\ EventSettles
  /\ SourceProjected
=============================================================================
