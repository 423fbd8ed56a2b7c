------------------------------ MODULE MCWorkers ------------------------------
(***************************************************************************)
(* One run for what the background workers do in a company's workspace:    *)
(* report schedules, report runs, campaigns and automations, and the       *)
(* subscription that allows it all. They share no state, so each behaviour *)
(* exercises one of them.                                                  *)
(***************************************************************************)
EXTENDS ReportSchedules, ReportRuns, Campaigns, Automations, Subscriptions

VARIABLE part

mcVars == <<part, planVars, runVars, campVars, autoVars, subVars>>

\* Where the subscription is not the part at work, it starts in one way only.
MCInit ==
  /\ part \in {"plan", "run", "campaign", "automation", "subscription"}
  /\ PlanInit /\ RunInit /\ CampInit /\ AutoInit /\ SubInit
  /\ part # "subscription" => used = 0 /\ \A s \in subscription : s.plan = 1 /\ s.status = "trial"

MCNext ==
  /\ UNCHANGED part
  /\ \/ part = "plan" /\ PlanNext /\ UNCHANGED <<runVars, campVars, autoVars, subVars>>
     \/ part = "run" /\ RunNext /\ UNCHANGED <<planVars, campVars, autoVars, subVars>>
     \/ part = "campaign" /\ CampNext /\ UNCHANGED <<planVars, runVars, autoVars, subVars>>
     \/ part = "automation" /\ AutoNext /\ UNCHANGED <<planVars, runVars, campVars, subVars>>
     \/ part = "subscription" /\ SubNext /\ UNCHANGED <<planVars, runVars, campVars, autoVars>>

\* As in RunSpec, AutoSpec and SubSpec; a part that is not exercised has no fairness.
MCSpec ==
  /\ MCInit /\ [][MCNext]_mcVars
  /\ \A w \in Couriers : WF_runVars(part = "run" /\ CourierStep(w))
  /\ \A w \in Automata :
       WF_autoVars(part = "automation" /\ AutomatonStep(w)) /\ SF_autoVars(part = "automation" /\ ClaimTrigger(w))
  /\ WF_subVars(part = "subscription" /\ SweepSubscriptions)

(***************************************************************************)
(* With fair workers every report run settles, every pending message is    *)
(* settled and what has run out is marked as expired.                      *)
(***************************************************************************)
WorkEnds ==
  /\ RunSettles
  /\ PendingSettles
  /\ ExpiryPersisted
=============================================================================
