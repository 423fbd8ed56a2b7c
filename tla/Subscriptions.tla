---------------------------- MODULE Subscriptions ----------------------------
(***************************************************************************)
(* A company's subscriptions, what they allow, and a resource they limit.  *)
(* The platform's administrators replace the subscription                  *)
(* (adminUpdateSubscription), a worker marks what has run out as expired,  *)
(* requireWritableSubscription admits requests and checkLimit counts       *)
(* before branches, employees, devices and connections are added: one of   *)
(* these resources is modelled.                                            *)
(*                                                                         *)
(* A plan is named by the number it allows. created_at is the moment the   *)
(* inserting transaction began. Prices and dates are left out; a period    *)
(* with an end may be over at any time. So are the owner's own changes of  *)
(* single modules (updateModule).                                          *)
(***************************************************************************)
EXTENDS Integers, FiniteSets

CONSTANTS
  Plans,       \* of plans_v2
  Admins,      \* requests of administrators
  Creators,    \* requests that add one
  MaxUpdates   \* bound on updates of the subscription

ASSUME SubscriptionsAssumption ==
  Plans \subseteq Nat /\ Plans # {} /\ MaxUpdates \in Nat /\ IsFiniteSet(Creators)

VARIABLES
  subscription,  \* the company's rows
  updates,       \* updates begun: the clock of created_at
  admin,         \* the administrators' transactions
  modulesOf,     \* company_modules: the update that set them
  used,          \* rows of the limited resource
  creator,       \* requests between the count and the insert
  overlaps       \* history: what overlapped, lowered a limit or outlived its row

subVars == <<subscription, updates, admin, modulesOf, used, creator, overlaps>>

LiveStatuses == {"trial", "active", "past_due"}
Row(made, plan, status, over) == [made |-> made, plan |-> plan, status |-> status, over |-> over]
Update(at, made, seen) == [at |-> at, made |-> made, seen |-> seen]
NoUpdate == Update("idle", 0, {})
LiveRows == {s \in subscription : s.status \in LiveStatuses}

(***************************************************************************)
(* adminProvisionCompany and adminCreateCompany: a trial or an active      *)
(* subscription, and a first branch, which every plan allows, or none.     *)
(***************************************************************************)
SubInit ==
  /\ \E plan \in Plans, status \in {"trial", "active"} :
       subscription = {Row(0, plan, status, FALSE)}
  /\ updates = 0
  /\ admin = [q \in Admins |-> NoUpdate]
  /\ modulesOf = 0
  /\ used \in {0, 1} /\ \A s \in subscription : used <= s.plan
  /\ creator = [c \in Creators |-> FALSE]
  /\ overlaps = {}

-----------------------------------------------------------------------------
AdminBegin(q) ==
  /\ admin[q].at = "idle"
  /\ updates < MaxUpdates /\ updates' = updates + 1
  /\ admin' = [admin EXCEPT ![q] = Update("begun", updates + 1, {})]
  /\ overlaps' = IF \E p \in Admins : admin[p].at # "idle" THEN overlaps \cup {"updates"} ELSE overlaps
  /\ UNCHANGED <<subscription, modulesOf, used, creator>>

\* The first UPDATE finds the live row; it may have to wait for another transaction to let go of it.
AdminFindsLive(q) ==
  /\ admin[q].at = "begun"
  /\ admin' = [admin EXCEPT ![q] = Update("found", @.made, {s.made : s \in LiveRows})]
  /\ UNCHANGED <<subscription, updates, modulesOf, used, creator, overlaps>>

InFlight == Cardinality({c \in Creators : creator[c]})

CancelledRows(rows) == {Row(s.made, s.plan, "cancelled", s.over) : s \in rows}

(***************************************************************************)
(* The live row it found, if still live, is cancelled, the new row and its *)
(* modules are written. Another live row refuses a live one                *)
(* (subscriptions_one_current_idx), and all is rolled back.                *)
(***************************************************************************)
AdminWritesPiecemeal(q, plan, status) ==
  LET found == {s \in LiveRows : s.made \in admin[q].seen}
      new == Row(admin[q].made, plan, status, FALSE)
      refused == status \in LiveStatuses /\ LiveRows # found
  IN /\ admin[q].at = "found"
     /\ subscription' = IF refused THEN subscription ELSE (subscription \ found) \cup CancelledRows(found) \cup {new}
     /\ modulesOf' = admin[q].made
     /\ admin' = [admin EXCEPT ![q] = NoUpdate]
     /\ overlaps' = overlaps \cup {x \in {"lowered"} : ~refused /\ used + InFlight > plan}
                            \cup {x \in {"survivor"} : ~refused /\ LiveRows # found}
     /\ UNCHANGED <<updates, used, creator>>

AdminCommit(q, plan, status) ==
  LET found == {s \in LiveRows : s.made \in admin[q].seen}
      new == Row(admin[q].made, plan, status, FALSE)
      refused == status \in LiveStatuses /\ LiveRows # found
  IN /\ admin[q].at = "found"
     /\ subscription' = IF refused THEN subscription ELSE (subscription \ found) \cup CancelledRows(found) \cup {new}
     /\ modulesOf' = IF refused THEN modulesOf ELSE admin[q].made
     /\ admin' = [admin EXCEPT ![q] = NoUpdate]
     /\ overlaps' = overlaps \cup {x \in {"lowered"} : ~refused /\ used + InFlight > plan}
                            \cup {x \in {"survivor"} : ~refused /\ LiveRows # found}
     /\ UNCHANGED <<updates, used, creator>>

\* current_period_ends_at passes.
PeriodEnds ==
  \E s \in LiveRows :
    /\ ~s.over
    /\ subscription' = (subscription \ {s}) \cup {Row(s.made, s.plan, s.status, TRUE)}
    /\ UNCHANGED <<updates, admin, modulesOf, used, creator, overlaps>>

RunOutTrials == {s \in subscription : s.status = "trial" /\ s.over}

\* A subscription with payment overdue does not run out.
RunOut == {s \in subscription : s.status \in {"trial", "active"} /\ s.over}

\* The worker's UPDATE, every minute.
SweepSubscriptions ==
  /\ subscription' = (subscription \ RunOut) \cup {Row(s.made, s.plan, "expired", s.over) : s \in RunOut}
  /\ UNCHANGED <<updates, admin, modulesOf, used, creator, overlaps>>

-----------------------------------------------------------------------------
Newest(rows) == CHOOSE s \in rows : \A t \in rows : t.made <= s.made

OldestRow == CHOOSE s \in subscription : \A t \in subscription : t.made >= s.made

\* requireWritableSubscription looks at the newest row, whatever its status.
LatestRow == Newest(subscription)

Writable ==
  LatestRow.status \notin {"cancelled", "expired"} /\ (LatestRow.over => LatestRow.status = "past_due")

WithinLimitPlusOne == LiveRows # {} /\ used <= Newest(LiveRows).plan

\* checkLimit, of the newest live row.
WithinLimit == LiveRows # {} /\ used < Newest(LiveRows).plan

CheckLimit(c) ==
  /\ ~creator[c]
  /\ Writable /\ WithinLimit
  /\ creator' = [creator EXCEPT ![c] = TRUE]
  /\ overlaps' = IF \E d \in Creators : creator[d] THEN overlaps \cup {"creators"} ELSE overlaps
  /\ UNCHANGED <<subscription, updates, admin, modulesOf, used>>

\* The row is inserted, or the request fails.
AddOne(c) ==
  /\ creator[c]
  /\ used' \in {used, used + 1}
  /\ creator' = [creator EXCEPT ![c] = FALSE]
  /\ UNCHANGED <<subscription, updates, admin, modulesOf, overlaps>>

RemoveOne ==
  /\ used > 0 /\ used' = used - 1
  /\ UNCHANGED <<subscription, updates, admin, modulesOf, creator, overlaps>>

SubNext ==
  \/ \E q \in Admins :
       \/ AdminBegin(q) \/ AdminFindsLive(q)
       \/ \E plan \in Plans, status \in LiveStatuses \cup {"cancelled", "expired"} : AdminCommit(q, plan, status)
  \/ PeriodEnds \/ SweepSubscriptions \/ RemoveOne
  \/ \E c \in Creators : CheckLimit(c) \/ AddOne(c)

\* StartSubscriptionLifecycleWorker runs every minute.
SubSpec == SubInit /\ [][SubNext]_subVars /\ WF_subVars(SweepSubscriptions)

-----------------------------------------------------------------------------
(***************************************************************************)
(* A company with a live subscription that is not over may write, unless   *)
(* two administrators' updates overlapped: the row of the transaction that *)
(* began first may then be the live one (requireWritableSubscription takes *)
(* the newest row of any status, checkLimit the newest live one).          *)
(***************************************************************************)
WritableWhilePaid ==
  (\E s \in LiveRows : ~s.over \/ s.status = "past_due") => Writable \/ "updates" \in overlaps

(***************************************************************************)
(* The modules are those of the update that made the live subscription,    *)
(* also where updates overlapped and one was rolled back, unless an update *)
(* that ends the subscription missed one made since it began.              *)
(***************************************************************************)
ModulesMatchPlan ==
  \A s \in LiveRows : modulesOf = s.made \/ "survivor" \in overlaps

(***************************************************************************)
(* A plan's limit is exceeded only by requests that counted before another *)
(* inserted (checkLimit), or under a plan that allows less than before.    *)
(***************************************************************************)
PlanLimitHeld ==
  LiveRows # {} /\ used > Newest(LiveRows).plan => overlaps \cap {"creators", "lowered"} # {}

\* What has run out is marked as expired (StartSubscriptionLifecycleWorker).
ExpiryPersisted ==
  LET due == \E s \in subscription : s.over /\ s.status \in {"trial", "active"} IN due ~> ~due

(***************************************************************************)
(* The live subscription is the one in force: it admits writes, has its    *)
(* modules and bounds what is created, except for the overlaps each part   *)
(* names.                                                                  *)
(***************************************************************************)
SubscriptionInForce ==
  /\ WritableWhilePaid
  /\ ModulesMatchPlan
  /\ PlanLimitHeld
=============================================================================
