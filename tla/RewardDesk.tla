------------------------------ MODULE RewardDesk ------------------------------
(***************************************************************************)
(* The life of the rewards of one definition: staff issue them by hand     *)
(* (issueReward), visits unlock them (createVisit), staff reserve, redeem  *)
(* and cancel them (transitionReward and the older endpoint                *)
(* transitionRewardDirect), and the sweep (StartRewardExpiryWorker, or     *)
(* expireRewards on demand) releases reservations that ran out and closes  *)
(* rewards past their validity.                                            *)
(*                                                                         *)
(* As in BonusDesk a handler is a Begin step (BEGIN fixes now(), and the   *)
(* lookup of the idempotency key, which takes no lock) and a Commit step   *)
(* (everything under the row lock of the definition or of the reward).     *)
(* Two clocks meet here: SQL compares with now(), the time of BEGIN, Go    *)
(* with time.Now(), read under the lock; in the model req[s].at and clock. *)
(***************************************************************************)
EXTENDS RewardStock, FiniteSetsExt, TLC

CONSTANTS
  Customers,        \* customers of the company
  ClientKeys,       \* idempotency keys clients send, 0 for none
  Reservation,      \* length of a reservation (15 minutes by default)
  SweepBatch,       \* rewardExpiryBatch
  Sweepers,         \* the worker and the staff who sweep on demand
  Worker,           \* the worker among them
  Kinds,            \* handlers the clients of this instance call
  Slots,            \* requests in flight at once
  MaxClock          \* bound on time

ASSUME RewardDeskAssumption ==
  /\ ClientKeys \subseteq Nat
  /\ Reservation \in Nat \ {0}
  /\ SweepBatch \in Nat \ {0}
  /\ Worker \in Sweepers
  /\ MaxClock \in Nat

VARIABLES
  clock,        \* the latest timestamp
  stock,        \* the reward tables
  definition,   \* reward_definitions.is_active and deleted_at
  archived,     \* customers with deleted_at set
  visited,      \* customers.total_visits
  req,          \* the request each slot serves
  sweep,        \* now() of each sweeper's transaction, Never when it has none
  answers       \* what clients that sent a key were told: reward, key and status

vars == <<clock, stock, definition, archived, visited, req, sweep, answers>>

Nobody == "nobody"
Idle == [kind |-> "idle", customer |-> Nobody, id |-> 0, target |-> "none",
         key |-> NoKey, at |-> 0]

Init ==
  /\ clock = 0
  /\ stock = EmptyStock
  /\ definition = "active"
  /\ archived = {}
  /\ visited = [c \in Customers |-> 0]
  /\ req = [s \in Slots |-> Idle]
  /\ sweep = [w \in Sweepers |-> Never]
  /\ answers = {}

Ids == 1..Len(stock.rewards)
Now == clock + 1

Begin(s, kind, c, id, target, key) ==
  /\ kind \in Kinds
  /\ req[s] = Idle
  /\ clock < MaxClock
  /\ clock' = Now
  /\ req' = [req EXCEPT ![s] = [kind |-> kind, customer |-> c, id |-> id,
                                target |-> target, key |-> key, at |-> Now]]
  /\ UNCHANGED <<stock, definition, archived, visited, sweep, answers>>

Finish(s) == req' = [req EXCEPT ![s] = Idle]

-----------------------------------------------------------------------------
(* issueReward.  A key that is found returns the reward it names; nothing  *)
(* changes then, so only the other case is a step.                         *)

IssueKey(k) == IF k = 0 THEN NoKey ELSE <<"client", "", k>>

IssueBegin(s, c, k) ==
  /\ Existing(stock, IssueKey(k)) = {}
  /\ Begin(s, "issue", c, 0, "none", IssueKey(k))

IssueCommit(s) ==
  /\ req[s].kind = "issue"
  /\ definition = "active"
  /\ ~IssueRefused(stock, req[s].customer, req[s].at)
  /\ req[s].customer \notin archived
  /\ stock' = IssueRow(stock, req[s].customer, req[s].key, req[s].at, clock)
  /\ Finish(s)
  /\ UNCHANGED <<clock, definition, archived, visited, sweep, answers>>

(* createVisit, as far as rewards are concerned. *)

VisitBegin(s, c) == Begin(s, "visit", c, 0, "none", NoKey)

VisitCommit(s) ==
  LET c == req[s].customer
  IN  /\ req[s].kind = "visit"
      /\ c \notin archived
      /\ visited' = [visited EXCEPT ![c] = @ + 1]
      /\ stock' = IF definition = "active"
                  THEN EvaluateRewardEvent(stock, c, visited[c] + 1, req[s].at, clock)
                  ELSE stock
      /\ Finish(s)
      /\ UNCHANGED <<clock, definition, archived, sweep, answers>>

-----------------------------------------------------------------------------
(* reserveReward, redeemReward, cancelReward (kind "transition") and       *)
(* updateReward (kind "direct").                                           *)

Targets == {"reserved", "redeemed", "cancelled"}
Transitions == {"transition", "direct"}

\* The key is made from the target asked for, before expiry can change it.
TransitionKey(target, id, k) == IF k = 0 THEN NoKey ELSE <<target, id, k>>

\* History: the answers that a retry with the same key could contradict.
Answer(id, key, status) ==
  IF key = NoKey THEN {} ELSE {[id |-> id, key |-> key, status |-> status]}

Replayed(key) ==
  key # NoKey /\ \E i \in 1..Len(stock.trail) : stock.trail[i].key = key

TransitionBegin(s, kind, id, target, k) ==
  /\ id \in Ids
  /\ ~Replayed(TransitionKey(target, id, k))
  /\ Begin(s, kind, Nobody, id, target, TransitionKey(target, id, k))

\* A key on the trail: the handler answers the target asked for.
TransitionReplay(kind, id, target, k) ==
  /\ kind \in Kinds
  /\ id \in Ids
  /\ Replayed(TransitionKey(target, id, k))
  /\ answers' = answers \cup Answer(id, TransitionKey(target, id, k), target)
  /\ UNCHANGED <<clock, stock, definition, archived, visited, req, sweep>>

RanOut(r, t) == r.status = "reserved" /\ r.until <= t

\* effectiveRewardStatus
Effective(r, t) == IF RanOut(r, t) THEN "available" ELSE r.status

\* The switch over the target; r.status is resolved first.
ValidAnyStatus(r, target, t) == TRUE

Valid(r, target, t) ==
  \/ target = "reserved" /\ Effective(r, t) = "available"
  \/ target # "reserved" /\ Effective(r, t) \in {"available", "reserved"}

SetStatus(r, status, until) ==
  [customer |-> r.customer, key |-> r.key, status |-> status, at |-> r.at,
   expires |-> r.expires, until |-> until]

\* The UPDATE, the trail row and the timeline event of one transition.
Transition(id, target, key) ==
  LET r == stock.rewards[id]
  IN  [issued   |-> stock.issued,
       rewards  |-> [stock.rewards EXCEPT ![id] =
                       SetStatus(r, target,
                                 IF target = "reserved" THEN clock + Reservation ELSE Never)],
       trail    |-> AppendTrail(stock.trail,
                                TrailRow(id, target, Effective(r, clock), target, key)),
       progress |-> stock.progress,
       timeline |-> IF target = "redeemed"
                    THEN stock.timeline \cup {<<"reward.redeemed", id>>}
                    ELSE stock.timeline]

\* transitionReward turns every request on an expired reward into an expiry.
Outcome(s) ==
  IF PastValidity(stock.rewards[req[s].id], clock) THEN "expired" ELSE req[s].target

TransitionCommit(s) ==
  LET id == req[s].id
  IN  /\ req[s].kind = "transition"
      /\ Valid(stock.rewards[id], Outcome(s), clock)
      /\ stock' = Transition(id, Outcome(s), req[s].key)
      /\ answers' = answers \cup Answer(id, req[s].key, Outcome(s))
      /\ Finish(s)
      /\ UNCHANGED <<clock, definition, archived, visited, sweep>>

\* transitionRewardDirect refuses on an expired reward.
DirectCommit(s) ==
  LET id == req[s].id
  IN  /\ req[s].kind = "direct"
      /\ Valid(stock.rewards[id], req[s].target, clock)
      /\ ~PastValidity(stock.rewards[id], clock)
      /\ stock' = Transition(id, req[s].target, req[s].key)
      /\ answers' = answers \cup Answer(id, req[s].key, req[s].target)
      /\ Finish(s)
      /\ UNCHANGED <<clock, definition, archived, visited, sweep>>

-----------------------------------------------------------------------------
(* sweepCompanyRewardExpiry: two UPDATEs in one transaction.  SKIP LOCKED  *)
(* leaves out the rows another transaction holds.                          *)

SweepBegin(w) ==
  /\ "sweep" \in Kinds
  /\ sweep[w] = Never
  /\ clock > 0
  /\ sweep' = [sweep EXCEPT ![w] = clock]
  /\ UNCHANGED <<clock, stock, definition, archived, visited, req, answers>>

\* The rows somebody else may have locked while w runs.
MayBeLocked(w) ==
  {req[s].id : s \in {x \in Slots : req[x].kind \in Transitions}}
  \cup (IF \E v \in Sweepers \ {w} : sweep[v] # Never THEN Ids ELSE {})

\* ORDER BY f LIMIT SweepBatch: the choices among equal values are all possible.
Batches(due, f(_)) ==
  {b \in SUBSET due :
     /\ Cardinality(b) = Min({SweepBatch, Cardinality(due)})
     /\ \A i \in b, j \in due \ b : f(i) <= f(j)}

ToRelease(now) ==
  {i \in Ids : RanOut(stock.rewards[i], now) /\ ~PastValidity(stock.rewards[i], now)}

ToCloseAnyStatus(now) == {i \in Ids : PastValidity(stock.rewards[i], now)}

ToCloseAvailable(now) ==
  {i \in Ids : /\ stock.rewards[i].status = "available"
               /\ PastValidity(stock.rewards[i], now)}

ToClose(now) ==
  {i \in Ids : Open(stock.rewards[i]) /\ PastValidity(stock.rewards[i], now)}

SweptOperationAsStatus(released, closed) ==
  [i \in Ids |->
     IF i \in released THEN SetStatus(stock.rewards[i], "reservation_released", Never)
     ELSE IF i \in closed
     THEN SetStatus(stock.rewards[i], "expired", stock.rewards[i].until)
     ELSE stock.rewards[i]]

\* The rewards after both updates; a closed one keeps its reserved_until.
Swept(released, closed) ==
  [i \in Ids |->
     IF i \in released THEN SetStatus(stock.rewards[i], "available", Never)
     ELSE IF i \in closed
     THEN SetStatus(stock.rewards[i], "expired", stock.rewards[i].until)
     ELSE stock.rewards[i]]

\* The trail rows of one update; the order within a batch does not matter.
SweptRows(op, to, ids) ==
  [n \in 1..Cardinality(ids) |->
     LET i == CHOOSE i \in ids : Cardinality({j \in ids : j < i}) = n - 1
     IN  TrailRow(i, op, stock.rewards[i].status, to, NoKey)]

SweptTrailReleasesOnly(released, closed) ==
  stock.trail \o SweptRows("reservation_released", "available", released)

SweptTrail(released, closed) ==
  stock.trail \o SweptRows("reservation_released", "available", released)
              \o SweptRows("expired", "expired", closed)

SweepCommit(w, skip) ==
  /\ sweep[w] # Never
  /\ skip \subseteq MayBeLocked(w)
  /\ \E released \in Batches(ToRelease(sweep[w]) \ skip, LAMBDA i : stock.rewards[i].until),
        closed \in Batches(ToClose(sweep[w]) \ skip, LAMBDA i : stock.rewards[i].expires) :
       stock' = [issued   |-> stock.issued,
                 rewards  |-> Swept(released, closed),
                 trail    |-> SweptTrail(released, closed),
                 progress |-> stock.progress,
                 timeline |-> stock.timeline \cup {<<"reward.expired", i>> : i \in closed}]
  /\ sweep' = [sweep EXCEPT ![w] = Never]
  /\ UNCHANGED <<clock, definition, archived, visited, req, answers>>

-----------------------------------------------------------------------------
\* updateRewardDefinition switches is_active, deleteRewardDefinition archives.
UpdateDefinition(status) ==
  /\ "definition" \in Kinds
  /\ definition # "deleted"
  /\ definition # status
  /\ definition' = status
  /\ UNCHANGED <<clock, stock, archived, visited, req, sweep, answers>>

DeleteCustomer(c) ==
  /\ "delete" \in Kinds
  /\ c \notin archived
  /\ archived' = archived \cup {c}
  /\ UNCHANGED <<clock, stock, definition, visited, req, sweep, answers>>

\* A request ends without effect: refused under the lock, failed or crashed.
Abort(s) ==
  /\ req[s] # Idle
  /\ Finish(s)
  /\ UNCHANGED <<clock, stock, definition, archived, visited, sweep, answers>>

SweepAbort(w) ==
  /\ sweep[w] # Never
  /\ sweep' = [sweep EXCEPT ![w] = Never]
  /\ UNCHANGED <<clock, stock, definition, archived, visited, req, answers>>

Tick ==
  /\ clock < MaxClock
  /\ clock' = Now
  /\ UNCHANGED <<stock, definition, archived, visited, req, sweep, answers>>

\* The bound on time is reached and nothing is in flight.
Quiesce ==
  /\ clock = MaxClock
  /\ \A s \in Slots : req[s] = Idle
  /\ \A w \in Sweepers : sweep[w] = Never
  /\ UNCHANGED vars

Next ==
  \/ \E s \in Slots, c \in Customers, k \in ClientKeys : IssueBegin(s, c, k)
  \/ \E s \in Slots : IssueCommit(s)
  \/ \E s \in Slots, c \in Customers : VisitBegin(s, c)
  \/ \E s \in Slots : VisitCommit(s)
  \/ \E s \in Slots, kind \in Transitions, id \in Ids, t \in Targets, k \in ClientKeys :
        TransitionBegin(s, kind, id, t, k)
  \/ \E kind \in Transitions, id \in Ids, t \in Targets, k \in ClientKeys :
        TransitionReplay(kind, id, t, k)
  \/ \E s \in Slots : TransitionCommit(s)
  \/ \E s \in Slots : DirectCommit(s)
  \/ \E w \in Sweepers : SweepBegin(w)
  \/ \E w \in Sweepers : \E skip \in SUBSET MayBeLocked(w) : SweepCommit(w, skip)
  \/ \E status \in {"active", "paused", "deleted"} : UpdateDefinition(status)
  \/ \E c \in Customers : DeleteCustomer(c)
  \/ \E s \in Slots : Abort(s)
  \/ \E w \in Sweepers : SweepAbort(w)
  \/ Tick
  \/ Quiesce

Spec == Init /\ [][Next]_vars

(***************************************************************************)
(* The worker starts a sweep on every tick of its timer, and a sweep that  *)
(* keeps being retried commits some day (SF: a database error loses one    *)
(* tick, not all of them).  Every request ends, because its context does.  *)
(***************************************************************************)
RequestEnds(s) ==
  \/ IssueCommit(s) \/ VisitCommit(s) \/ TransitionCommit(s) \/ DirectCommit(s)
  \/ Abort(s)

Fairness ==
  /\ WF_vars(SweepBegin(Worker))
  /\ SF_vars(\E skip \in SUBSET MayBeLocked(Worker) : SweepCommit(Worker, skip))
  /\ \A s \in Slots : WF_vars(RequestEnds(s))

FairSpec == Spec /\ Fairness
-----------------------------------------------------------------------------
(* Properties *)

Time == 0..MaxClock
Statuses == {"available", "reserved", "redeemed", "cancelled", "expired"}
Closed == {"redeemed", "cancelled", "expired"}

RewardKeys ==
  {NoKey} \cup ({"client"} \X {""} \X ClientKeys) \cup ({"rule"} \X Customers \X Nat)

RewardType ==
  [customer : Customers, key : RewardKeys, status : Statuses, at : Time,
   expires : Nat, until : Nat]

RequestType ==
  [kind : {"idle", "issue", "visit"} \cup Transitions,
   customer : Customers \cup {Nobody}, id : Nat, target : Targets \cup {"none"},
   key : RewardKeys \cup (Targets \X Nat \X ClientKeys), at : Time]

(***************************************************************************)
(* The columns keep the ranges of the schema, and a request in flight      *)
(* names a customer or a reward that exists.                               *)
(***************************************************************************)
TypeOK ==
  /\ clock \in Time
  /\ stock.issued \in Nat
  /\ stock.rewards \in Seq(RewardType)
  /\ definition \in {"active", "paused", "deleted"}
  /\ archived \subseteq Customers
  /\ visited \in [Customers -> Nat]
  /\ sweep \in [Sweepers -> Time]
  /\ req \in [Slots -> RequestType]
  /\ \A s \in Slots :
       /\ req[s].kind \in {"issue", "visit"} => req[s].customer \in Customers
       /\ req[s].kind = "issue" => req[s].key \in RewardKeys
       /\ req[s].kind \in Transitions => req[s].id \in Ids /\ req[s].target \in Targets

(***************************************************************************)
(* inventory_issued never passes inventory_total and never falls behind    *)
(* the rewards that exist, however many staff members and visits issue at  *)
(* once: each of them counts under the definition's row lock.              *)
(***************************************************************************)
InventoryNeverExceeded ==
  /\ Len(stock.rewards) <= stock.issued
  /\ InventoryTotal # -1 => stock.issued <= InventoryTotal

(***************************************************************************)
(* A reward that is not repeatable is held once: a customer has at most    *)
(* one that was not cancelled, also when a visit unlocks it while staff    *)
(* issue it by hand.                                                       *)
(***************************************************************************)
HeldOnce ==
  ~Repeatable =>
    \A i, j \in Ids :
      /\ stock.rewards[i].customer = stock.rewards[j].customer
      /\ stock.rewards[i].status # "cancelled" /\ stock.rewards[j].status # "cancelled"
      => i = j

(***************************************************************************)
(* Two rewards of one customer are at least the cooldown apart, also when  *)
(* the transaction that began first commits last.                          *)
(***************************************************************************)
CooldownRespected ==
  \A i, j \in Ids :
    /\ i # j /\ Cooldown > 0
    /\ stock.rewards[i].customer = stock.rewards[j].customer
    /\ stock.rewards[i].at <= stock.rewards[j].at
    => stock.rewards[j].at - stock.rewards[i].at >= Cooldown

TrailOf(id) == {n \in 1..Len(stock.trail) : stock.trail[n].id = id}

(***************************************************************************)
(* Two reserve requests with one idempotency key that overlap both pass    *)
(* the lookup.  If the second commits after the first ran out, it reserves *)
(* (or expires) the reward again, and ON CONFLICT DO NOTHING drops its     *)
(* audit row.                                                              *)
(***************************************************************************)
ReservedWithKey(id) ==
  \E n \in TrailOf(id) : stock.trail[n].key # NoKey /\ stock.trail[n].to = "reserved"

(***************************************************************************)
(* The newest audit row of a reward says the status it has, except after a *)
(* reserve request repeated with its key: only "reserved" and "expired"    *)
(* can go unrecorded, never a redemption or a cancellation.                *)
(***************************************************************************)
TrailExplainsStatus ==
  \A id \in Ids :
    \/ stock.trail[Max(TrailOf(id))].to = stock.rewards[id].status
    \/ stock.rewards[id].status \in {"reserved", "expired"} /\ ReservedWithKey(id)

(***************************************************************************)
(* A reward is closed at most once: its trail has one closing row, for the *)
(* status it has (or none, in the case above), and none while it is open,  *)
(* although sweeps and staff close rewards concurrently.                   *)
(***************************************************************************)
ClosedOnceOnTrail ==
  \A id \in Ids :
    LET closing == {n \in TrailOf(id) : stock.trail[n].to \in Closed}
    IN  \/ closing = {} /\ Open(stock.rewards[id])
        \/ closing = {} /\ stock.rewards[id].status = "expired" /\ ReservedWithKey(id)
        \/ \E n \in closing : closing = {n} /\ stock.trail[n].to = stock.rewards[id].status

(***************************************************************************)
(* A reward that is past its validity is not handed over any more, and the *)
(* status of a closed reward never changes: no sweep, retry or late        *)
(* request reopens or redeems it again.                                    *)
(***************************************************************************)
ClosedForGood ==
  [][\A id \in Ids :
       /\ id \in Ids'
       /\ stock.rewards[id].status \in Closed =>
            stock'.rewards[id].status = stock.rewards[id].status
       /\ stock'.rewards[id].status = "redeemed" =>
            \/ stock.rewards[id].status = "redeemed"
            \/ ~PastValidity(stock.rewards[id], clock)]_vars

(***************************************************************************)
(* A customer whose reward expired finds reward.expired on the timeline    *)
(* (reward_expiry.go: closing a reward "tells the customer so through      *)
(* their timeline").                                                       *)
(***************************************************************************)
ExpiredOnTimeline ==
  \A id \in Ids :
    stock.rewards[id].status = "expired" => <<"reward.expired", id>> \in stock.timeline

(***************************************************************************)
(* A client that is told "redeemed" has redeemed the reward, also when the *)
(* answer is a replay for a key used before.                               *)
(***************************************************************************)
RedeemedAnswerTrue ==
  \A a \in answers : a.status = "redeemed" => stock.rewards[a.id].status = "redeemed"

Overdue(id) ==
  /\ id \in Ids
  /\ \/ RanOut(stock.rewards[id], clock)
     \/ Open(stock.rewards[id]) /\ PastValidity(stock.rewards[id], clock)

(***************************************************************************)
(* Nothing stays reserved or open after its time: the worker releases the  *)
(* reservation or closes the reward, with a batch smaller than the backlog *)
(* and SKIP LOCKED passing over rows that staff are working on.            *)
(***************************************************************************)
OverdueSwept ==
  \A id \in 1..InventoryTotal : Overdue(id) ~> ~Overdue(id)

(***************************************************************************)
(* reward_transactions can be believed: its newest row says what the       *)
(* reward is and it closes a reward once, whoever reserves, redeems,       *)
(* cancels and sweeps.                                                     *)
(***************************************************************************)
TrailTrue ==
  /\ TypeOK
  /\ ClosedOnceOnTrail
  /\ TrailExplainsStatus
=============================================================================
