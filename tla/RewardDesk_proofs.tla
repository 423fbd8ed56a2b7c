-------------------------- MODULE RewardDesk_proofs --------------------------
(***************************************************************************)
(* Proofs about RewardDesk for every number of customers, slots, sweepers  *)
(* and every inventory, validity, cooldown and batch.                      *)
(*                                                                         *)
(* Every step does one of three things to the rewards: it leaves them      *)
(* (Kept), grants one that nothing forbids (Granted), or moves some of     *)
(* them along their life cycle (Moved).  StepCases shows that once; each   *)
(* theorem then looks at the three cases only.                             *)
(***************************************************************************)
EXTENDS RewardDesk, TLAPS, FiniteSetTheorems

Kept(st) == st.issued = stock.issued /\ st.rewards = stock.rewards

\* r granted to c by a transaction that began at now.
GrantedRow(r, c, now) ==
  r \in RewardType /\ r.customer = c /\ r.at = now /\ r.status = "available"

\* The tables after one grant; on a key clash the row is not inserted.
Granted(st, c, now) ==
  /\ st.issued = stock.issued + 1
  /\ \/ st.rewards = stock.rewards
     \/ \E r : GrantedRow(r, c, now) /\ st.rewards = Append(stock.rewards, r)

\* q is r after a legal move at the current time.
LegalMove(r, q) ==
  /\ q \in RewardType
  /\ q.customer = r.customer /\ q.at = r.at
  /\ r.status \in Closed => q.status = r.status
  /\ q.status = "redeemed" => r.status = "redeemed" \/ ~PastValidity(r, clock)

Moved(st) ==
  /\ st.issued = stock.issued
  /\ st.rewards \in Seq(RewardType)
  /\ Len(st.rewards) = Len(stock.rewards)
  /\ \A i \in Ids : LegalMove(stock.rewards[i], st.rewards[i])

-----------------------------------------------------------------------------
(***************************************************************************)
(* A row appended at the end leaves the earlier rows where they are.       *)
(***************************************************************************)
LEMMA AppendRow ==
  ASSUME NEW Rows, NEW q \in Seq(Rows), NEW r \in Rows
  PROVE  /\ Append(q, r) \in Seq(Rows)
         /\ Len(Append(q, r)) = Len(q) + 1
         /\ Append(q, r)[Len(q) + 1] = r
         /\ \A i \in 1..Len(q) : Append(q, r)[i] = q[i]
  OBVIOUS

(***************************************************************************)
(* The writes of issueRewardTx grant one reward, whatever the progress     *)
(* table holds when they are made.                                         *)
(***************************************************************************)
LEMMA IssueRowGrants ==
  ASSUME TypeOK, NEW b, b.issued = stock.issued, b.rewards = stock.rewards,
         NEW c \in Customers, NEW key \in RewardKeys, NEW now \in Time
  PROVE  Granted(IssueRow(b, c, key, now, clock), c, now)
<1> DEFINE row == [customer |-> c, key |-> key, status |-> "available", at |-> now,
                   expires |-> IF Validity = 0 THEN Never ELSE clock + Validity,
                   until |-> Never]
           st  == IssueRow(b, c, key, now, clock)
<1>1. st.issued = stock.issued + 1
  BY DEF IssueRow
<1>2. st.rewards = stock.rewards \/ st.rewards = Append(stock.rewards, row)
  BY DEF IssueRow
<1>3. GrantedRow(row, c, now)
  <2>1. clock + Validity \in Nat
    BY RewardStockAssumption, RewardDeskAssumption DEF TypeOK, Time
  <2>2. row.expires \in Nat /\ row.until \in Nat
    BY <2>1 DEF Never
  <2> QED BY <2>2 DEF GrantedRow, RewardType, Statuses
<1> HIDE DEF row, st
<1> QED BY <1>1, <1>2, <1>3 DEF Granted, st

(***************************************************************************)
(* The key evaluateRewardEvent makes is a key of its rule and customer.    *)
(***************************************************************************)
LEMMA RuleKeyType ==
  ASSUME NEW c \in Customers, NEW n \in Nat, NEW t \in Nat
  PROVE  RuleKey(c, n, t) \in RewardKeys
<1>1. n \div Threshold \in Nat /\ t \div CycleLength \in Nat
  BY RewardStockAssumption
<1>2. (IF RuleMode = "repeat" THEN n \div Threshold ELSE Cycle(t)) \in Nat
  BY <1>1 DEF Cycle
<1> QED BY <1>2 DEF RuleKey, RewardKeys

(***************************************************************************)
(* evaluateRewardEvent keeps the rewards or grants one that is not refused.*)
(***************************************************************************)
LEMMA EvaluateCases ==
  ASSUME TypeOK, NEW c \in Customers, NEW n \in Nat, NEW now \in Time
  PROVE  LET st == EvaluateRewardEvent(stock, c, n, now, clock)
         IN  Kept(st) \/ (~IssueRefused(stock, c, now) /\ Granted(st, c, now))
<1> DEFINE b   == UpsertProgress(stock, c, n, clock)
           key == RuleKey(c, n, clock)
           g   == IssueRow(b, c, key, now, clock)
           st  == EvaluateRewardEvent(stock, c, n, now, clock)
<1>1. b.issued = stock.issued /\ b.rewards = stock.rewards
  BY DEF UpsertProgress
<1>2. IssueRefused(b, c, now) <=> IssueRefused(stock, c, now)
  <2> HIDE DEF b
  <2> QED BY <1>1 DEF IssueRefused, OutOfStock, AlreadyHeld, CoolingDown
<1>3. key \in RewardKeys
  <2>1. clock \in Nat
    BY RewardDeskAssumption DEF TypeOK, Time
  <2> QED BY <2>1, RuleKeyType
<1>4. Granted(g, c, now)
  <2> HIDE DEF b, key
  <2> QED BY <1>1, <1>3, IssueRowGrants
<1>5. \A x : Complete(x, c, clock).issued = x.issued /\ Complete(x, c, clock).rewards = x.rewards
  BY DEF Complete
<1>6. \/ st = stock \/ st = b \/ st = Complete(b, c, clock)
      \/ ~IssueRefused(b, c, now) /\ st = Complete(g, c, clock)
  BY DEF EvaluateRewardEvent
<1> HIDE DEF b, key, g, st
<1>7. Kept(stock) /\ Kept(b) /\ Kept(Complete(b, c, clock))
  BY <1>1, <1>5 DEF Kept
<1>8. Granted(Complete(g, c, clock), c, now)
  BY <1>4, <1>5 DEF Granted
<1>9. Kept(st) \/ (~IssueRefused(stock, c, now) /\ Granted(st, c, now))
  BY <1>2, <1>6, <1>7, <1>8
<1> QED BY <1>9 DEF st

-----------------------------------------------------------------------------
(***************************************************************************)
(* One transition of staff moves one reward legally: its resolved status   *)
(* was open, and a redemption is not past validity.                        *)
(***************************************************************************)
LEMMA TransitionMoves ==
  ASSUME TypeOK, NEW id \in Ids, NEW target \in Statuses, NEW key,
         Valid(stock.rewards[id], target, clock),
         target = "redeemed" => ~PastValidity(stock.rewards[id], clock)
  PROVE  Moved(Transition(id, target, key))
<1> DEFINE r  == stock.rewards[id]
           u  == IF target = "reserved" THEN clock + Reservation ELSE Never
           q  == SetStatus(r, target, u)
           st == Transition(id, target, key)
<1>1. stock.rewards \in Seq(RewardType) /\ r \in RewardType
  BY DEF TypeOK, Ids
<1>2. u \in Nat
  BY RewardDeskAssumption DEF TypeOK, Time, Never
<1>3. r.status \notin Closed
  BY DEF Valid, Effective, RanOut, Closed
<1>4. q \in RewardType /\ q.customer = r.customer /\ q.at = r.at /\ q.status = target
  <2> HIDE DEF u
  <2> QED BY <1>1, <1>2 DEF SetStatus, RewardType
<1>5. LegalMove(r, q)
  <2> HIDE DEF q, r
  <2> QED BY <1>3, <1>4 DEF LegalMove, r
<1>6. st.issued = stock.issued /\ st.rewards = [stock.rewards EXCEPT ![id] = q]
  BY DEF Transition
<1> HIDE DEF q, u, st
<1>7. /\ st.rewards \in Seq(RewardType)
      /\ Len(st.rewards) = Len(stock.rewards)
      /\ \A i \in Ids : st.rewards[i] = IF i = id THEN q ELSE stock.rewards[i]
  BY <1>1, <1>4, <1>6 DEF Ids
<1>8. \A i \in Ids : LegalMove(stock.rewards[i], stock.rewards[i])
  BY <1>1 DEF LegalMove, Ids
<1>9. \A i \in Ids : LegalMove(stock.rewards[i], st.rewards[i])
  BY <1>5, <1>7, <1>8
<1> QED BY <1>6, <1>7, <1>9 DEF Moved, st

(***************************************************************************)
(* A sweep moves rewards legally: it releases reserved ones and closes     *)
(* open ones.                                                              *)
(***************************************************************************)
LEMMA SweepMoves ==
  ASSUME TypeOK, NEW w \in Sweepers, NEW skip, SweepCommit(w, skip)
  PROVE  Moved(stock')
<1> DEFINE now == sweep[w]
<1>1. PICK released \in SUBSET ToRelease(now), closed \in SUBSET ToClose(now) :
        stock'.issued = stock.issued /\ stock'.rewards = Swept(released, closed)
  BY DEF SweepCommit, Batches
<1>2. stock.rewards \in Seq(RewardType)
  BY DEF TypeOK
<1>3. ASSUME NEW i \in Ids
      PROVE  LegalMove(stock.rewards[i], stock'.rewards[i])
  <2> DEFINE r == stock.rewards[i]
  <2>1. r \in RewardType
    BY <1>2 DEF Ids
  <2>2. CASE i \in released
    <3>1. stock'.rewards[i] = SetStatus(r, "available", Never)
      BY <1>1, <2>2 DEF Swept
    <3>2. r.status = "reserved"
      BY <2>2 DEF ToRelease, RanOut
    <3> HIDE DEF r
    <3> QED BY <2>1, <3>1, <3>2 DEF LegalMove, SetStatus, RewardType, Statuses, Closed, Never, r
  <2>3. CASE i \notin released /\ i \in closed
    <3>1. stock'.rewards[i] = SetStatus(r, "expired", r.until)
      BY <1>1, <2>3 DEF Swept
    <3>2. r.status \in {"available", "reserved"}
      BY <2>3 DEF ToClose, Open
    <3> HIDE DEF r
    <3> QED BY <2>1, <3>1, <3>2 DEF LegalMove, SetStatus, RewardType, Statuses, Closed, r
  <2>4. CASE i \notin released /\ i \notin closed
    <3>1. stock'.rewards[i] = r
      BY <1>1, <2>4 DEF Swept
    <3> QED BY <2>1, <3>1 DEF LegalMove
  <2> QED BY <2>2, <2>3, <2>4
<1>4. stock'.rewards \in Seq(RewardType) /\ Len(stock'.rewards) = Len(stock.rewards)
  <2>1. Len(stock.rewards) \in Nat /\ Ids = 1..Len(stock.rewards)
    BY <1>2 DEF Ids
  <2>2. stock'.rewards = [i \in 1..Len(stock.rewards) |-> stock'.rewards[i]]
    BY <1>1, <2>1 DEF Swept
  <2>3. \A i \in 1..Len(stock.rewards) : stock'.rewards[i] \in RewardType
    BY <1>3, <2>1 DEF LegalMove
  <2> QED BY <2>1, <2>2, <2>3
<1> QED BY <1>1, <1>3, <1>4 DEF Moved

(***************************************************************************)
(* What any step does to the rewards.                                      *)
(***************************************************************************)
LEMMA StepCases ==
  ASSUME TypeOK, [Next]_vars
  PROVE  \/ Kept(stock')
         \/ \E c \in Customers, now \in Time :
              ~IssueRefused(stock, c, now) /\ Granted(stock', c, now)
         \/ Moved(stock')
<1>1. ASSUME NEW s \in Slots, IssueCommit(s)
      PROVE  \E c \in Customers, now \in Time :
               ~IssueRefused(stock, c, now) /\ Granted(stock', c, now)
  <2>1. req[s].customer \in Customers /\ req[s].key \in RewardKeys /\ req[s].at \in Time
    BY <1>1 DEF IssueCommit, TypeOK, RequestType
  <2>2. Granted(stock', req[s].customer, req[s].at)
    <3> DEFINE c == req[s].customer
               key == req[s].key
               now == req[s].at
    <3>1. stock' = IssueRow(stock, c, key, now, clock)
      BY <1>1 DEF IssueCommit
    <3>2. c \in Customers /\ key \in RewardKeys /\ now \in Time
      BY <2>1
    <3> HIDE DEF c, key, now
    <3>3. Granted(stock', c, now)
      BY <3>1, <3>2, IssueRowGrants
    <3> QED BY <3>3 DEF c, now
  <2> QED BY <1>1, <2>1, <2>2 DEF IssueCommit
<1>2. ASSUME NEW s \in Slots, VisitCommit(s)
      PROVE  \/ Kept(stock')
             \/ \E c \in Customers, now \in Time :
                  ~IssueRefused(stock, c, now) /\ Granted(stock', c, now)
  <2> DEFINE c == req[s].customer
             now == req[s].at
             n == visited[c] + 1
  <2>1. c \in Customers /\ now \in Time
    BY <1>2 DEF VisitCommit, TypeOK, RequestType
  <2>2. n \in Nat
    BY <2>1 DEF TypeOK
  <2>3. stock' = stock \/ stock' = EvaluateRewardEvent(stock, c, n, now, clock)
    BY <1>2 DEF VisitCommit
  <2> HIDE DEF c, now, n
  <2>4. CASE stock' = stock
    BY <2>4 DEF Kept
  <2>5. CASE stock' = EvaluateRewardEvent(stock, c, n, now, clock)
    BY <2>1, <2>2, <2>5, EvaluateCases
  <2> QED BY <2>3, <2>4, <2>5
<1>3. ASSUME NEW s \in Slots, TransitionCommit(s)
      PROVE  Moved(stock')
  <2> DEFINE id == req[s].id
             target == Outcome(s)
             key == req[s].key
  <2>1. id \in Ids /\ req[s].target \in Targets
    BY <1>3 DEF TransitionCommit, TypeOK, Transitions
  <2>2. /\ target \in Statuses
        /\ target = "redeemed" => ~PastValidity(stock.rewards[id], clock)
    BY <2>1 DEF Outcome, Targets, Statuses
  <2>3. Valid(stock.rewards[id], target, clock) /\ stock' = Transition(id, target, key)
    BY <1>3 DEF TransitionCommit
  <2> HIDE DEF id, target, key
  <2> QED BY <2>1, <2>2, <2>3, TransitionMoves
<1>4. ASSUME NEW s \in Slots, DirectCommit(s)
      PROVE  Moved(stock')
  <2> DEFINE id == req[s].id
             target == req[s].target
             key == req[s].key
  <2>1. id \in Ids /\ target \in Statuses
    BY <1>4 DEF DirectCommit, TypeOK, Transitions, Targets, Statuses
  <2>2. /\ Valid(stock.rewards[id], target, clock)
        /\ ~PastValidity(stock.rewards[id], clock)
        /\ stock' = Transition(id, target, key)
    BY <1>4 DEF DirectCommit
  <2> HIDE DEF id, target, key
  <2> QED BY <2>1, <2>2, TransitionMoves
<1>5. ASSUME UNCHANGED stock
      PROVE  Kept(stock')
  BY <1>5 DEF Kept
<1>6. \/ UNCHANGED stock
      \/ \E s \in Slots : IssueCommit(s) \/ VisitCommit(s) \/ TransitionCommit(s) \/ DirectCommit(s)
      \/ \E w \in Sweepers : \E skip : SweepCommit(w, skip)
  BY DEF Next, vars, IssueBegin, VisitBegin, TransitionBegin, Begin, TransitionReplay,
         SweepBegin, UpdateDefinition, DeleteCustomer, Abort, SweepAbort, Tick, Quiesce
<1> QED BY <1>1, <1>2, <1>3, <1>4, <1>5, <1>6, SweepMoves

-----------------------------------------------------------------------------
(* Types and inventory *)

IInv == TypeOK /\ InventoryNeverExceeded

RequestOK(q) ==
  /\ q \in RequestType
  /\ q.kind \in {"issue", "visit"} => q.customer \in Customers
  /\ q.kind = "issue" => q.key \in RewardKeys
  /\ q.kind \in Transitions => q.id \in Ids /\ q.target \in Targets

(***************************************************************************)
(* The empty slot is well formed.                                          *)
(***************************************************************************)
LEMMA IdleOK == RequestOK(Idle)
<1>1. 0 \in Time
  BY RewardDeskAssumption DEF Time
<1> QED BY <1>1 DEF RequestOK, Idle, RequestType, RewardKeys, Transitions

(***************************************************************************)
(* The empty tables satisfy the invariant.                                 *)
(***************************************************************************)
LEMMA InitIInv == Init => IInv
<1> SUFFICES ASSUME Init PROVE IInv
  OBVIOUS
<1>1. stock.issued = 0 /\ stock.rewards = << >>
  BY DEF Init, EmptyStock
<1>2. stock.rewards \in Seq(RewardType) /\ Len(stock.rewards) = 0
  BY <1>1
<1>3. InventoryNeverExceeded
  BY <1>1, <1>2, RewardStockAssumption DEF InventoryNeverExceeded
<1>4. 0 \in Time
  BY RewardDeskAssumption DEF Time
<1>5. req \in [Slots -> RequestType] /\ \A s \in Slots : req[s] = Idle
  BY IdleOK DEF Init, RequestOK
<1>6. TypeOK
  BY <1>1, <1>2, <1>4, <1>5 DEF Init, TypeOK, Idle, Never, Transitions
<1> QED BY <1>3, <1>6 DEF IInv

(***************************************************************************)
(* A step that puts at most one well-formed request in a slot, and removes *)
(* no reward, keeps the requests well formed.                              *)
(***************************************************************************)
LEMMA RequestsStep ==
  ASSUME TypeOK, Len(stock.rewards) \in Nat, Len(stock'.rewards) \in Nat,
         Len(stock.rewards) <= Len(stock'.rewards),
         \/ req' = req
         \/ \E s \in Slots : \E q : RequestOK(q) /\ req' = [req EXCEPT ![s] = q]
  PROVE  /\ req' \in [Slots -> RequestType]
         /\ \A s \in Slots :
              /\ req'[s].kind \in {"issue", "visit"} => req'[s].customer \in Customers
              /\ req'[s].kind = "issue" => req'[s].key \in RewardKeys
              /\ req'[s].kind \in Transitions => req'[s].id \in Ids' /\ req'[s].target \in Targets
<1>1. \A s \in Slots : RequestOK(req[s])
  BY DEF TypeOK, RequestOK
<1>2. req \in [Slots -> RequestType]
  BY DEF TypeOK
<1>3. req' \in [Slots -> RequestType] /\ \A s \in Slots : RequestOK(req'[s])
  BY <1>1, <1>2 DEF RequestOK
<1>4. \A i \in Ids : i \in Ids'
  BY DEF Ids
<1> QED BY <1>3, <1>4 DEF RequestOK

(***************************************************************************)
(* Every step leaves the request slots alone, ends a request or begins a   *)
(* well-formed one.                                                        *)
(***************************************************************************)
LEMMA RequestCases ==
  ASSUME TypeOK, [Next]_vars
  PROVE  \/ req' = req
         \/ \E s \in Slots : \E q : RequestOK(q) /\ req' = [req EXCEPT ![s] = q]
<1>1. RequestOK(Idle)
  BY IdleOK
<1>2. ASSUME NEW s \in Slots, Finish(s)
      PROVE  \E x \in Slots : \E q : RequestOK(q) /\ req' = [req EXCEPT ![x] = q]
  BY <1>1, <1>2 DEF Finish
<1>3. ASSUME NEW s \in Slots, NEW kind, NEW c, NEW id, NEW target, NEW key,
             Begin(s, kind, c, id, target, key),
             RequestOK([kind |-> kind, customer |-> c, id |-> id, target |-> target,
                        key |-> key, at |-> Now])
      PROVE  \E x \in Slots : \E q : RequestOK(q) /\ req' = [req EXCEPT ![x] = q]
  BY <1>3 DEF Begin
<1>4. clock < MaxClock => Now \in Time
  BY RewardDeskAssumption DEF TypeOK, Time, Now
<1>5. ASSUME NEW s \in Slots, NEW c \in Customers, NEW k \in ClientKeys, IssueBegin(s, c, k)
      PROVE  \E x \in Slots : \E q : RequestOK(q) /\ req' = [req EXCEPT ![x] = q]
  <2>1. IssueKey(k) \in RewardKeys
    BY DEF IssueKey, RewardKeys
  <2>2. Begin(s, "issue", c, 0, "none", IssueKey(k)) /\ Now \in Time
    BY <1>4, <1>5 DEF IssueBegin, Begin
  <2>3. RequestOK([kind |-> "issue", customer |-> c, id |-> 0, target |-> "none",
                   key |-> IssueKey(k), at |-> Now])
    BY <2>1, <2>2 DEF RequestOK, RequestType, Transitions
  <2> QED BY <1>3, <2>2, <2>3
<1>6. ASSUME NEW s \in Slots, NEW c \in Customers, VisitBegin(s, c)
      PROVE  \E x \in Slots : \E q : RequestOK(q) /\ req' = [req EXCEPT ![x] = q]
  <2>1. Begin(s, "visit", c, 0, "none", NoKey) /\ Now \in Time
    BY <1>4, <1>6 DEF VisitBegin, Begin
  <2>2. RequestOK([kind |-> "visit", customer |-> c, id |-> 0, target |-> "none",
                   key |-> NoKey, at |-> Now])
    BY <2>1 DEF RequestOK, RequestType, Transitions, RewardKeys
  <2> QED BY <1>3, <2>1, <2>2
<1>7. ASSUME NEW s \in Slots, NEW kind \in Transitions, NEW id \in Ids, NEW t \in Targets,
             NEW k \in ClientKeys, TransitionBegin(s, kind, id, t, k)
      PROVE  \E x \in Slots : \E q : RequestOK(q) /\ req' = [req EXCEPT ![x] = q]
  <2>1. id \in Nat
    BY DEF Ids
  <2>2. TransitionKey(t, id, k) \in RewardKeys \cup (Targets \X Nat \X ClientKeys)
    BY <2>1 DEF TransitionKey, RewardKeys
  <2>3. Begin(s, kind, Nobody, id, t, TransitionKey(t, id, k)) /\ Now \in Time
    BY <1>4, <1>7 DEF TransitionBegin, Begin
  <2>4. RequestOK([kind |-> kind, customer |-> Nobody, id |-> id, target |-> t,
                   key |-> TransitionKey(t, id, k), at |-> Now])
    BY <2>1, <2>2, <2>3 DEF RequestOK, RequestType, Transitions
  <2> QED BY <1>3, <2>3, <2>4
<1>8. \/ req' = req
      \/ \E s \in Slots : Finish(s)
      \/ \E s \in Slots, c \in Customers, k \in ClientKeys : IssueBegin(s, c, k)
      \/ \E s \in Slots, c \in Customers : VisitBegin(s, c)
      \/ \E s \in Slots, kind \in Transitions, id \in Ids, t \in Targets, k \in ClientKeys :
           TransitionBegin(s, kind, id, t, k)
  BY DEF Next, vars, IssueCommit, VisitCommit, TransitionCommit, DirectCommit,
         TransitionReplay, SweepBegin, SweepCommit, UpdateDefinition, DeleteCustomer,
         Abort, SweepAbort, Tick, Quiesce
<1> QED BY <1>2, <1>5, <1>6, <1>7, <1>8

(***************************************************************************)
(* Every step keeps types and inventory.  A grant is made only when        *)
(* OutOfStock is false, and adds one to inventory_issued for at most one   *)
(* new row.                                                                *)
(***************************************************************************)
LEMMA NextIInv == IInv /\ [Next]_vars => IInv'
<1> SUFFICES ASSUME IInv, [Next]_vars PROVE IInv'
  OBVIOUS
<1> USE DEF IInv
<1>1. stock.rewards \in Seq(RewardType) /\ stock.issued \in Nat /\ Len(stock.rewards) \in Nat
  BY DEF TypeOK
<1>2. /\ stock'.rewards \in Seq(RewardType)
      /\ stock'.issued \in Nat
      /\ Len(stock'.rewards) \in Nat
      /\ Len(stock.rewards) <= Len(stock'.rewards)
      /\ InventoryNeverExceeded'
  <2>1. CASE Kept(stock')
    BY <1>1, <2>1 DEF Kept, InventoryNeverExceeded
  <2>2. CASE Moved(stock')
    BY <1>1, <2>2 DEF Moved, InventoryNeverExceeded
  <2>3. ASSUME NEW c \in Customers, NEW now \in Time,
               ~IssueRefused(stock, c, now), Granted(stock', c, now)
        PROVE  /\ stock'.rewards \in Seq(RewardType)
               /\ stock'.issued \in Nat
               /\ Len(stock'.rewards) \in Nat
               /\ Len(stock.rewards) <= Len(stock'.rewards)
               /\ InventoryNeverExceeded'
    <3>1. stock'.issued = stock.issued + 1
      BY <2>3 DEF Granted
    <3>2. InventoryTotal # -1 => stock'.issued <= InventoryTotal
      BY <1>1, <2>3, <3>1, RewardStockAssumption DEF IssueRefused, OutOfStock
    <3>3. /\ stock'.rewards \in Seq(RewardType)
          /\ Len(stock'.rewards) = Len(stock.rewards) \/ Len(stock'.rewards) = Len(stock.rewards) + 1
      <4>1. CASE stock'.rewards = stock.rewards
        BY <1>1, <4>1
      <4>2. ASSUME NEW r, GrantedRow(r, c, now), stock'.rewards = Append(stock.rewards, r)
            PROVE  /\ stock'.rewards \in Seq(RewardType)
                   /\ Len(stock'.rewards) = Len(stock.rewards) + 1
        BY <1>1, <4>2, AppendRow DEF GrantedRow
      <4> QED BY <2>3, <4>1, <4>2 DEF Granted
    <3> QED BY <1>1, <3>1, <3>2, <3>3 DEF InventoryNeverExceeded
  <2> QED BY <2>1, <2>2, <2>3, StepCases
<1>3. /\ req' \in [Slots -> RequestType]
      /\ \A s \in Slots :
           /\ req'[s].kind \in {"issue", "visit"} => req'[s].customer \in Customers
           /\ req'[s].kind = "issue" => req'[s].key \in RewardKeys
           /\ req'[s].kind \in Transitions => req'[s].id \in Ids' /\ req'[s].target \in Targets
  BY <1>1, <1>2, RequestCases, RequestsStep
<1>4. clock' \in Time
  <2>1. clock' = clock \/ (clock < MaxClock /\ clock' = Now)
    BY ZenonT(30) DEF Next, vars, IssueBegin, VisitBegin, TransitionBegin, Begin, IssueCommit,
           VisitCommit, TransitionCommit, DirectCommit, TransitionReplay, SweepBegin,
           SweepCommit, UpdateDefinition, DeleteCustomer, Abort, SweepAbort, Tick, Quiesce
  <2> QED BY <2>1, RewardDeskAssumption DEF TypeOK, Time, Now
<1>5. /\ definition' \in {"active", "paused", "deleted"}
      /\ archived' \subseteq Customers
  BY ZenonT(30) DEF TypeOK, Next, vars, IssueBegin, VisitBegin, TransitionBegin, Begin, IssueCommit,
         VisitCommit, TransitionCommit, DirectCommit, TransitionReplay, SweepBegin,
         SweepCommit, UpdateDefinition, DeleteCustomer, Abort, SweepAbort, Tick, Quiesce
<1>6. visited' \in [Customers -> Nat]
  <2>1. visited' = visited \/ \E c : visited' = [visited EXCEPT ![c] = @ + 1]
    BY ZenonT(30) DEF Next, vars, IssueBegin, VisitBegin, TransitionBegin, Begin, IssueCommit,
           VisitCommit, TransitionCommit, DirectCommit, TransitionReplay, SweepBegin,
           SweepCommit, UpdateDefinition, DeleteCustomer, Abort, SweepAbort, Tick, Quiesce
  <2> QED BY <2>1 DEF TypeOK
<1>7. sweep' \in [Sweepers -> Time]
  <2>1. \/ sweep' = sweep
        \/ \E w : sweep' = [sweep EXCEPT ![w] = clock]
        \/ \E w : sweep' = [sweep EXCEPT ![w] = Never]
    BY ZenonT(30) DEF Next, vars, IssueBegin, VisitBegin, TransitionBegin, Begin, IssueCommit,
           VisitCommit, TransitionCommit, DirectCommit, TransitionReplay, SweepBegin,
           SweepCommit, UpdateDefinition, DeleteCustomer, Abort, SweepAbort, Tick, Quiesce
  <2>2. Never \in Time
    BY RewardDeskAssumption DEF Time, Never
  <2> QED BY <2>1, <2>2 DEF TypeOK
<1>8. TypeOK'
  BY <1>2, <1>3, <1>4, <1>5, <1>6, <1>7 DEF TypeOK
<1> QED BY <1>2, <1>8

(***************************************************************************)
(* Theorem: the reward tables keep their types.                            *)
(***************************************************************************)
THEOREM RewardTypes == Spec => []TypeOK
<1>1. IInv => TypeOK
  BY DEF IInv
<1> QED BY <1>1, InitIInv, NextIInv, PTL DEF Spec

(***************************************************************************)
(* Theorem: no interleaving of issueReward and createVisit makes           *)
(* inventory_issued pass inventory_total or lag behind the rewards.        *)
(***************************************************************************)
THEOREM InventoryKept == Spec => []InventoryNeverExceeded
<1>1. IInv => InventoryNeverExceeded
  BY DEF IInv
<1> QED BY <1>1, InitIInv, NextIInv, PTL DEF Spec

-----------------------------------------------------------------------------
(* Life cycle *)

(***************************************************************************)
(* Every step satisfies the action ClosedForGood speaks of.                *)
(***************************************************************************)
LEMMA StepClosedForGood ==
  ASSUME TypeOK, [Next]_vars
  PROVE  \A id \in Ids :
           /\ id \in Ids'
           /\ stock.rewards[id].status \in Closed =>
                stock'.rewards[id].status = stock.rewards[id].status
           /\ stock'.rewards[id].status = "redeemed" =>
                \/ stock.rewards[id].status = "redeemed"
                \/ ~PastValidity(stock.rewards[id], clock)
<1> SUFFICES ASSUME NEW id \in Ids
             PROVE  /\ id \in Ids'
                    /\ stock.rewards[id].status \in Closed =>
                         stock'.rewards[id].status = stock.rewards[id].status
                    /\ stock'.rewards[id].status = "redeemed" =>
                         \/ stock.rewards[id].status = "redeemed"
                         \/ ~PastValidity(stock.rewards[id], clock)
  OBVIOUS
<1>1. stock.rewards \in Seq(RewardType) /\ Len(stock.rewards) \in Nat
  BY DEF TypeOK
<1>2. CASE Kept(stock')
  BY <1>2 DEF Kept, Ids
<1>3. CASE Moved(stock')
  BY <1>3 DEF Moved, LegalMove, Ids
<1>4. ASSUME NEW c \in Customers, NEW now \in Time, Granted(stock', c, now)
      PROVE  id \in Ids' /\ stock'.rewards[id] = stock.rewards[id]
  <2>1. CASE stock'.rewards = stock.rewards
    BY <2>1 DEF Ids
  <2>2. ASSUME NEW r, GrantedRow(r, c, now), stock'.rewards = Append(stock.rewards, r)
        PROVE  id \in Ids' /\ stock'.rewards[id] = stock.rewards[id]
    BY <1>1, <2>2, AppendRow DEF GrantedRow, Ids
  <2> QED BY <1>4, <2>1, <2>2 DEF Granted
<1> QED BY <1>2, <1>3, <1>4, StepCases

(***************************************************************************)
(* Theorem: a closed reward stays closed with its status, and no reward is *)
(* redeemed past its validity.                                             *)
(***************************************************************************)
THEOREM ClosedStaysClosed == Spec => ClosedForGood
<1>1. IInv /\ [Next]_vars =>
        [\A id \in Ids :
           /\ id \in Ids'
           /\ stock.rewards[id].status \in Closed =>
                stock'.rewards[id].status = stock.rewards[id].status
           /\ stock'.rewards[id].status = "redeemed" =>
                \/ stock.rewards[id].status = "redeemed"
                \/ ~PastValidity(stock.rewards[id], clock)]_vars
  BY StepClosedForGood DEF IInv
<1> QED BY <1>1, InitIInv, NextIInv, PTL DEF Spec, ClosedForGood

-----------------------------------------------------------------------------
(* Who may hold what *)

(***************************************************************************)
(* A grant that inserts a row puts it last; the index of any reward is     *)
(* then an old one or the new one.                                         *)
(***************************************************************************)
LEMMA GrantShape ==
  ASSUME TypeOK, NEW c \in Customers, NEW now \in Time, Granted(stock', c, now)
  PROVE  /\ \A i \in Ids : i \in Ids' /\ stock'.rewards[i] = stock.rewards[i]
         /\ \A i \in Ids' \ Ids : /\ \A j \in Ids' \ Ids : i = j
                                  /\ GrantedRow(stock'.rewards[i], c, now)
<1>1. stock.rewards \in Seq(RewardType) /\ Len(stock.rewards) \in Nat
  BY DEF TypeOK
<1>2. CASE stock'.rewards = stock.rewards
  BY <1>2 DEF Ids
<1>3. ASSUME NEW r, GrantedRow(r, c, now), stock'.rewards = Append(stock.rewards, r)
      PROVE  /\ \A i \in Ids : i \in Ids' /\ stock'.rewards[i] = stock.rewards[i]
             /\ \A i \in Ids' \ Ids : /\ \A j \in Ids' \ Ids : i = j
                                      /\ GrantedRow(stock'.rewards[i], c, now)
  <2>1. r \in RewardType
    BY <1>3 DEF GrantedRow
  <2>2. /\ Len(stock'.rewards) = Len(stock.rewards) + 1
        /\ stock'.rewards[Len(stock.rewards) + 1] = r
        /\ \A i \in 1..Len(stock.rewards) : stock'.rewards[i] = stock.rewards[i]
    BY <1>1, <1>3, <2>1, AppendRow
  <2>3. Ids' \ Ids = {Len(stock.rewards) + 1} /\ \A i \in Ids : i \in Ids'
    BY <1>1, <2>2 DEF Ids
  <2> QED BY <1>3, <2>2, <2>3 DEF Ids
<1> QED BY <1>2, <1>3 DEF Granted

(***************************************************************************)
(* No step gives a customer a second copy of a reward that is not          *)
(* repeatable: a grant found none, and a cancelled one stays cancelled.    *)
(***************************************************************************)
LEMMA HeldOnceStep ==
  ASSUME TypeOK, HeldOnce, [Next]_vars
  PROVE  HeldOnce'
<1> SUFFICES ASSUME ~Repeatable, NEW i \in Ids', NEW j \in Ids',
                    stock'.rewards[i].customer = stock'.rewards[j].customer,
                    stock'.rewards[i].status # "cancelled",
                    stock'.rewards[j].status # "cancelled"
             PROVE  i = j
  BY DEF HeldOnce
<1>1. CASE Kept(stock')
  BY <1>1 DEF Kept, HeldOnce, Ids
<1>2. CASE Moved(stock')
  <2>1. i \in Ids /\ j \in Ids
    BY <1>2 DEF Moved, Ids
  <2>2. /\ stock.rewards[i].customer = stock.rewards[j].customer
        /\ stock.rewards[i].status # "cancelled" /\ stock.rewards[j].status # "cancelled"
    BY <1>2, <2>1 DEF Moved, LegalMove, Closed
  <2> QED BY <2>1, <2>2 DEF HeldOnce
<1>3. ASSUME NEW c \in Customers, NEW now \in Time,
             ~IssueRefused(stock, c, now), Granted(stock', c, now)
      PROVE  i = j
  <2>1. \A k \in Ids : stock.rewards[k].customer = c => stock.rewards[k].status = "cancelled"
    BY <1>3 DEF IssueRefused, AlreadyHeld, Ids
  <2>2. /\ \A k \in Ids : stock'.rewards[k] = stock.rewards[k]
        /\ \A k \in Ids' \ Ids : stock'.rewards[k].customer = c /\ \A l \in Ids' \ Ids : k = l
    BY <1>3, GrantShape DEF GrantedRow
  <2>3. CASE i \in Ids /\ j \in Ids
    BY <2>2, <2>3 DEF HeldOnce
  <2>4. CASE i \in Ids /\ j \notin Ids
    BY <2>1, <2>2, <2>4
  <2>5. CASE i \notin Ids /\ j \in Ids
    BY <2>1, <2>2, <2>5
  <2>6. CASE i \notin Ids /\ j \notin Ids
    BY <2>2, <2>6
  <2> QED BY <2>3, <2>4, <2>5, <2>6
<1> QED BY <1>1, <1>2, <1>3, StepCases

(***************************************************************************)
(* Theorem: a reward that is not repeatable is held once.                  *)
(***************************************************************************)
THEOREM HeldAtMostOnce == Spec => []HeldOnce
<1>1. Init => HeldOnce
  <2>1. Init => Ids = {}
    BY DEF Init, EmptyStock, Ids
  <2> QED BY <2>1 DEF HeldOnce
<1>2. IInv /\ HeldOnce /\ [Next]_vars => HeldOnce'
  BY HeldOnceStep DEF IInv
<1> QED BY <1>1, <1>2, InitIInv, NextIInv, PTL DEF Spec

(***************************************************************************)
(* No step brings two rewards of one customer closer than the cooldown: a  *)
(* grant at now finds none later than now - Cooldown, also not one of a    *)
(* transaction that began after it.                                        *)
(***************************************************************************)
LEMMA CooldownStep ==
  ASSUME TypeOK, CooldownRespected, [Next]_vars
  PROVE  CooldownRespected'
<1> SUFFICES ASSUME Cooldown > 0, NEW i \in Ids', NEW j \in Ids', i # j,
                    stock'.rewards[i].customer = stock'.rewards[j].customer,
                    stock'.rewards[i].at <= stock'.rewards[j].at
             PROVE  stock'.rewards[j].at - stock'.rewards[i].at >= Cooldown
  BY DEF CooldownRespected
<1>1. CASE Kept(stock')
  BY <1>1 DEF Kept, CooldownRespected, Ids
<1>2. CASE Moved(stock')
  <2>1. i \in Ids /\ j \in Ids
    BY <1>2 DEF Moved, Ids
  <2>2. /\ stock'.rewards[i].customer = stock.rewards[i].customer
        /\ stock'.rewards[j].customer = stock.rewards[j].customer
        /\ stock'.rewards[i].at = stock.rewards[i].at
        /\ stock'.rewards[j].at = stock.rewards[j].at
    BY <1>2, <2>1 DEF Moved, LegalMove
  <2> QED BY <2>1, <2>2 DEF CooldownRespected
<1>3. ASSUME NEW c \in Customers, NEW now \in Time,
             ~IssueRefused(stock, c, now), Granted(stock', c, now)
      PROVE  stock'.rewards[j].at - stock'.rewards[i].at >= Cooldown
  <2>1. \A k \in Ids : stock.rewards[k].customer = c => ~(stock.rewards[k].at > now - Cooldown)
    BY <1>3 DEF IssueRefused, CoolingDown, Ids
  <2>2. /\ \A k \in Ids : stock'.rewards[k] = stock.rewards[k]
        /\ \A k \in Ids' \ Ids : /\ stock'.rewards[k].customer = c /\ stock'.rewards[k].at = now
                                 /\ \A l \in Ids' \ Ids : k = l
    BY <1>3, GrantShape DEF GrantedRow
  <2>3. \A k \in Ids : stock.rewards[k].at \in Nat
    <3>1. \A k \in Ids : stock.rewards[k] \in RewardType
      BY DEF TypeOK, Ids
    <3> QED BY <3>1 DEF RewardType, Time
  <2>4. now \in Nat /\ Cooldown \in Nat
    BY RewardStockAssumption DEF Time
  <2>5. CASE i \in Ids /\ j \in Ids
    BY <2>2, <2>5 DEF CooldownRespected
  <2>6. CASE i \in Ids /\ j \notin Ids
    <3>1. stock'.rewards[i].at = stock.rewards[i].at /\ stock'.rewards[j].at = now
      BY <2>2, <2>6
    <3>2. ~(stock.rewards[i].at > now - Cooldown) /\ stock.rewards[i].at \in Nat
      BY <2>1, <2>2, <2>3, <2>6
    <3> QED BY <2>4, <3>1, <3>2
  <2>7. CASE i \notin Ids /\ j \in Ids
    <3>1. stock'.rewards[j].at = stock.rewards[j].at /\ stock'.rewards[i].at = now
      BY <2>2, <2>7
    <3>2. ~(stock.rewards[j].at > now - Cooldown) /\ stock.rewards[j].at \in Nat
      BY <2>1, <2>2, <2>3, <2>7
    <3> QED BY <2>4, <3>1, <3>2
  <2>8. CASE i \notin Ids /\ j \notin Ids
    BY <2>2, <2>8
  <2> QED BY <2>5, <2>6, <2>7, <2>8
<1> QED BY <1>1, <1>2, <1>3, StepCases

(***************************************************************************)
(* Theorem: the cooldown holds between any two rewards of a customer,      *)
(* whatever order their transactions began and committed in.               *)
(***************************************************************************)
THEOREM CooldownKept == Spec => []CooldownRespected
<1>1. Init => CooldownRespected
  <2>1. Init => Ids = {}
    BY DEF Init, EmptyStock, Ids
  <2> QED BY <2>1 DEF CooldownRespected
<1>2. IInv /\ CooldownRespected /\ [Next]_vars => CooldownRespected'
  BY CooldownStep DEF IInv
<1> QED BY <1>1, <1>2, InitIInv, NextIInv, PTL DEF Spec

-----------------------------------------------------------------------------
(***************************************************************************)
(* The audit trail.  A step adds rows behind the ones the trail had, and   *)
(* does one of three things to each reward (Untouched, Recorded, Silent);  *)
(* TrailStep says so, one lemma per transaction shows it, and StockInv is  *)
(* kept by every TrailStep.                                                *)
(***************************************************************************)

\* A row carries no key, the key of an issue, or the key of a transition.
TrailKeys == RewardKeys \cup (Targets \X Nat \X ClientKeys)

TrailRowType ==
  [id : Nat, op : Statuses \cup {"issued", "reservation_released"},
   from : Statuses \cup {"none"}, to : Statuses, key : TrailKeys]

\* Every row is about a reward of the table.
TrailTyped ==
  /\ stock.trail \in Seq(TrailRowType)
  /\ \A n \in 1..Len(stock.trail) : stock.trail[n].id \in Ids

\* m is the last row about the reward.
Newest(id, m) == m \in TrailOf(id) /\ \A n \in TrailOf(id) : n <= m

\* The reward moved while its row met a row with the same key.
Unrecorded(id) == stock.rewards[id].status \in {"reserved", "expired"} /\ ReservedWithKey(id)

\* The last row about the reward says its status, unless its last move met its key.
StatusRecorded(id) ==
  \E m \in 1..Len(stock.trail) :
    Newest(id, m) /\ (stock.trail[m].to = stock.rewards[id].status \/ Unrecorded(id))

\* The rows that closed the reward.
Closings(id) == {n \in TrailOf(id) : stock.trail[n].to \in Closed}

\* An open reward has no closing row; a closed one has one, which says how, or expired over its key.
ClosedOnce(id) ==
  \/ Closings(id) = {} /\ Open(stock.rewards[id])
  \/ Closings(id) = {} /\ stock.rewards[id].status = "expired" /\ ReservedWithKey(id)
  \/ \E n \in Closings(id) : /\ Closings(id) = {n} /\ stock.trail[n].to = stock.rewards[id].status

\* The first part of a key under which a reward is issued.
IssueTags == {"client", "rule"}

\* A key on the trail is the key of a reward or of a transition of the row's reward, and the key of
\* a reward is on the trail.
KeysRecorded ==
  /\ \A n \in 1..Len(stock.trail) : stock.trail[n].key[1] \in IssueTags =>
       \E i \in Ids : stock.rewards[i].key = stock.trail[n].key
  /\ \A i \in Ids : stock.rewards[i].key # NoKey =>
       \E n \in 1..Len(stock.trail) : stock.trail[n].key = stock.rewards[i].key
  /\ \A n \in 1..Len(stock.trail) : stock.trail[n].key[1] \in Targets =>
       /\ stock.trail[n].key[2] = stock.trail[n].id
       /\ stock.trail[n].to \in {stock.trail[n].key[1], "expired"}

\* A transition under way carries the key of its own target and reward, or none.
RequestKeys ==
  \A s \in Slots : req[s].kind \in Transitions =>
    \/ req[s].key = NoKey
    \/ req[s].key[1] = req[s].target /\ req[s].key[2] = req[s].id

(***************************************************************************)
(* The trail only grows: the rows it had stay where they are.              *)
(***************************************************************************)
TrailGrows ==
  /\ stock.trail \in Seq(TrailRowType) /\ stock'.trail \in Seq(TrailRowType)
  /\ Len(stock.trail) \in Nat /\ Len(stock'.trail) \in Nat
  /\ Len(stock.trail) <= Len(stock'.trail)
  /\ \A n \in 1..Len(stock.trail) : stock'.trail[n] = stock.trail[n]

\* The rows a step adds.
NewRows == {n \in 1..Len(stock'.trail) : n > Len(stock.trail)}

(***************************************************************************)
(* What a step may do to one reward and its rows: leave both alone, record *)
(* a status it had not, or, on a key conflict, change the status silently. *)
(***************************************************************************)
Untouched(id) ==
  /\ id \in Ids
  /\ stock'.rewards[id].status = stock.rewards[id].status
  /\ \A n \in NewRows : stock'.trail[n].id # id

Recorded(id) ==
  /\ stock'.rewards[id].status \in Statuses
  /\ Closings(id) = {}
  /\ \E m \in NewRows :
       /\ stock'.trail[m].id = id
       /\ stock'.trail[m].to = stock'.rewards[id].status
       /\ \A n \in NewRows : stock'.trail[n].id = id => n = m

Silent(id) ==
  /\ id \in Ids
  /\ stock'.trail = stock.trail
  /\ Open(stock.rewards[id])
  /\ stock'.rewards[id].status \in {"reserved", "expired"}
  /\ ReservedWithKey(id)

\* A reward left alone keeps its rows, so what they say of it stays true.
LEMMA UntouchedStays ==
  ASSUME TrailGrows, NEW id, Untouched(id), StatusRecorded(id), ClosedOnce(id)
  PROVE  StatusRecorded(id)' /\ ClosedOnce(id)'
<1>1. \A n \in 1..Len(stock'.trail) : n \in 1..Len(stock.trail) \/ n \in NewRows
  BY DEF TrailGrows, NewRows
<1>2. /\ TrailOf(id)' = TrailOf(id)
      /\ \A n \in TrailOf(id) : stock'.trail[n] = stock.trail[n]
  BY <1>1 DEF TrailGrows, Untouched, TrailOf
<1>3. Closings(id)' = Closings(id)
  BY <1>2 DEF Closings
<1>4. ReservedWithKey(id)' <=> ReservedWithKey(id)
  BY <1>2 DEF ReservedWithKey
<1>5. ClosedOnce(id)'
  <2>1. \A n \in Closings(id) : n \in TrailOf(id)
    BY DEF Closings
  <2> QED BY <1>2, <1>3, <1>4, <2>1 DEF ClosedOnce, Untouched, Open
<1>6. StatusRecorded(id)'
  <2>1. PICK m \in 1..Len(stock.trail) :
          Newest(id, m) /\ (stock.trail[m].to = stock.rewards[id].status \/ Unrecorded(id))
    BY DEF StatusRecorded
  <2>2. m \in TrailOf(id) /\ Newest(id, m)'
    BY <1>2, <2>1 DEF Newest
  <2>3. m \in 1..Len(stock'.trail)
    BY <2>1 DEF TrailGrows
  <2>4. Unrecorded(id) => Unrecorded(id)'
    BY <1>4 DEF Unrecorded, Untouched
  <2>5. stock'.trail[m].to = stock'.rewards[id].status \/ Unrecorded(id)'
    BY <1>2, <2>1, <2>2, <2>4 DEF Untouched
  <2> QED BY <2>2, <2>3, <2>5 DEF StatusRecorded
<1> QED BY <1>5, <1>6

\* One new row that says the new status of an open reward is its last row, and closes it once.
LEMMA RecordedHolds ==
  ASSUME TrailGrows, NEW id, Recorded(id)
  PROVE  StatusRecorded(id)' /\ ClosedOnce(id)'
<1>1. PICK m \in NewRows :
        /\ stock'.trail[m].id = id
        /\ stock'.trail[m].to = stock'.rewards[id].status
        /\ \A n \in NewRows : stock'.trail[n].id = id => n = m
  BY DEF Recorded
<1>2. m \in 1..Len(stock'.trail) /\ m > Len(stock.trail)
  BY DEF NewRows
<1>3. TrailOf(id)' = TrailOf(id) \cup {m}
  <2>1. \A n \in 1..Len(stock'.trail) : n \in 1..Len(stock.trail) \/ n \in NewRows
    BY DEF TrailGrows, NewRows
  <2>2. 1..Len(stock.trail) \subseteq 1..Len(stock'.trail)
    BY DEF TrailGrows
  <2> QED BY <1>1, <1>2, <2>1, <2>2 DEF TrailGrows, TrailOf
<1>4. \A n \in TrailOf(id) : n \in Nat /\ n < m /\ stock'.trail[n] = stock.trail[n]
  BY <1>2 DEF TrailOf, TrailGrows
<1>5. Newest(id, m)'
  BY <1>2, <1>3, <1>4 DEF Newest, TrailGrows
<1>6. StatusRecorded(id)'
  BY <1>1, <1>2, <1>5 DEF StatusRecorded
<1>7. Closings(id)' = {n \in {m} : stock'.trail[n].to \in Closed}
  <2>1. \A n \in TrailOf(id) : stock'.trail[n].to \notin Closed
    BY <1>4 DEF Recorded, Closings
  <2> QED BY <1>3, <2>1 DEF Closings
<1>8. ClosedOnce(id)'
  <2>1. CASE stock'.rewards[id].status \in Closed
    <3>1. Closings(id)' = {m}
      BY <1>1, <1>7, <2>1
    <3> QED BY <1>1, <3>1 DEF ClosedOnce
  <2>2. CASE stock'.rewards[id].status \notin Closed
    <3>1. Closings(id)' = {}
      BY <1>1, <1>7, <2>2
    <3>2. Open(stock'.rewards[id])
      BY <2>2 DEF Recorded, Open, Statuses, Closed
    <3> QED BY <3>1, <3>2 DEF ClosedOnce, Open
  <2> QED BY <2>1, <2>2
<1> QED BY <1>6, <1>8

\* An open reward has no closing row.
LEMMA OpenHasNoClosing ==
  ASSUME NEW id, Open(stock.rewards[id]), ClosedOnce(id)
  PROVE  Closings(id) = {}
BY DEF Open, ClosedOnce, Closings, Closed

\* A move over a key that is on the trail already leaves the reward reserved or expired with that key.
LEMMA SilentStays ==
  ASSUME NEW id, Silent(id), StatusRecorded(id), ClosedOnce(id)
  PROVE  StatusRecorded(id)' /\ ClosedOnce(id)'
<1>1. /\ TrailOf(id)' = TrailOf(id)
      /\ stock'.trail = stock.trail
      /\ Closings(id)' = Closings(id)
      /\ Closings(id) = {}
      /\ ReservedWithKey(id)'
  BY OpenHasNoClosing DEF Silent, TrailOf, Closings, ReservedWithKey
<1>2. ClosedOnce(id)'
  BY <1>1 DEF ClosedOnce, Silent, Open
<1>3. StatusRecorded(id)'
  <2>1. PICK m \in 1..Len(stock.trail) : Newest(id, m)
    BY DEF StatusRecorded
  <2>2. Newest(id, m)'
    BY <1>1, <2>1 DEF Newest
  <2>3. Unrecorded(id)'
    BY <1>1 DEF Unrecorded, Silent
  <2> QED BY <1>1, <2>1, <2>2, <2>3 DEF StatusRecorded
<1> QED BY <1>2, <1>3

-----------------------------------------------------------------------------
\* The trail has the key of reward i.
KeyOnTrail(i) == \E n \in 1..Len(stock.trail) : stock.trail[n].key = stock.rewards[i].key

\* A new row names a reward, and its key the reward it issued or the transition it records.
NewRowOK(n) ==
  /\ stock'.trail[n].id \in Ids'
  /\ stock'.trail[n].key[1] \in IssueTags =>
       \E i \in Ids' : stock'.rewards[i].key = stock'.trail[n].key
  /\ stock'.trail[n].key[1] \in Targets =>
       /\ stock'.trail[n].key[2] = stock'.trail[n].id
       /\ stock'.trail[n].to \in {stock'.trail[n].key[1], "expired"}

\* What one transaction does to the rewards and the trail.
TrailStep ==
  /\ TrailGrows
  /\ \A i \in Ids : i \in Ids' /\ stock'.rewards[i].key = stock.rewards[i].key
  /\ \A n \in NewRows : NewRowOK(n)
  /\ \A i \in Ids' \ Ids : stock'.rewards[i].key # NoKey => KeyOnTrail(i)'
  /\ \A id \in Ids' : Untouched(id) \/ Recorded(id) \/ Silent(id)

\* The inductive invariant about the rewards and the trail.
StockInv ==
  /\ TrailTyped
  /\ KeysRecorded
  /\ \A id \in Ids : StatusRecorded(id) /\ ClosedOnce(id)

\* Every such transaction keeps the invariant.
LEMMA TrailStepKeeps ==
  ASSUME StockInv, TrailStep
  PROVE  StockInv'
<1>1. TrailGrows /\ \A n \in 1..Len(stock'.trail) : n \in 1..Len(stock.trail) \/ n \in NewRows
  BY DEF TrailStep, TrailGrows, NewRows
<1>2. TrailTyped'
  <2>1. \A n \in 1..Len(stock'.trail) : stock'.trail[n].id \in Ids'
    BY <1>1 DEF TrailStep, TrailGrows, NewRowOK, StockInv, TrailTyped
  <2> QED BY <1>1, <2>1 DEF TrailTyped, TrailGrows
<1>3. KeysRecorded'
  <2>1. ASSUME NEW n \in 1..Len(stock'.trail), stock'.trail[n].key[1] \in IssueTags
        PROVE  \E i \in Ids' : stock'.rewards[i].key = stock'.trail[n].key
    <3>1. CASE n \in 1..Len(stock.trail)
      <4>1. stock'.trail[n] = stock.trail[n]
        BY <1>1, <3>1 DEF TrailGrows
      <4>2. PICK i \in Ids : stock.rewards[i].key = stock.trail[n].key
        BY <2>1, <3>1, <4>1 DEF StockInv, KeysRecorded
      <4> QED BY <4>1, <4>2 DEF TrailStep
    <3>2. CASE n \in NewRows
      BY <2>1, <3>2 DEF TrailStep, NewRowOK
    <3> QED BY <1>1, <3>1, <3>2
  <2>2. ASSUME NEW i \in Ids', stock'.rewards[i].key # NoKey
        PROVE  \E n \in 1..Len(stock'.trail) : stock'.trail[n].key = stock'.rewards[i].key
    <3>1. CASE i \in Ids
      <4>1. stock'.rewards[i].key = stock.rewards[i].key
        BY <3>1 DEF TrailStep
      <4>2. PICK n \in 1..Len(stock.trail) : stock.trail[n].key = stock.rewards[i].key
        BY <2>2, <3>1, <4>1 DEF StockInv, KeysRecorded
      <4> QED BY <1>1, <4>1, <4>2 DEF TrailGrows
    <3>2. CASE i \notin Ids
      BY <2>2, <3>2 DEF TrailStep, KeyOnTrail
    <3> QED BY <3>1, <3>2
  <2>3. ASSUME NEW n \in 1..Len(stock'.trail), stock'.trail[n].key[1] \in Targets
        PROVE  /\ stock'.trail[n].key[2] = stock'.trail[n].id
               /\ stock'.trail[n].to \in {stock'.trail[n].key[1], "expired"}
    <3>1. CASE n \in 1..Len(stock.trail)
      BY <1>1, <2>3, <3>1 DEF TrailGrows, StockInv, KeysRecorded
    <3>2. CASE n \in NewRows
      BY <2>3, <3>2 DEF TrailStep, NewRowOK
    <3> QED BY <1>1, <3>1, <3>2
  <2> QED BY <2>1, <2>2, <2>3 DEF KeysRecorded
<1>4. ASSUME NEW id \in Ids' PROVE StatusRecorded(id)' /\ ClosedOnce(id)'
  <2>1. CASE Untouched(id)
    <3>1. id \in Ids
      BY <2>1 DEF Untouched
    <3> QED BY <1>1, <2>1, <3>1, UntouchedStays DEF StockInv
  <2>2. CASE Recorded(id)
    BY <1>1, <2>2, RecordedHolds
  <2>3. CASE Silent(id)
    <3>1. id \in Ids
      BY <2>3 DEF Silent
    <3> QED BY <2>3, <3>1, SilentStays DEF StockInv
  <2> QED BY <2>1, <2>2, <2>3 DEF TrailStep
<1> QED BY <1>2, <1>3, <1>4 DEF StockInv

\* A step that changes neither the rewards nor the trail is one.
LEMMA SameRewardsSameTrail ==
  ASSUME StockInv, stock'.rewards = stock.rewards, stock'.trail = stock.trail
  PROVE  TrailStep
<1>1. TrailGrows /\ NewRows = {}
  BY DEF StockInv, TrailTyped, TrailGrows, NewRows
<1>2. Ids' = Ids
  BY DEF Ids
<1> QED BY <1>1, <1>2 DEF TrailStep, Untouched

\* Appending one row to the trail adds that row and no other.
LEMMA RowAppended ==
  ASSUME StockInv, NEW r \in TrailRowType, stock'.trail = Append(stock.trail, r)
  PROVE  /\ TrailGrows
         /\ NewRows = {Len(stock.trail) + 1}
         /\ stock'.trail[Len(stock.trail) + 1] = r
<1>1. stock.trail \in Seq(TrailRowType) /\ Len(stock.trail) \in Nat
  BY DEF StockInv, TrailTyped
<1>2. /\ stock'.trail \in Seq(TrailRowType)
      /\ Len(stock'.trail) = Len(stock.trail) + 1
      /\ stock'.trail[Len(stock.trail) + 1] = r
      /\ \A i \in 1..Len(stock.trail) : stock'.trail[i] = stock.trail[i]
  BY <1>1, AppendRow
<1> QED BY <1>1, <1>2 DEF TrailGrows, NewRows

-----------------------------------------------------------------------------
\* The keys of issues, the keys of transitions and the absent key differ in their first part.
LEMMA KeyFacts ==
  /\ NoKey[1] \notin IssueTags /\ NoKey[1] \notin Targets
  /\ \A k \in RewardKeys : k # NoKey => k[1] \in IssueTags
  /\ \A k \in RewardKeys : k[1] \notin Targets
<1>1. NoKey[1] = "none"
  BY DEF NoKey
<1>2. ASSUME NEW k \in RewardKeys PROVE k = NoKey \/ k[1] \in IssueTags
  <2>1. CASE k \in {"client"} \X {""} \X ClientKeys
    BY <2>1 DEF IssueTags
  <2>2. CASE k \in {"rule"} \X Customers \X Nat
    BY <2>2 DEF IssueTags
  <2> QED BY <2>1, <2>2 DEF RewardKeys
<1> QED BY <1>1, <1>2 DEF IssueTags, Targets

\* A redemption, reservation, cancellation or expiry of one reward is one: it records the row, or meets
\* its key, which only a reservation leaves on an open reward.
LEMMA TransitionStep ==
  ASSUME TypeOK, StockInv, RequestKeys, NEW s \in Slots, req[s].kind \in Transitions,
         NEW target \in {req[s].target, "expired"},
         Valid(stock.rewards[req[s].id], target, clock),
         stock' = Transition(req[s].id, target, req[s].key)
  PROVE  TrailStep
<1>1. PICK id \in Ids, key \in TrailKeys, asked \in Targets :
        id = req[s].id /\ key = req[s].key /\ asked = req[s].target
  BY DEF TypeOK, RequestType, TrailKeys
<1>2. target \in Statuses /\ target \in {asked, "expired"}
  BY <1>1 DEF Targets, Statuses
<1>3. key = NoKey \/ (key[1] = asked /\ key[2] = id)
  BY <1>1 DEF RequestKeys
<1>4. stock.rewards \in Seq(RewardType) /\ stock.rewards[id] \in RewardType
  BY DEF TypeOK, Ids
<1>5. PICK from : from = Effective(stock.rewards[id], clock)
  OBVIOUS
<1>6. from \in Statuses /\ Open(stock.rewards[id])
  BY <1>1, <1>4, <1>5 DEF Valid, Effective, RanOut, Open, RewardType, Statuses
<1>7. PICK row : row = TrailRow(id, target, from, target, key)
  OBVIOUS
<1>8. /\ row \in TrailRowType /\ row.id = id /\ row.to = target /\ row.key = key
  BY <1>1, <1>2, <1>6, <1>7 DEF TrailRow, TrailRowType, Ids
<1>9. /\ Ids' = Ids
      /\ stock'.rewards[id].status = target
      /\ \A i \in Ids : stock'.rewards[i].key = stock.rewards[i].key
      /\ \A i \in Ids : i # id => stock'.rewards[i].status = stock.rewards[i].status
  <2>1. PICK r, until, q :
          /\ r = stock.rewards[id]
          /\ until = IF target = "reserved" THEN clock + Reservation ELSE Never
          /\ q = SetStatus(r, target, until)
    OBVIOUS
  <2>2. stock'.rewards = [stock.rewards EXCEPT ![id] = q]
    BY <1>1, <2>1 DEF Transition
  <2>3. q.status = target /\ q.key = r.key
    BY <2>1 DEF SetStatus
  <2> QED BY <1>4, <2>1, <2>2, <2>3 DEF Ids
<1>10. stock'.trail = AppendTrail(stock.trail, row)
  BY <1>1, <1>5, <1>7 DEF Transition
<1>11. Closings(id) = {}
  BY <1>6, OpenHasNoClosing DEF StockInv
<1>12. CASE stock'.trail = Append(stock.trail, row)
  <2>1. PICK m : m = Len(stock.trail) + 1
    OBVIOUS
  <2>2. TrailGrows /\ NewRows = {m} /\ stock'.trail[m] = row
    BY <1>8, <1>12, <2>1, RowAppended
  <2>3. NewRowOK(m)
    BY <1>2, <1>3, <1>8, <1>9, <2>2, KeyFacts DEF NewRowOK, IssueTags, Targets
  <2>4. Recorded(id)
    BY <1>2, <1>8, <1>9, <1>11, <2>2 DEF Recorded
  <2>5. \A i \in Ids : i # id => Untouched(i)
    BY <1>8, <1>9, <2>2 DEF Untouched
  <2> QED BY <1>9, <2>2, <2>3, <2>4, <2>5 DEF TrailStep
<1>13. CASE stock'.trail # Append(stock.trail, row)
  <2>1. /\ stock'.trail = stock.trail /\ key # NoKey
        /\ \E n \in 1..Len(stock.trail) : stock.trail[n].key = key
    BY <1>8, <1>10, <1>13 DEF AppendTrail
  <2>2. PICK n \in 1..Len(stock.trail) : stock.trail[n].key = key
    BY <2>1
  <2>3. stock.trail[n].id = id /\ stock.trail[n].to \in {asked, "expired"}
    BY <1>3, <2>1, <2>2 DEF StockInv, KeysRecorded
  <2>4. n \in TrailOf(id)
    BY <2>3 DEF TrailOf
  <2>5. stock.trail[n].to \notin Closed
    BY <1>11, <2>4 DEF Closings
  <2>6. asked = "reserved" /\ stock.trail[n].to = "reserved"
    BY <2>3, <2>5 DEF Closed, Targets
  <2>7. Silent(id)
    BY <1>2, <1>6, <1>9, <2>1, <2>2, <2>4, <2>6 DEF Silent, ReservedWithKey
  <2>8. TrailGrows /\ NewRows = {}
    BY <2>1 DEF StockInv, TrailTyped, TrailGrows, NewRows
  <2>9. \A i \in Ids : i # id => Untouched(i)
    BY <1>9, <2>8 DEF Untouched
  <2> QED BY <1>9, <2>7, <2>8, <2>9 DEF TrailStep
<1> QED BY <1>12, <1>13

\* An issue is one: the reward is new and so is its row, or the key was taken and nothing is added.
\* b is the tables before it, which may have counted the progress already.
LEMMA IssueStep ==
  ASSUME TypeOK, StockInv, NEW b, b.rewards = stock.rewards, b.trail = stock.trail,
         NEW c \in Customers, NEW key \in RewardKeys, NEW now \in Time,
         NEW st, st = IssueRow(b, c, key, now, clock),
         stock'.rewards = st.rewards, stock'.trail = st.trail
  PROVE  TrailStep
<1>1. stock.rewards \in Seq(RewardType) /\ Len(stock.rewards) \in Nat
  BY DEF TypeOK
<1>2. Existing(b, key) = {i \in Ids : key # NoKey /\ stock.rewards[i].key = key}
  BY DEF Existing, WithKey, Ids
<1>3. CASE Existing(b, key) # {}
  <2>1. PICK i \in Ids : key # NoKey /\ stock.rewards[i].key = key
    BY <1>2, <1>3
  <2>2. \E n \in 1..Len(stock.trail) : stock.trail[n].key = key
    BY <2>1 DEF StockInv, KeysRecorded
  <2>3. stock'.rewards = stock.rewards
    BY <1>3 DEF IssueRow
  <2>4. PICK row : row.key = key /\ stock'.trail = AppendTrail(stock.trail, row)
    <3>1. PICK id : st.trail = AppendTrail(b.trail, TrailRow(id, "issued", "none", "available", key))
      BY DEF IssueRow
    <3> QED BY <3>1 DEF TrailRow
  <2>5. stock'.trail = stock.trail
    BY <2>1, <2>2, <2>4 DEF AppendTrail
  <2> QED BY <2>3, <2>5, SameRewardsSameTrail
<1>4. CASE Existing(b, key) = {}
  <2>0. PICK new, row : /\ new = Len(stock.rewards) + 1
                        /\ row = TrailRow(new, "issued", "none", "available", key)
    OBVIOUS
  <2>1. PICK r : /\ r \in RewardType /\ r.key = key /\ r.status = "available"
                 /\ stock'.rewards = Append(stock.rewards, r)
    <3> DEFINE q == [customer |-> c, key |-> key, status |-> "available", at |-> now,
                     expires |-> IF Validity = 0 THEN Never ELSE clock + Validity,
                     until |-> Never]
    <3>1. clock + Validity \in Nat
      BY RewardStockAssumption, RewardDeskAssumption DEF TypeOK, Time
    <3>2. q.expires \in Nat /\ q.until \in Nat
      BY <3>1 DEF Never
    <3>3. q \in RewardType
      BY <3>2 DEF RewardType, Statuses
    <3>4. stock'.rewards = Append(stock.rewards, q)
      BY <1>4 DEF IssueRow
    <3> QED BY <3>3, <3>4
  <2>2. /\ Len(stock'.rewards) = new
        /\ stock'.rewards[new] = r
        /\ \A i \in Ids : stock'.rewards[i] = stock.rewards[i]
    BY <1>1, <2>0, <2>1, AppendRow DEF Ids
  <2>3. stock'.trail = AppendTrail(stock.trail, row)
    BY <1>2, <1>4, <2>0 DEF IssueRow
  <2>4. row \in TrailRowType /\ row.id = new /\ row.to = "available" /\ row.key = key
    BY <1>1, <2>0 DEF TrailRow, TrailRowType, TrailKeys, Statuses
  <2>5. /\ new \in Ids' /\ new \notin Ids
        /\ \A i \in Ids : i \in Ids'
        /\ \A i \in Ids' : i \in Ids \/ i = new
    BY <1>1, <2>0, <2>2 DEF Ids
  <2>6. key = NoKey \/ ~\E n \in 1..Len(stock.trail) : stock.trail[n].key = key
    <3> SUFFICES ASSUME key # NoKey, NEW n \in 1..Len(stock.trail), stock.trail[n].key = key
                 PROVE  FALSE
      OBVIOUS
    <3>1. PICK i \in Ids : stock.rewards[i].key = key
      BY KeyFacts DEF StockInv, KeysRecorded
    <3> QED BY <1>2, <1>4, <3>1
  <2>7. stock'.trail = Append(stock.trail, row)
    BY <2>3, <2>4, <2>6 DEF AppendTrail
  <2>8. PICK m : m = Len(stock.trail) + 1
    OBVIOUS
  <2>9. TrailGrows /\ NewRows = {m} /\ stock'.trail[m] = row
    BY <2>4, <2>7, <2>8, RowAppended
  <2>10. NewRowOK(m)
    BY <2>1, <2>2, <2>4, <2>5, <2>9, KeyFacts DEF NewRowOK
  <2>11. m \in 1..Len(stock'.trail)
    BY <2>9 DEF NewRows
  <2>12. KeyOnTrail(new)'
    BY <2>1, <2>2, <2>4, <2>9, <2>11 DEF KeyOnTrail
  <2>13. Closings(new) = {}
    BY <2>5 DEF StockInv, TrailTyped, Closings, TrailOf
  <2>14. Recorded(new)
    BY <2>1, <2>2, <2>4, <2>9, <2>13 DEF Recorded, Statuses
  <2>15. \A i \in Ids : Untouched(i)
    BY <2>2, <2>4, <2>5, <2>9 DEF Untouched
  <2> QED BY <2>2, <2>5, <2>9, <2>10, <2>12, <2>14, <2>15 DEF TrailStep
<1> QED BY <1>3, <1>4

\* A visit that meets a rule is one: it counts progress and issues under the rule's key.
LEMMA EvaluateStep ==
  ASSUME TypeOK, StockInv, NEW c \in Customers, NEW n \in Nat, NEW now \in Time,
         stock' = EvaluateRewardEvent(stock, c, n, now, clock)
  PROVE  TrailStep
<1>1. PICK b, key, st :
        /\ b = UpsertProgress(stock, c, n, clock)
        /\ key = RuleKey(c, n, clock)
        /\ st = IssueRow(b, c, key, now, clock)
  OBVIOUS
<1>2. b.rewards = stock.rewards /\ b.trail = stock.trail
  BY <1>1 DEF UpsertProgress
<1>3. key \in RewardKeys
  <2>1. clock \in Nat
    BY RewardDeskAssumption DEF TypeOK, Time
  <2> QED BY <1>1, <2>1, RuleKeyType
<1>4. \A x : Complete(x, c, clock).rewards = x.rewards /\ Complete(x, c, clock).trail = x.trail
  BY DEF Complete
<1>5. \/ stock' = stock \/ stock' = b \/ stock' = Complete(b, c, clock)
      \/ stock' = Complete(st, c, clock)
  BY <1>1 DEF EvaluateRewardEvent
<1>6. \/ stock'.rewards = stock.rewards /\ stock'.trail = stock.trail
      \/ stock'.rewards = st.rewards /\ stock'.trail = st.trail
  BY <1>2, <1>4, <1>5
<1> QED BY <1>1, <1>2, <1>3, <1>6, IssueStep, SameRewardsSameTrail

-----------------------------------------------------------------------------
(* The rows of a sweep *)

\* The number of ids below i.
Rank(ids, i) == Cardinality({j \in ids : j < i})

\* The ranks of a finite set of ids count it from 0 without a gap or a repeat.
LEMMA RanksList ==
  ASSUME NEW ids \in SUBSET Nat, IsFiniteSet(ids)
  PROVE  /\ Cardinality(ids) \in Nat
         /\ \A i \in ids : Rank(ids, i) \in 0..(Cardinality(ids) - 1)
         /\ \A i, j \in ids : Rank(ids, i) = Rank(ids, j) => i = j
         /\ \A n \in 0..(Cardinality(ids) - 1) : \E i \in ids : Rank(ids, i) = n
<1> DEFINE ranks == 0..(Cardinality(ids) - 1)
<1>1. Cardinality(ids) \in Nat
  BY FS_CardinalityType
<1>2. ASSUME NEW i \in ids, NEW S, S = {j \in ids : j < i}
      PROVE  /\ S \subseteq ids /\ i \notin S
             /\ IsFiniteSet(S) /\ Cardinality(S) = Rank(ids, i) /\ Rank(ids, i) \in Nat
             /\ IsFiniteSet(S \cup {i})
             /\ Cardinality(S \cup {i}) = Rank(ids, i) + 1
  <2>1. S \subseteq ids /\ i \notin S
    BY <1>2
  <2>2. IsFiniteSet(S)
    BY <2>1, FS_Subset
  <2>3. Cardinality(S) = Rank(ids, i)
    BY <1>2 DEF Rank
  <2>4. Cardinality(S) \in Nat
    BY <2>2, FS_CardinalityType
  <2>5. IsFiniteSet(S \cup {i}) /\ Cardinality(S \cup {i}) = Cardinality(S) + 1
    BY <2>1, <2>2, FS_AddElement
  <2> QED BY <2>1, <2>2, <2>3, <2>4, <2>5
<1>3. ASSUME NEW i \in ids PROVE Rank(ids, i) \in ranks
  <2>1. PICK S : S = {j \in ids : j < i}
    OBVIOUS
  <2>2. S \cup {i} \subseteq ids /\ Cardinality(S \cup {i}) = Rank(ids, i) + 1 /\ Rank(ids, i) \in Nat
    BY <1>2, <2>1
  <2>3. Cardinality(S \cup {i}) <= Cardinality(ids)
    BY <2>2, FS_Subset
  <2>4. PICK k, c : k = Rank(ids, i) /\ c = Cardinality(ids)
    OBVIOUS
  <2>5. k \in Nat /\ c \in Nat /\ k + 1 <= c
    BY <1>1, <2>2, <2>3, <2>4
  <2>6. k \in 0..(c - 1)
    BY <2>5
  <2> QED BY <2>4, <2>6
<1>4. ASSUME NEW i \in ids, NEW j \in ids, i < j PROVE Rank(ids, i) < Rank(ids, j)
  <2>1. PICK S : S = {k \in ids : k < i}
    OBVIOUS
  <2>2. PICK T : T = {k \in ids : k < j}
    OBVIOUS
  <2>3. S \cup {i} \subseteq T
    <3>1. i \in T
      BY <1>4, <2>2
    <3>2. ASSUME NEW k \in S PROVE k \in T
      <4>1. k \in ids /\ k \in Nat /\ i \in Nat /\ j \in Nat /\ k < i
        BY <2>1
      <4>2. k < j
        BY <1>4, <4>1
      <4> QED BY <2>2, <4>1, <4>2
    <3> QED BY <3>1, <3>2
  <2>4. /\ Cardinality(S \cup {i}) = Rank(ids, i) + 1 /\ Rank(ids, i) \in Nat
        /\ Cardinality(T) = Rank(ids, j) /\ Rank(ids, j) \in Nat /\ IsFiniteSet(T)
    BY <1>2, <1>4, <2>1, <2>2
  <2>5. Cardinality(S \cup {i}) <= Cardinality(T)
    BY <2>3, <2>4, FS_Subset
  <2>6. PICK k, m : k = Rank(ids, i) /\ m = Rank(ids, j)
    OBVIOUS
  <2>7. k \in Nat /\ m \in Nat /\ k + 1 <= m
    BY <2>4, <2>5, <2>6
  <2> QED BY <2>6, <2>7
<1>5. ASSUME NEW i \in ids, NEW j \in ids, Rank(ids, i) = Rank(ids, j) PROVE i = j
  <2>1. i < j \/ j < i \/ i = j
    OBVIOUS
  <2>2. Rank(ids, i) \in Nat /\ Rank(ids, j) \in Nat
    BY <1>2
  <2> QED BY <1>4, <1>5, <2>1, <2>2
<1>6. ASSUME NEW n \in ranks PROVE \E i \in ids : Rank(ids, i) = n
  <2> DEFINE f == [i \in ids |-> Rank(ids, i)]
  <2>1. f \in Injection(ids, ranks)
    <3>1. f \in [ids -> ranks]
      BY <1>3
    <3>2. \A i, j \in ids : f[i] = f[j] => i = j
      BY <1>5
    <3> HIDE DEF f, ranks
    <3> QED BY <3>1, <3>2 DEF Injection, IsInjective
  <2>2. IsFiniteSet(ranks) /\ Cardinality(ranks) = Cardinality(ids)
    <3>1. Cardinality(ids) - 1 \in Int /\ 0 \in Int
      BY <1>1
    <3>2. /\ IsFiniteSet(0..(Cardinality(ids) - 1))
          /\ Cardinality(0..(Cardinality(ids) - 1))
               = IF 0 > Cardinality(ids) - 1 THEN 0 ELSE Cardinality(ids) - 1 - 0 + 1
      BY <3>1, FS_Interval
    <3> QED BY <1>1, <3>2
  <2>3. f \in Surjection(ids, ranks)
    <3> HIDE DEF f, ranks
    <3> QED BY <2>1, <2>2, FS_Injection
  <2>4. \E i \in ids : f[i] = n
    <3> HIDE DEF f, ranks
    <3> QED BY <2>3, <1>6 DEF Surjection
  <2> QED BY <2>4
<1> QED BY <1>1, <1>3, <1>5, <1>6

\* The operations a row may name.
Operations == Statuses \cup {"issued", "reservation_released"}

\* A block of a sweep has exactly one row for each of its rewards, without a key.
LEMMA SweptRowsList ==
  ASSUME TypeOK, NEW ids \in SUBSET Ids, NEW op \in Operations, NEW to \in Statuses,
         NEW rows, rows = SweptRows(op, to, ids)
  PROVE  /\ rows \in Seq(TrailRowType)
         /\ \A n \in 1..Len(rows) :
              rows[n].id \in ids /\ rows[n].to = to /\ rows[n].key = NoKey
         /\ \A i \in ids : \E n \in 1..Len(rows) :
              rows[n].id = i /\ \A k \in 1..Len(rows) : rows[k].id = i => k = n
<1>1. stock.rewards \in Seq(RewardType) /\ Len(stock.rewards) \in Nat
  BY DEF TypeOK
<1>2. ids \in SUBSET Nat /\ IsFiniteSet(ids)
  <2>1. IsFiniteSet(1..Len(stock.rewards))
    BY <1>1, FS_Interval
  <2>2. ids \subseteq 1..Len(stock.rewards)
    BY DEF Ids
  <2>3. IsFiniteSet(ids)
    BY <2>1, <2>2, FS_Subset
  <2>4. ids \in SUBSET Nat
    BY <1>1, <2>2
  <2> QED BY <2>3, <2>4
<1>3. PICK c \in Nat : c = Cardinality(ids)
  BY <1>2, RanksList
<1>4. /\ \A i \in ids : Rank(ids, i) \in 0..(c - 1)
      /\ \A i, j \in ids : Rank(ids, i) = Rank(ids, j) => i = j
      /\ \A n \in 0..(c - 1) : \E i \in ids : Rank(ids, i) = n
  BY <1>2, <1>3, RanksList
<1> DEFINE nth(n) == CHOOSE i \in ids : Rank(ids, i) = n - 1
<1>5. ASSUME NEW n \in 1..c PROVE nth(n) \in ids /\ Rank(ids, nth(n)) = n - 1
  <2>1. \E i \in ids : Rank(ids, i) = n - 1
    BY <1>4
  <2> QED BY <2>1
<1>6. rows = [n \in 1..c |-> TrailRow(nth(n), op, stock.rewards[nth(n)].status, to, NoKey)]
  BY <1>3 DEF SweptRows, Rank
<1> HIDE DEF nth
<1>7. ASSUME NEW n \in 1..c
      PROVE  /\ rows[n] \in TrailRowType
             /\ rows[n].id = nth(n) /\ rows[n].to = to /\ rows[n].key = NoKey
  <2>1. nth(n) \in Ids /\ nth(n) \in Nat
    BY <1>2, <1>5
  <2>2. stock.rewards[nth(n)] \in RewardType
    BY <1>1, <2>1 DEF Ids
  <2>3. stock.rewards[nth(n)].status \in Statuses \cup {"none"} /\ NoKey \in TrailKeys
    BY <2>2 DEF RewardType, TrailKeys, RewardKeys
  <2>4. rows[n] = TrailRow(nth(n), op, stock.rewards[nth(n)].status, to, NoKey)
    BY <1>6
  <2> QED BY <2>1, <2>3, <2>4 DEF TrailRow, TrailRowType, Operations
<1>8. rows \in Seq(TrailRowType) /\ Len(rows) = c
  <2>1. rows \in [1..c -> TrailRowType]
    BY <1>6, <1>7
  <2> QED BY <2>1
<1>9. ASSUME NEW i \in ids
      PROVE  \E n \in 1..c : rows[n].id = i /\ \A k \in 1..c : rows[k].id = i => k = n
  <2>1. PICK n \in 1..c : n = Rank(ids, i) + 1
    BY <1>4
  <2>2. Rank(ids, nth(n)) = Rank(ids, i)
    BY <1>4, <1>5, <2>1
  <2>3. nth(n) = i
    BY <1>4, <1>5, <2>2
  <2>4. ASSUME NEW k \in 1..c, nth(k) = i PROVE k = n
    BY <1>5, <2>1, <2>4
  <2> QED BY <1>7, <2>3, <2>4
<1> QED BY <1>5, <1>7, <1>8, <1>9

\* Where the elements of two blocks appended to a sequence are.
LEMMA TwoBlocks ==
  ASSUME NEW Rows, NEW q \in Seq(Rows), NEW a \in Seq(Rows), NEW b \in Seq(Rows),
         NEW l, l = q \o a \o b
  PROVE  /\ l \in Seq(Rows)
         /\ Len(l) = Len(q) + Len(a) + Len(b)
         /\ \A n \in 1..Len(q) : l[n] = q[n]
         /\ \A n \in 1..Len(a) : l[Len(q) + n] = a[n]
         /\ \A n \in 1..Len(b) : l[Len(q) + Len(a) + n] = b[n]
OBVIOUS

\* A sweep is one: it releases and expires open rewards, each once, with one row for each.
LEMMA SweepStep ==
  ASSUME TypeOK, StockInv, NEW w \in Sweepers, NEW skip, SweepCommit(w, skip)
  PROVE  TrailStep
<1>1. PICK released \in SUBSET ToRelease(sweep[w]), closed \in SUBSET ToClose(sweep[w]) :
        stock'.rewards = Swept(released, closed) /\ stock'.trail = SweptTrail(released, closed)
  BY DEF SweepCommit, Batches
<1>2. /\ released \subseteq Ids /\ closed \subseteq Ids
      /\ \A i \in released : i \notin closed
      /\ \A i \in released \cup closed : Open(stock.rewards[i])
  BY DEF ToRelease, ToClose, RanOut, Open
<1>3. PICK ra, rb : /\ ra = SweptRows("reservation_released", "available", released)
                    /\ rb = SweptRows("expired", "expired", closed)
  OBVIOUS
<1>4. /\ ra \in Seq(TrailRowType)
      /\ \A n \in 1..Len(ra) :
           ra[n].id \in released /\ ra[n].to = "available" /\ ra[n].key = NoKey
      /\ \A i \in released : \E n \in 1..Len(ra) :
           ra[n].id = i /\ \A k \in 1..Len(ra) : ra[k].id = i => k = n
  <2>1. released \in SUBSET Ids /\ ra = SweptRows("reservation_released", "available", released)
    BY <1>2, <1>3
  <2>2. PICK op \in Operations, to \in Statuses : op = "reservation_released" /\ to = "available"
    BY DEF Operations, Statuses
  <2>3. ra = SweptRows(op, to, released)
    BY <2>1, <2>2
  <2>4. /\ ra \in Seq(TrailRowType)
        /\ \A n \in 1..Len(ra) :
             ra[n].id \in released /\ ra[n].to = to /\ ra[n].key = NoKey
        /\ \A i \in released : \E n \in 1..Len(ra) :
             ra[n].id = i /\ \A k \in 1..Len(ra) : ra[k].id = i => k = n
    BY <2>1, <2>3, SweptRowsList, Zenon
  <2> QED BY <2>2, <2>4
<1>5. /\ rb \in Seq(TrailRowType)
      /\ \A n \in 1..Len(rb) :
           rb[n].id \in closed /\ rb[n].to = "expired" /\ rb[n].key = NoKey
      /\ \A i \in closed : \E n \in 1..Len(rb) :
           rb[n].id = i /\ \A k \in 1..Len(rb) : rb[k].id = i => k = n
  <2>1. closed \in SUBSET Ids /\ rb = SweptRows("expired", "expired", closed)
    BY <1>2, <1>3
  <2>2. PICK op \in Operations, to \in Statuses : op = "expired" /\ to = "expired"
    BY DEF Operations, Statuses
  <2>3. rb = SweptRows(op, to, closed)
    BY <2>1, <2>2
  <2>4. /\ rb \in Seq(TrailRowType)
        /\ \A n \in 1..Len(rb) :
             rb[n].id \in closed /\ rb[n].to = to /\ rb[n].key = NoKey
        /\ \A i \in closed : \E n \in 1..Len(rb) :
             rb[n].id = i /\ \A k \in 1..Len(rb) : rb[k].id = i => k = n
    BY <2>1, <2>3, SweptRowsList, Zenon
  <2> QED BY <2>2, <2>4
<1>6. PICK len \in Nat, la \in Nat, lb \in Nat :
        len = Len(stock.trail) /\ la = Len(ra) /\ lb = Len(rb)
  BY <1>4, <1>5 DEF StockInv, TrailTyped
<1>7. /\ stock'.trail \in Seq(TrailRowType)
      /\ Len(stock'.trail) = len + la + lb
      /\ \A n \in 1..len : stock'.trail[n] = stock.trail[n]
      /\ \A n \in 1..la : stock'.trail[len + n] = ra[n]
      /\ \A n \in 1..lb : stock'.trail[len + la + n] = rb[n]
  <2>1. stock.trail \in Seq(TrailRowType)
    BY DEF StockInv, TrailTyped
  <2>2. stock'.trail = stock.trail \o ra \o rb
    BY <1>1, <1>3 DEF SweptTrail
  <2> QED BY SMTT(30), <1>4, <1>5, <1>6, <2>1, <2>2, TwoBlocks
<1>8. TrailGrows
  BY <1>6, <1>7 DEF TrailGrows, StockInv, TrailTyped
<1>9. NewRows = (len + 1)..(len + la + lb)
  BY <1>6, <1>7 DEF NewRows
<1>10. ASSUME NEW m \in NewRows
       PROVE  \/ \E n \in 1..la : m = len + n /\ stock'.trail[m] = ra[n]
              \/ \E n \in 1..lb : m = len + la + n /\ stock'.trail[m] = rb[n]
  <2>1. CASE m <= len + la
    <3>1. PICK n \in 1..la : m = len + n
      <4>1. m - len \in 1..la /\ m = len + (m - len)
        BY <1>9, <2>1
      <4> QED BY <4>1
    <3> QED BY <1>7, <3>1
  <2>2. CASE m > len + la
    <3>1. PICK n \in 1..lb : m = len + la + n
      <4>1. m - (len + la) \in 1..lb /\ m = len + la + (m - (len + la))
        BY <1>9, <2>2
      <4> QED BY <4>1
    <3> QED BY <1>7, <3>1
  <2> QED BY <1>9, <2>1, <2>2
<1>11. /\ \A n \in 1..la : len + n \in NewRows
       /\ \A n \in 1..lb : len + la + n \in NewRows
  BY <1>9
<1>12. Ids' = Ids
  <2>1. stock.rewards \in Seq(RewardType) /\ Len(stock.rewards) \in Nat
    BY DEF TypeOK
  <2>2. stock'.rewards = [i \in 1..Len(stock.rewards) |-> stock'.rewards[i]]
    BY <1>1 DEF Swept, Ids
  <2>3. Len(stock'.rewards) = Len(stock.rewards)
    BY <2>1, <2>2
  <2> QED BY <2>3 DEF Ids
<1>13. \A i \in Ids :
         /\ stock'.rewards[i].key = stock.rewards[i].key
         /\ i \in released => stock'.rewards[i].status = "available"
         /\ i \in closed => stock'.rewards[i].status = "expired"
         /\ i \notin released \cup closed => stock'.rewards[i] = stock.rewards[i]
  BY <1>1, <1>2 DEF Swept, SetStatus
<1>14. \A m \in NewRows : NewRowOK(m)
  <2> SUFFICES ASSUME NEW m \in NewRows PROVE NewRowOK(m)
    OBVIOUS
  <2>1. stock'.trail[m].id \in Ids /\ stock'.trail[m].key = NoKey
    BY <1>2, <1>4, <1>5, <1>6, <1>10
  <2> QED BY <1>12, <2>1, KeyFacts DEF NewRowOK
<1>15. ASSUME NEW i \in released PROVE Recorded(i)
  <2>1. PICK n \in 1..la : ra[n].id = i /\ \A k \in 1..la : ra[k].id = i => k = n
    BY <1>4, <1>6
  <2>2. PICK m \in NewRows : m = len + n /\ stock'.trail[m] = ra[n]
    BY <1>7, <1>11
  <2>3. ASSUME NEW k \in NewRows, stock'.trail[k].id = i PROVE k = m
    <3>1. CASE \E j \in 1..la : k = len + j /\ stock'.trail[k] = ra[j]
      BY <2>1, <2>2, <2>3, <3>1
    <3>2. CASE \E j \in 1..lb : k = len + la + j /\ stock'.trail[k] = rb[j]
      BY <1>2, <1>5, <1>6, <2>3, <3>2
    <3> QED BY <1>10, <3>1, <3>2
  <2>4. Closings(i) = {}
    BY <1>2, OpenHasNoClosing DEF StockInv
  <2>5. stock'.rewards[i].status = "available" /\ ra[n].to = "available"
    BY <1>2, <1>4, <1>6, <1>13
  <2> QED BY <2>1, <2>2, <2>3, <2>4, <2>5 DEF Recorded, Statuses
<1>16. ASSUME NEW i \in closed PROVE Recorded(i)
  <2>1. PICK n \in 1..lb : rb[n].id = i /\ \A k \in 1..lb : rb[k].id = i => k = n
    BY <1>5, <1>6
  <2>2. PICK m \in NewRows : m = len + la + n /\ stock'.trail[m] = rb[n]
    BY <1>7, <1>11
  <2>3. ASSUME NEW k \in NewRows, stock'.trail[k].id = i PROVE k = m
    <3>1. CASE \E j \in 1..la : k = len + j /\ stock'.trail[k] = ra[j]
      BY <1>2, <1>4, <1>6, <2>3, <3>1
    <3>2. CASE \E j \in 1..lb : k = len + la + j /\ stock'.trail[k] = rb[j]
      BY <2>1, <2>2, <2>3, <3>2
    <3> QED BY <1>10, <3>1, <3>2
  <2>4. Closings(i) = {}
    BY <1>2, OpenHasNoClosing DEF StockInv
  <2>5. stock'.rewards[i].status = "expired" /\ rb[n].to = "expired"
    BY <1>2, <1>5, <1>6, <1>13
  <2> QED BY <2>1, <2>2, <2>3, <2>4, <2>5 DEF Recorded, Statuses
<1>17. ASSUME NEW i \in Ids, i \notin released \cup closed PROVE Untouched(i)
  <2>1. \A m \in NewRows : stock'.trail[m].id \in released \cup closed
    BY <1>4, <1>5, <1>6, <1>10
  <2> QED BY <1>13, <1>17, <2>1 DEF Untouched
<1> QED BY <1>8, <1>12, <1>13, <1>14, <1>15, <1>16, <1>17 DEF TrailStep

-----------------------------------------------------------------------------
\* Every step is one of these transactions or leaves the rewards and the trail alone.
LEMMA StockStep ==
  ASSUME TypeOK, StockInv, RequestKeys, [Next]_vars
  PROVE  StockInv'
<1>1. ASSUME NEW s \in Slots, IssueCommit(s) PROVE TrailStep
  <2>1. PICK c \in Customers, key \in RewardKeys, now \in Time :
          c = req[s].customer /\ key = req[s].key /\ now = req[s].at
    BY <1>1 DEF IssueCommit, TypeOK, RequestType
  <2>6. PICK st : st = IssueRow(stock, c, key, now, clock)
    OBVIOUS
  <2>2. stock' = IssueRow(stock, c, key, now, clock)
    BY <1>1, <2>1 DEF IssueCommit
  <2>3. PICK b : b = stock
    OBVIOUS
  <2>4. st = IssueRow(b, c, key, now, clock) /\ b.rewards = stock.rewards /\ b.trail = stock.trail
    BY <2>6, <2>3
  <2>5. stock'.rewards = st.rewards /\ stock'.trail = st.trail
    BY <2>6, <2>2
  <2> QED BY <2>4, <2>5, IssueStep
<1>2. ASSUME NEW s \in Slots, VisitCommit(s) PROVE TrailStep
  <2>1. PICK c \in Customers, now \in Time, n \in Nat :
          c = req[s].customer /\ now = req[s].at /\ n = visited[c] + 1
    BY <1>2 DEF VisitCommit, TypeOK, RequestType
  <2>2. stock' = stock \/ stock' = EvaluateRewardEvent(stock, c, n, now, clock)
    BY <1>2, <2>1 DEF VisitCommit
  <2> QED BY <2>2, EvaluateStep, SameRewardsSameTrail
<1>3. ASSUME NEW s \in Slots, TransitionCommit(s) PROVE TrailStep
  <2>1. PICK target \in {req[s].target, "expired"} : target = Outcome(s)
    BY DEF Outcome
  <2> QED BY <1>3, <2>1, TransitionStep DEF TransitionCommit, Transitions
<1>4. ASSUME NEW s \in Slots, DirectCommit(s) PROVE TrailStep
  BY <1>4, TransitionStep DEF DirectCommit, Transitions
<1>5. ASSUME UNCHANGED stock PROVE TrailStep
  BY <1>5, SameRewardsSameTrail
<1>6. \/ UNCHANGED stock
      \/ \E s \in Slots : IssueCommit(s) \/ VisitCommit(s) \/ TransitionCommit(s) \/ DirectCommit(s)
      \/ \E w \in Sweepers : \E skip : SweepCommit(w, skip)
  BY DEF Next, vars, IssueBegin, VisitBegin, TransitionBegin, Begin, TransitionReplay,
         SweepBegin, UpdateDefinition, DeleteCustomer, Abort, SweepAbort, Tick, Quiesce
<1> QED BY <1>1, <1>2, <1>3, <1>4, <1>5, <1>6, SweepStep, TrailStepKeeps

\* A request takes its key when it begins and never changes it.
LEMMA RequestKeysStep ==
  ASSUME TypeOK, RequestKeys, [Next]_vars
  PROVE  RequestKeys'
<1> DEFINE Keyed(q) == q.kind \in Transitions =>
                         q.key = NoKey \/ (q.key[1] = q.target /\ q.key[2] = q.id)
<1>1. ASSUME NEW s \in Slots, NEW q, Keyed(q), req' = [req EXCEPT ![s] = q]
      PROVE  RequestKeys'
  <2>1. \A t \in Slots : req'[t] = q \/ req'[t] = req[t]
    BY <1>1 DEF TypeOK
  <2> QED BY <1>1, <2>1 DEF RequestKeys
<1>2. ASSUME NEW s \in Slots, Finish(s) PROVE RequestKeys'
  <2>1. Keyed(Idle)
    BY DEF Idle, Transitions
  <2> HIDE DEF Keyed
  <2> QED BY <1>1, <1>2, <2>1 DEF Finish
<1>3. ASSUME NEW s \in Slots, NEW kind, NEW c, NEW id, NEW target, NEW key,
             Begin(s, kind, c, id, target, key),
             kind \in Transitions => key = NoKey \/ (key[1] = target /\ key[2] = id)
      PROVE  RequestKeys'
  <2>1. PICK q : q = [kind |-> kind, customer |-> c, id |-> id, target |-> target,
                      key |-> key, at |-> Now]
    OBVIOUS
  <2>2. Keyed(q)
    BY <1>3, <2>1
  <2>3. req' = [req EXCEPT ![s] = q]
    BY <1>3, <2>1 DEF Begin
  <2> HIDE DEF Keyed
  <2> QED BY <1>1, <2>2, <2>3
<1>4. ASSUME NEW s \in Slots, NEW c, NEW k, IssueBegin(s, c, k) \/ VisitBegin(s, c)
      PROVE  RequestKeys'
  BY <1>3, <1>4 DEF IssueBegin, VisitBegin, Transitions
<1>5. ASSUME NEW s \in Slots, NEW kind, NEW id, NEW t, NEW k,
             TransitionBegin(s, kind, id, t, k)
      PROVE  RequestKeys'
  <2>1. PICK key : key = TransitionKey(t, id, k)
    OBVIOUS
  <2>2. key = NoKey \/ (key[1] = t /\ key[2] = id)
    BY <2>1 DEF TransitionKey
  <2> QED BY <1>3, <1>5, <2>1, <2>2 DEF TransitionBegin
<1>6. ASSUME req' = req PROVE RequestKeys'
  BY <1>6 DEF RequestKeys
<1>7. \/ req' = req
      \/ \E s \in Slots : Finish(s)
      \/ \E s \in Slots, c \in Customers, k \in ClientKeys : IssueBegin(s, c, k)
      \/ \E s \in Slots, c \in Customers : VisitBegin(s, c)
      \/ \E s \in Slots, kind \in Transitions, id \in Ids, t \in Targets, k \in ClientKeys :
           TransitionBegin(s, kind, id, t, k)
  BY DEF Next, vars, IssueCommit, VisitCommit, TransitionCommit, DirectCommit,
         TransitionReplay, SweepBegin, SweepCommit, UpdateDefinition, DeleteCustomer,
         Abort, SweepAbort, Tick, Quiesce
<1> QED BY <1>2, <1>4, <1>5, <1>6, <1>7

\* The last row is the one with the largest index.
LEMMA NewestIsMax ==
  ASSUME NEW id, NEW m, Newest(id, m)
  PROVE  Max(TrailOf(id)) = m
<1>1. \A n \in TrailOf(id) : n \in Int
  BY DEF TrailOf
<1>2. m \in TrailOf(id) /\ \A n \in TrailOf(id) : n <= m
  BY DEF Newest
<1>3. \A x \in TrailOf(id) : (\A y \in TrailOf(id) : x >= y) => x = m
  BY <1>1, <1>2
<1>4. \A y \in TrailOf(id) : m >= y
  BY <1>1, <1>2
<1> QED BY <1>2, <1>3, <1>4 DEF Max

(***************************************************************************)
(* The audit trail tells the truth about every reward: a reward is closed  *)
(* on it at most once, and its last row says its status, except that a     *)
(* reward reserved or expired under the key of an earlier reservation      *)
(* leaves no row of it (INSERT ... ON CONFLICT DO NOTHING).                *)
(***************************************************************************)
THEOREM TrailIsTrue == Spec => []TrailTrue
<1>1. Init => StockInv /\ RequestKeys
  <2> SUFFICES ASSUME Init PROVE StockInv /\ RequestKeys
    OBVIOUS
  <2>1. stock.rewards = << >> /\ stock.trail = << >> /\ Ids = {}
    BY DEF Init, EmptyStock, Ids
  <2>2. RequestKeys
    BY DEF Init, Idle, RequestKeys, Transitions
  <2> QED BY <2>1, <2>2 DEF StockInv, TrailTyped, KeysRecorded
<1>2. TypeOK /\ StockInv => TrailTrue
  <2> SUFFICES ASSUME TypeOK, StockInv PROVE TrailTrue
    OBVIOUS
  <2>1. ClosedOnceOnTrail
    BY DEF StockInv, ClosedOnce, ClosedOnceOnTrail, Closings
  <2>2. TrailExplainsStatus
    <3> SUFFICES ASSUME NEW id \in Ids
                 PROVE  \/ stock.trail[Max(TrailOf(id))].to = stock.rewards[id].status
                        \/ /\ stock.rewards[id].status \in {"reserved", "expired"}
                           /\ ReservedWithKey(id)
      BY DEF TrailExplainsStatus
    <3>1. PICK m : /\ Newest(id, m)
                   /\ stock.trail[m].to = stock.rewards[id].status \/ Unrecorded(id)
      BY DEF StockInv, StatusRecorded
    <3>2. Max(TrailOf(id)) = m
      BY <3>1, NewestIsMax
    <3> QED BY <3>1, <3>2 DEF Unrecorded
  <2> QED BY <2>1, <2>2 DEF TrailTrue
<1>3. TypeOK /\ StockInv /\ RequestKeys /\ [Next]_vars => StockInv' /\ RequestKeys'
  BY StockStep, RequestKeysStep
<1>4. IInv => TypeOK
  BY DEF IInv
<1> QED BY <1>1, <1>2, <1>3, <1>4, InitIInv, NextIInv, PTL DEF Spec
=============================================================================
