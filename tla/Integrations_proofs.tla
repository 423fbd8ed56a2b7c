------------------------- MODULE Integrations_proofs ------------------------
(***************************************************************************)
(* Proofs about Webhooks, InboundWebhook, Projection and PosterSync for    *)
(* every number of events, endpoints, notices, sources, tickets, imports   *)
(* and workers. The four share no state; each has an inductive invariant   *)
(* of its own.                                                             *)
(***************************************************************************)
EXTENDS Webhooks, InboundWebhook, Projection, PosterSync, FiniteSetTheorems, TLAPS

-----------------------------------------------------------------------------
\* A worker that has taken a delivery and is not done with it.
Active(w) == sender[w].at \in {"post", "record", "health"}

\* Failures a worker has recorded on the delivery and not yet on the endpoint.
Unreported(p) == {w \in Senders : sender[w].at = "health" /\ ~sender[w].ok /\ sender[w].pair[1] = p}

\* A worker with a delivery has one of the table.
SendersValid == \A w \in Senders : Active(w) => sender[w].pair \in Pairs

\* A delivery that is not settled has an attempt left: deliverNextWebhook never takes one that has none.
AttemptsLeftToMake ==
  \A d \in Pairs :
    /\ delivery[d].status = "none" => delivery[d].attempts = 0
    /\ delivery[d].status \in {"pending", "failed", "processing"} => delivery[d].attempts < MaxDeliveries

(***************************************************************************)
(* A delivery in processing has one holder, or none and it was lost with   *)
(* its worker: the claim is exclusive though no lock outlives it.          *)
(***************************************************************************)
HoldersExact ==
  \A d \in Pairs :
    /\ \A w \in Senders : Holds(w, d) => delivery[d].status = "processing" /\ d \notin unsent
    /\ \A v, w \in Senders : Holds(v, d) /\ Holds(w, d) => v = w
    /\ delivery[d].status = "processing" /\ d \notin unsent => \E w \in Senders : Holds(w, d)
    /\ d \in unsent => delivery[d].status = "processing"

(***************************************************************************)
(* Copies the endpoint got are covered by the attempts recorded and the    *)
(* one under way; what is recorded as succeeded was received.              *)
(***************************************************************************)
ReceiptsExact ==
  /\ \A d \in Pairs :
       received[d] <= delivery[d].attempts + (IF delivery[d].status = "processing" THEN 1 ELSE 0)
  /\ \A d \in Pairs : delivery[d].status = "succeeded" => received[d] > 0
  /\ \A w \in Senders : sender[w].at = "post" => received[sender[w].pair] <= delivery[sender[w].pair].attempts
  /\ \A w \in Senders : sender[w].at = "record" /\ sender[w].ok => received[sender[w].pair] > 0

(***************************************************************************)
(* The failures counted on an endpoint, with those a worker has yet to     *)
(* count, are attempts recorded on its deliveries; only that many put it   *)
(* in error.                                                               *)
(***************************************************************************)
FailuresBacked ==
  \A p \in Endpoints :
    /\ endpoint[p].failures + Cardinality(Unreported(p)) <= Cardinality(AttemptsOn(p))
    /\ endpoint[p].status = "error" => Cardinality(AttemptsOn(p)) >= FailureLimit

SendInv == OutTypeOK /\ SendersValid /\ AttemptsLeftToMake /\ HoldersExact /\ ReceiptsExact

\* The invariant holds of the empty tables.
LEMMA SendInvInit == OutInit => SendInv
<1> SUFFICES ASSUME OutInit PROVE SendInv
  OBVIOUS
<1>1. OutTypeOK
  BY WebhooksAssumption DEF OutInit, OutTypeOK, Looping, NoDelivery, NoPair
<1>2. SendersValid /\ AttemptsLeftToMake /\ HoldersExact /\ ReceiptsExact
  BY WebhooksAssumption DEF OutInit, SendersValid, Active, AttemptsLeftToMake, HoldersExact, Holds, ReceiptsExact, Looping, NoDelivery
<1> QED BY <1>1, <1>2 DEF SendInv

(***************************************************************************)
(* Every step of a worker of deliverNextWebhook, and every step beside it, *)
(* keeps the claims exclusive and the receipts covered.                    *)
(***************************************************************************)
LEMMA SendInvStep == SendInv /\ [OutNext]_outVars => SendInv'
<1> SUFFICES ASSUME SendInv, [OutNext]_outVars PROVE SendInv'
  OBVIOUS
<1> USE WebhooksAssumption DEF SendInv
<1>1. CASE \E p \in Endpoints : CreateOutboundWebhook(p)
  BY <1>1 DEF CreateOutboundWebhook, OutTypeOK, SendersValid, Active, AttemptsLeftToMake, HoldersExact, Holds, ReceiptsExact
<1>2. CASE \E e \in Events : AppendOutbox(e)
  BY <1>2 DEF AppendOutbox, OutTypeOK, SendersValid, Active, AttemptsLeftToMake, HoldersExact, Holds, ReceiptsExact
<1>3. ASSUME NEW w \in Senders, FanoutOutbox(w) PROVE SendInv'
  BY <1>3 DEF FanoutOutbox, FannedOut, Looping, NoPair, OutTypeOK, SendersValid, Active, AttemptsLeftToMake, HoldersExact, Holds, ReceiptsExact
<1>4. ASSUME NEW w \in Senders, ClaimDelivery(w) PROVE SendInv'
  <2>1. CASE \E d \in Pairs : Deliverable(d)
    <3>1. PICK d \in Pairs :
             /\ Deliverable(d)
             /\ delivery' = [delivery EXCEPT ![d] = [status |-> "processing", attempts |-> @.attempts]]
             /\ sender' = [sender EXCEPT ![w] = [at |-> "post", pair |-> d, ok |-> FALSE]]
      BY <1>4, <2>1 DEF ClaimDelivery
    <3>2. UNCHANGED <<outbox, endpoint, received, unsent, senderFaults>> /\ sender[w].at = "deliver"
      BY <1>4 DEF ClaimDelivery
    <3>3. OutTypeOK'
      BY <3>1, <3>2 DEF OutTypeOK
    <3>4. SendersValid' /\ AttemptsLeftToMake'
      BY <3>1, <3>2 DEF OutTypeOK, SendersValid, Active, AttemptsLeftToMake, Deliverable
    <3>5. HoldersExact'
      BY <3>1, <3>2 DEF OutTypeOK, HoldersExact, Holds, Deliverable
    <3>6. ReceiptsExact'
      BY <3>1, <3>2 DEF OutTypeOK, ReceiptsExact, HoldersExact, Holds, Deliverable, SendersValid, Active
    <3> QED BY <3>3, <3>4, <3>5, <3>6
  <2>2. CASE ~ \E d \in Pairs : Deliverable(d)
    <3>1. /\ sender' = [sender EXCEPT ![w] = Looping("fanout")] /\ sender[w].at = "deliver"
          /\ UNCHANGED <<delivery, outbox, endpoint, received, unsent, senderFaults>>
      BY <1>4, <2>2 DEF ClaimDelivery
    <3> QED
      BY <3>1 DEF Looping, NoPair, OutTypeOK, SendersValid, Active, AttemptsLeftToMake, HoldersExact, Holds, ReceiptsExact
  <2> QED BY <2>1, <2>2
<1>5. ASSUME NEW w \in Senders, PostWebhook(w) PROVE SendInv'
  <2>1. PICK got \in BOOLEAN, ok \in BOOLEAN :
           /\ ok => got
           /\ received' = IF got THEN [received EXCEPT ![sender[w].pair] = @ + 1] ELSE received
           /\ sender' = [sender EXCEPT ![w] = [at |-> "record", pair |-> @.pair, ok |-> ok]]
    BY <1>5 DEF PostWebhook
  <2>2. /\ UNCHANGED <<outbox, endpoint, delivery, unsent, senderFaults>>
        /\ sender[w].at = "post" /\ sender[w].pair \in Pairs
        /\ delivery[sender[w].pair].status = "processing"
        /\ \A v \in Senders \ {w} : ~Holds(v, sender[w].pair)
    BY <1>5 DEF PostWebhook, SendersValid, Active, HoldersExact, Holds
  <2>3. OutTypeOK'
    BY <2>1, <2>2 DEF OutTypeOK
  <2>4. SendersValid' /\ AttemptsLeftToMake'
    BY <2>1, <2>2 DEF OutTypeOK, SendersValid, Active, AttemptsLeftToMake
  <2>5. HoldersExact'
    BY <2>1, <2>2 DEF OutTypeOK, HoldersExact, Holds
  <2>6. ReceiptsExact'
    BY <2>1, <2>2 DEF OutTypeOK, ReceiptsExact, Holds, SendersValid, Active
  <2> QED BY <2>3, <2>4, <2>5, <2>6
<1>6. ASSUME NEW w \in Senders, RecordDelivery(w) PROVE SendInv'
  <2>1. OutTypeOK'
    BY <1>6 DEF RecordDelivery, AfterAttempt, OutTypeOK, AttemptsLeftToMake, SendersValid, Active, HoldersExact, Holds
  <2>2. SendersValid'
    BY <1>6 DEF RecordDelivery, AfterAttempt, OutTypeOK, SendersValid, Active
  <2>3. AttemptsLeftToMake'
    BY <1>6 DEF RecordDelivery, AfterAttempt, OutTypeOK, AttemptsLeftToMake, HoldersExact, Holds, SendersValid, Active
  <2>4. HoldersExact'
    BY <1>6 DEF RecordDelivery, AfterAttempt, OutTypeOK, HoldersExact, Holds, SendersValid, Active
  <2>5. ReceiptsExact'
    BY <1>6 DEF RecordDelivery, AfterAttempt, OutTypeOK, ReceiptsExact, HoldersExact, Holds, SendersValid, Active
  <2> QED BY <2>1, <2>2, <2>3, <2>4, <2>5
<1>7. ASSUME NEW w \in Senders, RecordHealth(w) PROVE SendInv'
  BY <1>7 DEF RecordHealth, Health, Pairs, Looping, NoPair, OutTypeOK, SendersValid, Active, AttemptsLeftToMake, HoldersExact, Holds, ReceiptsExact
<1>8. ASSUME NEW w \in Senders, LoseSender(w) PROVE SendInv'
  BY <1>8 DEF LoseSender, Looping, NoPair, OutTypeOK, SendersValid, Active, AttemptsLeftToMake, HoldersExact, Holds, ReceiptsExact
<1>9. CASE UNCHANGED outVars
  BY <1>9 DEF outVars, OutTypeOK, SendersValid, Active, AttemptsLeftToMake, HoldersExact, Holds, ReceiptsExact
<1> QED BY <1>1, <1>2, <1>3, <1>4, <1>5, <1>6, <1>7, <1>8, <1>9 DEF OutNext, SenderStep


\* What FailuresBacked counts is finite.
LEMMA CountedSets ==
  /\ \A S \in SUBSET (Pairs \X (1..MaxDeliveries)) : IsFiniteSet(S) /\ Cardinality(S) \in Nat
  /\ \A S \in SUBSET Senders : IsFiniteSet(S) /\ Cardinality(S) \in Nat
<1>0. 1 \in Int /\ MaxDeliveries \in Int
  BY WebhooksAssumption
<1>1. IsFiniteSet(Pairs) /\ IsFiniteSet(1..MaxDeliveries)
  BY <1>0, WebhooksAssumption, FS_Product, FS_Interval DEF Pairs
<1>2. IsFiniteSet(Pairs \X (1..MaxDeliveries))
  BY <1>1, FS_Product
<1>3. ASSUME NEW T, IsFiniteSet(T), NEW S \in SUBSET T
      PROVE  IsFiniteSet(S) /\ Cardinality(S) \in Nat
  BY <1>3, FS_Subset, FS_CardinalityType
<1> QED BY <1>2, <1>3, WebhooksAssumption

\* No failures at first.
LEMMA FailuresInit == OutInit => FailuresBacked
<1> SUFFICES ASSUME OutInit, NEW p \in Endpoints
             PROVE  /\ endpoint[p].failures + Cardinality(Unreported(p)) <= Cardinality(AttemptsOn(p))
                    /\ endpoint[p].status # "error"
  BY DEF FailuresBacked
<1>1. Unreported(p) = {} /\ AttemptsOn(p) = {}
  <2>1. Unreported(p) = {}
    BY DEF OutInit, Unreported, Looping
  <2>2. \A x \in Pairs \X (1..MaxDeliveries) : ~(x[2] <= delivery[x[1]].attempts)
    BY WebhooksAssumption DEF OutInit, NoDelivery
  <2> QED BY <2>1, <2>2 DEF AttemptsOn
<1>2. endpoint[p].failures = 0 /\ endpoint[p].status = "absent"
  BY DEF OutInit
<1> QED BY <1>1, <1>2, FS_EmptySet

\* A step that counts no attempt and reports no failure leaves both counts alone.
\* A step that records no attempt and reports no failure leaves both counts.
LEMMA CountsKept ==
  ASSUME NEW p \in Endpoints,
         \A d \in Pairs : delivery'[d].attempts = delivery[d].attempts,
         \A w \in Senders : (sender'[w].at = "health") <=> (sender[w].at = "health"),
         \A w \in Senders : sender[w].at = "health" => sender'[w] = sender[w]
  PROVE  AttemptsOn(p)' = AttemptsOn(p) /\ Unreported(p)' = Unreported(p)
<1>1. AttemptsOn(p)' = AttemptsOn(p)
  BY DEF AttemptsOn
<1>2. Unreported(p)' = Unreported(p)
  BY DEF Unreported
<1> QED BY <1>1, <1>2

(***************************************************************************)
(* An attempt is recorded before its failure is counted                    *)
(* (failWebhookDelivery), so the count never runs ahead of the attempts.   *)
(***************************************************************************)
LEMMA FailuresStep == SendInv /\ FailuresBacked /\ [OutNext]_outVars => FailuresBacked'
<1> SUFFICES ASSUME SendInv, FailuresBacked, [OutNext]_outVars, NEW p \in Endpoints
             PROVE  /\ endpoint'[p].failures + Cardinality(Unreported(p)') <= Cardinality(AttemptsOn(p)')
                    /\ endpoint'[p].status = "error" => Cardinality(AttemptsOn(p)') >= FailureLimit
  BY DEF FailuresBacked
<1> DEFINE U == Cardinality(Unreported(p))
           A == Cardinality(AttemptsOn(p))
<1>0. /\ U \in Nat /\ A \in Nat /\ endpoint[p].failures \in Nat /\ FailureLimit \in Nat
      /\ endpoint[p].failures + U <= A
      /\ endpoint[p].status = "error" => A >= FailureLimit
  BY CountedSets, WebhooksAssumption DEF Unreported, AttemptsOn, FailuresBacked, SendInv, OutTypeOK
<1> HIDE DEF U, A
<1>1. ASSUME AttemptsOn(p)' = AttemptsOn(p), Unreported(p)' = Unreported(p),
             endpoint'[p] = endpoint[p] \/ (endpoint'[p].failures = 0 /\ endpoint'[p].status = "active")
      PROVE  /\ endpoint'[p].failures + Cardinality(Unreported(p)') <= Cardinality(AttemptsOn(p)')
             /\ endpoint'[p].status = "error" => Cardinality(AttemptsOn(p)') >= FailureLimit
  BY <1>0, <1>1 DEF U, A
<1>2. CASE \E q \in Endpoints : CreateOutboundWebhook(q)
  <2>1. /\ UNCHANGED <<delivery, sender>>
        /\ endpoint'[p] = endpoint[p] \/ (endpoint'[p].failures = 0 /\ endpoint'[p].status = "active")
    BY <1>2 DEF CreateOutboundWebhook, SendInv, OutTypeOK
  <2> QED BY <2>1, CountsKept, <1>1
<1>3. CASE \E e \in Events : AppendOutbox(e)
  BY <1>3, CountsKept, <1>1 DEF AppendOutbox
<1>4. ASSUME NEW w \in Senders, FanoutOutbox(w) \/ ClaimDelivery(w) \/ PostWebhook(w)
      PROVE  /\ endpoint'[p].failures + Cardinality(Unreported(p)') <= Cardinality(AttemptsOn(p)')
             /\ endpoint'[p].status = "error" => Cardinality(AttemptsOn(p)') >= FailureLimit
  <2>1. \A d \in Pairs : delivery'[d].attempts = delivery[d].attempts
    <3>1. CASE FanoutOutbox(w)
      BY <3>1 DEF FanoutOutbox, FannedOut, SendInv, AttemptsLeftToMake
    <3>2. CASE ClaimDelivery(w)
      BY <3>2 DEF ClaimDelivery, SendInv, OutTypeOK
    <3>3. CASE PostWebhook(w)
      BY <3>3 DEF PostWebhook
    <3> QED BY <1>4, <3>1, <3>2, <3>3
  <2>2. /\ sender[w].at # "health" /\ sender'[w].at # "health"
        /\ \A v \in Senders \ {w} : sender'[v] = sender[v]
        /\ endpoint' = endpoint
    BY <1>4 DEF FanoutOutbox, ClaimDelivery, PostWebhook, SendInv, OutTypeOK, Looping
  <2>3. /\ \A v \in Senders : (sender'[v].at = "health") <=> (sender[v].at = "health")
        /\ \A v \in Senders : sender[v].at = "health" => sender'[v] = sender[v]
    BY <2>2
  <2> QED BY <2>1, <2>2, <2>3, CountsKept, <1>1
<1>5. ASSUME NEW w \in Senders, RecordDelivery(w)
      PROVE  /\ endpoint'[p].failures + Cardinality(Unreported(p)') <= Cardinality(AttemptsOn(p)')
             /\ endpoint'[p].status = "error" => Cardinality(AttemptsOn(p)') >= FailureLimit
  <2> DEFINE d == sender[w].pair
             n == delivery[d].attempts + 1
  <2>1. /\ d \in Pairs /\ n \in 1..MaxDeliveries /\ sender[w].at = "record"
        /\ delivery'[d].attempts = n /\ \A e \in Pairs \ {d} : delivery'[e] = delivery[e]
        /\ sender'[w].at = "health" /\ sender'[w].ok = sender[w].ok /\ sender'[w].pair = d
        /\ \A v \in Senders \ {w} : sender'[v] = sender[v]
        /\ endpoint' = endpoint /\ delivery[d].attempts \in Nat
    BY <1>5, WebhooksAssumption DEF RecordDelivery, AfterAttempt, SendInv, OutTypeOK, SendersValid, Active, HoldersExact, Holds, AttemptsLeftToMake
  <2> HIDE DEF d, n
  <2>2. CASE d[1] # p
    <3>1. AttemptsOn(p)' = AttemptsOn(p) /\ Unreported(p)' = Unreported(p)
      BY <2>1, <2>2 DEF AttemptsOn, Unreported
    <3> QED BY <3>1, <2>1, <1>1
  <2>3. CASE d[1] = p
    <3>1. AttemptsOn(p)' = AttemptsOn(p) \cup {<<d, n>>} /\ <<d, n>> \notin AttemptsOn(p)
      <4>1. ASSUME NEW e \in Pairs, NEW m \in 1..MaxDeliveries
            PROVE  m <= delivery'[e].attempts <=> (m <= delivery[e].attempts \/ (e = d /\ m = n))
        <5>1. CASE e = d
          BY <5>1, <2>1, WebhooksAssumption DEF n
        <5>2. CASE e # d
          BY <5>2, <2>1
        <5> QED BY <5>1, <5>2
      <4> QED BY <4>1, <2>1, <2>3 DEF AttemptsOn, n
    <3>2. Cardinality(AttemptsOn(p)') = A + 1
      BY ZenonT(30), <3>1, FS_AddElement, CountedSets DEF A, AttemptsOn
    <3>3. Unreported(p)' = IF sender[w].ok THEN Unreported(p) ELSE Unreported(p) \cup {w}
      BY <2>1, <2>3 DEF Unreported
    <3>4. Cardinality(Unreported(p)') \in {U, U + 1}
      BY <3>3, FS_AddElement, CountedSets DEF U, Unreported
    <3> QED BY <1>0, <2>1, <3>2, <3>4
  <2> QED BY <2>2, <2>3
<1>6. ASSUME NEW w \in Senders, RecordHealth(w)
      PROVE  /\ endpoint'[p].failures + Cardinality(Unreported(p)') <= Cardinality(AttemptsOn(p)')
             /\ endpoint'[p].status = "error" => Cardinality(AttemptsOn(p)') >= FailureLimit
  <2>1. /\ sender[w].pair[1] \in Endpoints /\ sender[w].at = "health"
        /\ endpoint' = [endpoint EXCEPT ![sender[w].pair[1]] = Health(@, sender[w].ok)]
        /\ sender'[w].at = "fanout" /\ \A v \in Senders \ {w} : sender'[v] = sender[v]
        /\ delivery' = delivery
    BY <1>6 DEF RecordHealth, Looping, SendInv, OutTypeOK, SendersValid, Active, Pairs
  <2>2. Cardinality(AttemptsOn(p)') = A
    BY <2>1 DEF A, AttemptsOn
  <2>3. CASE sender[w].pair[1] = p /\ ~sender[w].ok
    <3>1. Unreported(p)' = Unreported(p) \ {w} /\ w \in Unreported(p)
      BY <2>1, <2>3 DEF Unreported
    <3>2. Cardinality(Unreported(p)') = U - 1
      BY ZenonT(30), <3>1, FS_RemoveElement, CountedSets DEF U, Unreported
    <3>4. Unreported(p)' \in SUBSET Senders
      BY DEF Unreported
    <3>5. U - 1 \in Nat
      BY <3>2, <3>4, CountedSets
    <3>3. endpoint'[p] = Health(endpoint[p], FALSE)
      BY <2>1, <2>3 DEF SendInv, OutTypeOK
    <3> QED BY <3>2, <3>3, <3>5, <2>2, <1>0 DEF Health
  <2>4. CASE ~(sender[w].pair[1] = p /\ ~sender[w].ok)
    <3>1. Unreported(p)' = Unreported(p)
      BY <2>1, <2>4 DEF Unreported
    <3>2. endpoint'[p] \in {endpoint[p], Health(endpoint[p], TRUE)}
      BY <2>1, <2>4 DEF SendInv, OutTypeOK
    <3> QED BY <3>1, <3>2, <2>2, <1>0 DEF Health, U
  <2> QED BY <2>3, <2>4
<1>7. ASSUME NEW w \in Senders, LoseSender(w)
      PROVE  /\ endpoint'[p].failures + Cardinality(Unreported(p)') <= Cardinality(AttemptsOn(p)')
             /\ endpoint'[p].status = "error" => Cardinality(AttemptsOn(p)') >= FailureLimit
  <2>1. /\ delivery' = delivery /\ endpoint' = endpoint
        /\ sender'[w].at = "fanout" /\ \A v \in Senders \ {w} : sender'[v] = sender[v]
    BY <1>7 DEF LoseSender, Looping, SendInv, OutTypeOK
  <2>2. AttemptsOn(p)' = AttemptsOn(p) /\ Unreported(p)' \subseteq Unreported(p)
    BY <2>1 DEF AttemptsOn, Unreported
  <2>3. Cardinality(Unreported(p)') <= U /\ Cardinality(Unreported(p)') \in Nat
    BY <2>2, FS_Subset, CountedSets DEF U, Unreported
  <2> QED BY <2>1, <2>2, <2>3, <1>0 DEF A
<1>8. CASE UNCHANGED outVars
  BY <1>8, CountsKept, <1>1 DEF outVars
<1> QED BY <1>2, <1>3, <1>4, <1>5, <1>6, <1>7, <1>8 DEF OutNext, SenderStep

(***************************************************************************)
(* For any number of workers, endpoints and events: a delivery in          *)
(* processing is held by exactly one worker unless its worker was lost,    *)
(* attempts cover the copies sent, and an endpoint is in error only after  *)
(* FailureLimit attempts (deliverNextWebhook).                             *)
(***************************************************************************)
THEOREM DeliveriesAccountedFor == OutSpec => []DeliveriesAccounted
<1>1. SendInv /\ FailuresBacked => DeliveriesAccounted
  <2> SUFFICES ASSUME SendInv, FailuresBacked PROVE DeliveriesAccounted
    OBVIOUS
  <2>1. AbandonedOnlyByLoss
    <3> SUFFICES ASSUME NEW d \in Pairs, delivery[d].status = "processing"
                 PROVE  IF d \in unsent THEN ~ \E w \in Senders : Holds(w, d)
                        ELSE Cardinality({w \in Senders : Holds(w, d)}) = 1
      BY DEF AbandonedOnlyByLoss
    <3>1. CASE d \in unsent
      BY <3>1 DEF SendInv, HoldersExact
    <3>2. CASE d \notin unsent
      <4>1. PICK w \in Senders : Holds(w, d)
        BY <3>2 DEF SendInv, HoldersExact
      <4>2. {v \in Senders : Holds(v, d)} = {w}
        BY <4>1 DEF SendInv, HoldersExact
      <4> QED BY <4>2, <3>2, FS_Singleton
    <3> QED BY <3>1, <3>2
  <2>2. LogCoversReceipts
    BY DEF SendInv, ReceiptsExact, LogCoversReceipts
  <2>3. ErrorOnlyAfterFailures
    BY DEF FailuresBacked, ErrorOnlyAfterFailures
  <2> QED BY <2>1, <2>2, <2>3 DEF DeliveriesAccounted, SendInv
<1> QED BY <1>1, SendInvInit, SendInvStep, FailuresInit, FailuresStep, PTL DEF OutSpec

(***************************************************************************)
(* How a row of webhook_deliveries is seen by the abstract queue.          *)
(***************************************************************************)
QueuedRow(r) ==
  [st |-> CASE r.status = "none" -> "absent"
            [] r.status \in {"pending", "failed"} -> "waiting"
            [] r.status = "processing" -> "taken"
            [] r.status = "succeeded" -> "finished"
            [] r.status = "dead" -> "dead",
   tries |-> r.attempts]

\* The refinement mapping of Webhooks, row by row, now and after a step.
LEMMA QueuedDeliveryRows ==
  /\ QueuedDelivery = [d \in Pairs |-> QueuedRow(delivery[d])]
  /\ QueuedDelivery' = [d \in Pairs |-> QueuedRow(delivery'[d])]
BY DEF QueuedDelivery, QueuedRow

\* A step that rewrites one delivery rewrites one item.
LEMMA OneItemMoves ==
  ASSUME NEW d \in Pairs, NEW row, OutTypeOK,
         delivery' = [delivery EXCEPT ![d] = row]
  PROVE  QueuedDelivery' = [QueuedDelivery EXCEPT ![d] = QueuedRow(row)]
BY QueuedDeliveryRows DEF OutTypeOK

(***************************************************************************)
(* The table of deliveries implements the work queue: an item is put once, *)
(* taken by one worker, and finished, given back or buried after its last  *)
(* try; the other steps of the workers leave the queue as it is            *)
(* (fanoutOutbox, deliverNextWebhook).                                     *)
(***************************************************************************)
THEOREM DeliveriesImplementQueue == OutSpec => DeliveriesAreAQueue
<1>1. OutInit => DeliveryQueue!QueueInit
  <2> SUFFICES ASSUME OutInit PROVE DeliveryQueue!QueueInit
    OBVIOUS
  <2>1. QueuedDelivery = [d \in Pairs |-> [st |-> "absent", tries |-> 0]]
    BY QueuedDeliveryRows DEF OutInit, NoDelivery, QueuedRow
  <2>2. 0 \in 0..MaxDeliveries
    BY WebhooksAssumption
  <2> QED BY <2>1, <2>2 DEF DeliveryQueue!QueueInit
<1>2. SendInv /\ [OutNext]_outVars => [DeliveryQueue!QueueNext]_QueuedDelivery
  <2> SUFFICES ASSUME SendInv, [OutNext]_outVars
               PROVE  DeliveryQueue!QueueNext \/ QueuedDelivery' = QueuedDelivery
    OBVIOUS
  <2>1. ASSUME delivery' = delivery PROVE QueuedDelivery' = QueuedDelivery
    BY <2>1, QueuedDeliveryRows
  <2>2. OutTypeOK
    BY DEF SendInv
  <2>3. ASSUME NEW w \in Senders, FanoutOutbox(w)
        PROVE  DeliveryQueue!QueueNext \/ QueuedDelivery' = QueuedDelivery
    <3> DEFINE S == {d \in Pairs : FannedOut(d)}
    <3>1. CASE S = {}
      <4>1. \A d \in Pairs : delivery'[d] = delivery[d]
        BY <2>3, <3>1 DEF FanoutOutbox
      <4> QED BY <4>1, QueuedDeliveryRows
    <3>2. CASE S # {}
      <4>1. \A d \in S : QueuedDelivery[d].st = "absent"
        BY QueuedDeliveryRows DEF FannedOut, QueuedRow
      <4>2. QueuedDelivery' = [d \in Pairs |-> IF d \in S THEN [st |-> "waiting", tries |-> 0] ELSE QueuedDelivery[d]]
        <5>1. ASSUME NEW d \in Pairs
              PROVE  QueuedRow(delivery'[d]) = IF d \in S THEN [st |-> "waiting", tries |-> 0] ELSE QueuedRow(delivery[d])
          BY <2>3 DEF FanoutOutbox, QueuedRow
        <5> QED BY <5>1, QueuedDeliveryRows
      <4>3. DeliveryQueue!Put(S)
        BY <3>2, <4>1, <4>2 DEF DeliveryQueue!Put
      <4> QED BY <4>3 DEF DeliveryQueue!QueueNext
    <3> QED BY <3>1, <3>2
  <2>4. ASSUME NEW w \in Senders, ClaimDelivery(w)
        PROVE  DeliveryQueue!QueueNext \/ QueuedDelivery' = QueuedDelivery
    <3>1. CASE \E d \in Pairs : Deliverable(d)
      <4>1. PICK d \in Pairs :
               /\ Deliverable(d)
               /\ delivery' = [delivery EXCEPT ![d] = [status |-> "processing", attempts |-> @.attempts]]
        BY <2>4, <3>1 DEF ClaimDelivery
      <4>2. QueuedDelivery[d] = [st |-> "waiting", tries |-> delivery[d].attempts]
        BY <4>1, QueuedDeliveryRows DEF Deliverable, QueuedRow
      <4>3. QueuedDelivery' = [QueuedDelivery EXCEPT ![d] = [st |-> "taken", tries |-> delivery[d].attempts]]
        BY <4>1, <2>2, OneItemMoves DEF QueuedRow
      <4>4. DeliveryQueue!Take(d)
        BY <4>2, <4>3 DEF DeliveryQueue!Take, DeliveryQueue!Step
      <4> QED BY <4>4 DEF DeliveryQueue!QueueNext
    <3>2. CASE ~ \E d \in Pairs : Deliverable(d)
      BY <2>4, <3>2, <2>1 DEF ClaimDelivery
    <3> QED BY <3>1, <3>2
  <2>5. ASSUME NEW w \in Senders, RecordDelivery(w)
        PROVE  DeliveryQueue!QueueNext \/ QueuedDelivery' = QueuedDelivery
    <3> DEFINE d == sender[w].pair
               row == AfterAttempt(delivery[d], sender[w].ok)
               n == delivery[d].attempts
    <3>1. /\ d \in Pairs /\ delivery[d].status = "processing"
          /\ n \in Nat /\ n < MaxDeliveries
          /\ delivery' = [delivery EXCEPT ![d] = row]
      BY <2>5, WebhooksAssumption
      DEF RecordDelivery, SendInv, OutTypeOK, SendersValid, Active, HoldersExact, Holds, AttemptsLeftToMake
    <3>2. QueuedDelivery[d] = [st |-> "taken", tries |-> n]
      BY <3>1, QueuedDeliveryRows DEF QueuedRow
    <3>3. QueuedDelivery' = [QueuedDelivery EXCEPT ![d] = QueuedRow(row)]
      BY <3>1, <2>2, OneItemMoves
    <3>4. CASE sender[w].ok
      <4>1. QueuedRow(row) = [st |-> "finished", tries |-> n + 1]
        BY <3>4 DEF QueuedRow, AfterAttempt
      <4>2. DeliveryQueue!Finish(d)
        BY <3>2, <3>3, <4>1 DEF DeliveryQueue!Finish, DeliveryQueue!Step
      <4> QED BY <3>1, <4>2 DEF DeliveryQueue!QueueNext
    <3>5. CASE ~sender[w].ok /\ n + 1 < MaxDeliveries
      <4>1. QueuedRow(row) = [st |-> "waiting", tries |-> n + 1]
        BY <3>1, <3>5, WebhooksAssumption DEF QueuedRow, AfterAttempt
      <4>2. DeliveryQueue!GiveBack(d)
        BY <3>2, <3>3, <3>5, <4>1 DEF DeliveryQueue!GiveBack, DeliveryQueue!Step
      <4> QED BY <3>1, <4>2 DEF DeliveryQueue!QueueNext
    <3>6. CASE ~sender[w].ok /\ n + 1 = MaxDeliveries
      <4>1. QueuedRow(row) = [st |-> "dead", tries |-> n + 1]
        BY <3>1, <3>6, WebhooksAssumption DEF QueuedRow, AfterAttempt
      <4>2. DeliveryQueue!Bury(d)
        BY <3>2, <3>3, <3>6, <4>1 DEF DeliveryQueue!Bury, DeliveryQueue!Step
      <4> QED BY <3>1, <4>2 DEF DeliveryQueue!QueueNext
    <3>7. n + 1 < MaxDeliveries \/ n + 1 = MaxDeliveries
      BY <3>1, WebhooksAssumption
    <3> QED BY <3>4, <3>5, <3>6, <3>7
  <2>6. CASE \E p \in Endpoints : CreateOutboundWebhook(p)
    BY <2>6, <2>1 DEF CreateOutboundWebhook
  <2>7. CASE \E e \in Events : AppendOutbox(e)
    BY <2>7, <2>1 DEF AppendOutbox
  <2>8. CASE \E w \in Senders : PostWebhook(w) \/ RecordHealth(w) \/ LoseSender(w)
    BY <2>8, <2>1 DEF PostWebhook, RecordHealth, LoseSender
  <2>9. CASE UNCHANGED outVars
    BY <2>9, <2>1 DEF outVars
  <2> QED BY <2>3, <2>4, <2>5, <2>6, <2>7, <2>8, <2>9 DEF OutNext, SenderStep
<1> QED BY <1>1, <1>2, SendInvInit, SendInvStep, PTL DEF OutSpec, DeliveriesAreAQueue, DeliveryQueue!QueueSpec

-----------------------------------------------------------------------------
\* The types of the tables and requests of InboundWebhook.
InTypeOK ==
  /\ journal \in [Notices -> {"none", "processing", "succeeded", "failed"}]
  /\ stored \subseteq Notices /\ acked \subseteq Notices
  /\ post \in [Posts -> [at : {"free", "ingest", "record"}, notice : Notices \cup {NoNotice}, ok : BOOLEAN]]

\* A request between the insert of its delivery and the write of its result.
Occupied(s) == post[s].at # "free"

\* A request at work is alone with its notice, which says so.
NoticesHeld ==
  /\ \A s \in Posts : Occupied(s) => post[s].notice \in Notices /\ journal[post[s].notice] = "processing"
  /\ \A s, t \in Posts : Occupied(s) /\ Occupied(t) /\ post[s].notice = post[t].notice => s = t
  /\ \A n \in Notices : journal[n] = "processing" => n \in cut \/ \E s \in Posts : Occupied(s) /\ post[s].notice = n

\* What the journal and the answers say of a notice is so.
NoticesTrue ==
  /\ \A s \in Posts : post[s].at = "record" /\ post[s].ok => post[s].notice \in stored
  /\ \A n \in Notices : journal[n] = "succeeded" => n \in stored
  /\ \A n \in acked : journal[n] # "none"

InInv == InTypeOK /\ NoticesHeld /\ NoticesTrue

\* Nothing is announced at first.
LEMMA InInvInit == InInit => InInv
BY DEF InInit, InInv, InTypeOK, NoticesHeld, NoticesTrue, Occupied, Free, NoNotice

(***************************************************************************)
(* Only the request that inserted the delivery of a notice works on it (ON *)
(* CONFLICT DO NOTHING), so the result it writes is its own.               *)
(***************************************************************************)
LEMMA InInvStep == InInv /\ [InNext]_inVars => InInv'
<1> SUFFICES ASSUME InInv, [InNext]_inVars PROVE InInv'
  OBVIOUS
<1> USE DEF InInv, InTypeOK
<1>1. ASSUME NEW s \in Posts, NEW n \in Notices, RegisterNotice(s, n) PROVE InInv'
  <2>1. CASE journal[n] = "none"
    <3>0. /\ journal' = [journal EXCEPT ![n] = "processing"]
          /\ post' = [post EXCEPT ![s] = [at |-> "ingest", notice |-> n, ok |-> FALSE]]
          /\ post[s].at = "free" /\ UNCHANGED <<stored, cut, acked>>
      BY <1>1, <2>1 DEF RegisterNotice
    <3>1. InTypeOK' /\ NoticesHeld'
      <4>1. InTypeOK'
        BY <3>0
      <4>2. \A m \in Notices \ {n} : journal'[m] = journal[m]
        BY <3>0
      <4>3. Occupied(s)' /\ post'[s].notice = n /\ \A t \in Posts \ {s} : post'[t] = post[t]
        BY <3>0 DEF Occupied
      <4>4. \A t \in Posts \ {s} : Occupied(t) => post[t].notice # n
        BY <2>1 DEF NoticesHeld
      <4>5. ~Occupied(s) /\ journal'[n] = "processing"
        BY <3>0 DEF Occupied
      <4> QED BY <3>0, <4>1, <4>2, <4>3, <4>4, <4>5 DEF NoticesHeld, Occupied
    <3>2. NoticesTrue'
      BY <1>1, <2>1 DEF RegisterNotice, NoticesTrue
    <3> QED BY <3>1, <3>2
  <2>2. CASE journal[n] # "none"
    BY <1>1, <2>2 DEF RegisterNotice, NoticesHeld, NoticesTrue, Occupied
  <2> QED BY <2>1, <2>2
<1>2. ASSUME NEW s \in Posts, IngestNotice(s) PROVE InInv'
  <2>1. PICK ok \in BOOLEAN :
           /\ stored' = IF ok THEN stored \cup {post[s].notice} ELSE stored
           /\ post' = [post EXCEPT ![s] = [at |-> "record", notice |-> @.notice, ok |-> ok]]
    BY <1>2 DEF IngestNotice
  <2>2. post[s].at = "ingest" /\ UNCHANGED <<journal, acked, cut>>
    BY <1>2 DEF IngestNotice
  <2>3. InTypeOK' /\ NoticesHeld'
    BY <2>1, <2>2 DEF NoticesHeld, Occupied
  <2>4. NoticesTrue'
    BY <2>1, <2>2 DEF NoticesTrue
  <2> QED BY <2>3, <2>4
<1>3. ASSUME NEW s \in Posts, RecordNotice(s) PROVE InInv'
  <2>1. InTypeOK'
    BY <1>3 DEF RecordNotice, NoticesHeld, Occupied, Free, NoNotice
  <2>2. NoticesHeld'
    BY <1>3 DEF RecordNotice, NoticesHeld, Occupied, Free, NoNotice
  <2>3. NoticesTrue'
    BY <1>3 DEF RecordNotice, NoticesHeld, NoticesTrue, Occupied, Free, NoNotice
  <2> QED BY <2>1, <2>2, <2>3
<1>4. ASSUME NEW s \in Posts, CutOff(s) PROVE InInv'
  BY <1>4 DEF CutOff, NoticesHeld, NoticesTrue, Occupied, Free, NoNotice
<1>5. CASE UNCHANGED inVars
  BY <1>5 DEF inVars, NoticesHeld, NoticesTrue, Occupied
<1> QED BY <1>1, <1>2, <1>3, <1>4, <1>5 DEF InNext

(***************************************************************************)
(* For any number of notices and requests: an accepted receipt that is not *)
(* stored shows as failed, or as processing with a request on it or cut    *)
(* off on it, and no delivery marked succeeded lacks its receipt           *)
(* (integrationInboundWebhook).                                            *)
(***************************************************************************)
THEOREM AcceptedNoticesFound == InSpec => []AcceptedOrVisible
<1>1. InInv => AcceptedOrVisible
  <2> SUFFICES ASSUME InInv, NEW n \in Notices, n \notin stored
               PROVE  /\ journal[n] # "succeeded"
                      /\ n \in acked => \/ journal[n] = "failed"
                                        \/ (/\ journal[n] = "processing"
                                            /\ (n \in cut \/ \E s \in Posts : post[s].notice = n))
    BY DEF AcceptedOrVisible
  <2>1. journal[n] \in {"none", "processing", "failed"}
    BY DEF InInv, InTypeOK, NoticesTrue
  <2>2. n \in acked => journal[n] # "none"
    BY DEF InInv, NoticesTrue
  <2>3. journal[n] = "processing" => n \in cut \/ \E s \in Posts : post[s].notice = n
    BY DEF InInv, NoticesHeld
  <2> QED BY <2>1, <2>2, <2>3
<1> QED BY <1>1, InInvInit, InInvStep, PTL DEF InSpec

-----------------------------------------------------------------------------
\* The types of the tables and workers of Projection.
TaskType == [status : {"none", "pending", "processing", "failed", "succeeded", "dead"}, attempts : Nat]

ProjTypeOK ==
  /\ committed \subseteq Sources
  /\ task \in [Sources -> TaskType]
  /\ analyst \in [Analysts -> [at : {"idle", "lock", "read", "commit", "done", "failed"},
                               source : Sources \cup {NoSource}, read : SUBSET Sources]]

\* A rebuild between taking the company's lock and the end of its transaction.
Rebuilding(w) == analyst[w].at \in {"read", "commit"}

\* The advisory lock: who rebuilds holds it, and nobody else does.
LockExact ==
  \A w \in Analysts : Rebuilding(w) => lock = w

(***************************************************************************)
(* What the projection holds is committed, what a rebuild has read         *)
(* contains the projection it will replace, and a job is at work on a      *)
(* source that was committed before.                                       *)
(***************************************************************************)
ReadsCurrent ==
  /\ facts \subseteq committed
  /\ \A w \in Analysts :
       /\ analyst[w].at = "commit" => facts \subseteq analyst[w].read /\ analyst[w].read \subseteq committed
       /\ analyst[w].at = "commit" /\ analyst[w].source # NoSource => analyst[w].source \in analyst[w].read
       /\ analyst[w].source # NoSource => analyst[w].source \in committed
       /\ analyst[w].at = "done" => analyst[w].source \in facts
       /\ analyst[w].at = "failed" => analyst[w].source # NoSource
  /\ \A f \in Sources : task[f].status # "none" => f \in committed

ProjInv == ProjTypeOK /\ LockExact /\ ReadsCurrent /\ SucceededTaskProjected

\* Nothing is committed at first.
LEMMA ProjInvInit == ProjInit => ProjInv
BY DEF ProjInit, ProjInv, ProjTypeOK, TaskType, LockExact, Rebuilding, ReadsCurrent, SucceededTaskProjected, Waiting, NoSource

(***************************************************************************)
(* No step takes a source out of the projection: a rebuild that commits    *)
(* read under the lock, after every rebuild committed before it.           *)
(***************************************************************************)
LEMMA ProjInvStep == ProjInv /\ [ProjNext]_projVars => ProjInv' /\ facts \subseteq facts'
<1> SUFFICES ASSUME ProjInv, [ProjNext]_projVars PROVE ProjInv' /\ facts \subseteq facts'
  OBVIOUS
<1> USE ProjectionAssumption, NullsAssumption DEF ProjInv, ProjTypeOK, TaskType, LockExact, Rebuilding, ReadsCurrent, SucceededTaskProjected
<1>1. ASSUME NEW f \in Sources, CommitSource(f) PROVE ProjInv' /\ facts \subseteq facts'
  BY <1>1 DEF CommitSource
<1>2. ASSUME NEW w \in Analysts, ClaimTask(w) PROVE ProjInv' /\ facts \subseteq facts'
  BY <1>2 DEF ClaimTask
<1>3. ASSUME NEW w \in Analysts, RefreshWithoutJob(w) PROVE ProjInv' /\ facts \subseteq facts'
  BY <1>3 DEF RefreshWithoutJob
<1>4. ASSUME NEW w \in Analysts, LockCompany(w) PROVE ProjInv' /\ facts \subseteq facts'
  BY <1>4 DEF LockCompany
<1>5. ASSUME NEW w \in Analysts, ReadSources(w) PROVE ProjInv' /\ facts \subseteq facts'
  BY <1>5 DEF ReadSources
<1>6. ASSUME NEW w \in Analysts, CommitFacts(w) PROVE ProjInv' /\ facts \subseteq facts'
  BY <1>6 DEF CommitFacts, Release, AfterRefresh, Waiting
<1>7. ASSUME NEW w \in Analysts, RollbackFacts(w) PROVE ProjInv' /\ facts \subseteq facts'
  BY <1>7 DEF RollbackFacts, Release, AfterRefresh, Waiting
<1>8. ASSUME NEW w \in Analysts, EndTask(w) PROVE ProjInv' /\ facts \subseteq facts'
  BY <1>8 DEF EndTask, TaskResult, Waiting
<1>9. ASSUME NEW w \in Analysts, LoseAnalyst(w) PROVE ProjInv' /\ facts \subseteq facts'
  BY <1>9 DEF LoseAnalyst, Release, Waiting
<1>10. CASE UNCHANGED projVars
  BY <1>10 DEF projVars
<1> QED BY <1>1, <1>2, <1>3, <1>4, <1>5, <1>6, <1>7, <1>8, <1>9, <1>10 DEF ProjNext, AnalystStep

(***************************************************************************)
(* For any number of sources and workers: a task marked succeeded has its  *)
(* source in the projection, and the projection never loses a source,      *)
(* whichever rebuilds overlap or fail (the advisory lock of the rebuild).  *)
(***************************************************************************)
THEOREM ProjectionIsCurrent == ProjSpec => ProjectionCurrent
<1>1. ProjInv => SucceededTaskProjected
  BY DEF ProjInv
<1>2. ProjInv /\ [ProjNext]_projVars => [facts \subseteq facts']_projVars
  BY ProjInvStep
<1> QED BY <1>1, <1>2, ProjInvInit, ProjInvStep, PTL DEF ProjSpec, ProjectionCurrent, ProjectionNeverGoesBack

-----------------------------------------------------------------------------
\* What a worker holds of its job between statements.
RunnerRec ==
  [at : {"top", "fetch", "ingest", "recover", "refund", "mark", "import", "finish", "health", "fail", "secret", "journal"},
   job : Jobs \cup {NoJob}, remaining : 0..Net, batch : SUBSET (Tickets \X {"completed", "cancelled"}), failed : BOOLEAN]
\* A row of integration_jobs.
JobRec == [status : Statuses, attempts : 0..MaxJobAttempts]
\* A row of sales_transactions, with the keys it was refunded under.
SaleRec == [status : {"none", "completed", "cancelled", "refunded"}, refunded : 0..Net, under : SUBSET {"close", "return", "staff"}]

\* A worker is where its kind of job takes it.
RunnersTyped ==
  /\ runner \in [Runners -> RunnerRec]
  /\ \A w \in Runners :
       /\ runner[w].at # "top" => runner[w].job \in Jobs
       /\ runner[w].at \in {"ingest", "recover", "refund", "mark"} => runner[w].job \in WebhookJobs
       /\ runner[w].at = "import" => runner[w].job \in ImportJobs

\* A job has an attempt left while it may be claimed, and none is queued before its delivery is stored.
JobsTrue ==
  /\ \A j \in Jobs :
       /\ job[j].status \in {"none", "pending", "failed"} => job[j].attempts < MaxJobAttempts
       /\ job[j].status = "none" => job[j].attempts = 0
       /\ job[j].status = "processing" => job[j].attempts >= 1
  /\ \A j \in WebhookJobs : inbound[j] = "none" => job[j].status = "none"

\* The worker has claimed the job and not ended it.
WorksOn(w, j) == Working(w) /\ runner[w].job = j

\* A claimed job has one worker, or lost it; no two workers have one job.
JobsHeld ==
  /\ \A w \in Runners : Working(w) => job[runner[w].job].status = "processing" /\ runner[w].job \notin orphaned
  /\ \A v, w \in Runners : Working(v) /\ Working(w) /\ runner[v].job = runner[w].job => v = w
  /\ \A j \in orphaned : job[j].status = "processing"
  /\ \A j \in Jobs : job[j].status = "processing" => j \in orphaned \/ \E w \in Runners : WorksOn(w, j)

\* The sale shows the event.
Applied(j) == sale[j[1]].status # "none" /\ (j[2] = "return" => sale[j[1]].refunded = Net)

\* The refund of an event is of all that is left, so its key stands for a receipt refunded in full.
SalesTrue ==
  \A x \in Tickets : "close" \in sale[x].under \/ "return" \in sale[x].under => sale[x].refunded = Net

\* A worker past the sale's statements has applied its event; one about to refund asks for all that is left.
EventsTrue ==
  /\ SucceededEventApplied
  /\ \A w \in Runners :
       /\ runner[w].at \in {"mark", "finish"} /\ runner[w].job \in WebhookJobs => Applied(runner[w].job)
       /\ runner[w].at = "ingest" => runner[w].job[2] # "return"
       /\ runner[w].at = "refund" =>
            /\ sale[runner[w].job[1]].status # "none"
            /\ runner[w].remaining + sale[runner[w].job[1]].refunded >= Net

\* The inductive invariant of PosterSync.
PosterInv == PosterTypeOK /\ RunnersTyped /\ JobsTrue /\ JobsHeld /\ SalesTrue /\ EventsTrue

-----------------------------------------------------------------------------
\* The three kinds of job are apart.
LEMMA JobKinds ==
  /\ WebhookJobs \subseteq Jobs /\ ImportJobs \subseteq Jobs /\ NoJob \notin Jobs
  /\ WebhookJobs \cap ImportJobs = {}
  /\ \A j \in WebhookJobs : j[1] \in Tickets /\ j[2] \in {"close", "return"}
  /\ \A i \in Imports : <<"manual", i>> \in ImportJobs
BY PosterAssumption DEF WebhookJobs, ImportJobs, DailyJobs, Jobs, NoJob

\* Every day of the calendar has its daily job.
LEMMA DaysPass == ASSUME NEW t \in 0..MaxTick PROVE <<"daily", Day(t)>> \in Jobs
<1>1. /\ MaxTick \in Nat /\ DayLength \in Nat \ {0} /\ t \in Nat /\ t <= MaxTick
  BY PosterAssumption
<1>2. t \div DayLength \in 0..(MaxTick \div DayLength)
  BY <1>1
<1> QED BY <1>2 DEF Day, DailyJobs, ImportJobs, Jobs

\* There are no jobs and no sales.
LEMMA PosterInvInit == PosterInit => PosterInv
<1> SUFFICES ASSUME PosterInit PROVE PosterInv
  OBVIOUS
<1> USE PosterAssumption DEF PosterInit
<1>1. PosterTypeOK
  BY DEF PosterTypeOK, Statuses, NoRow, JobRow, NotStored, Sold, AtTop, Serving
<1>2. RunnersTyped
  BY DEF RunnersTyped, RunnerRec, AtTop, Serving
<1>3. JobsTrue /\ JobsHeld
  BY JobKinds DEF JobsTrue, JobsHeld, NoRow, JobRow, Working, AtTop, Serving, WorksOn
<1>4. SalesTrue /\ EventsTrue
  BY JobKinds DEF SalesTrue, EventsTrue, SucceededEventApplied, NotStored, Sold, NoRow, JobRow, AtTop, Serving
<1> QED BY <1>1, <1>2, <1>3, <1>4 DEF PosterInv

-----------------------------------------------------------------------------
\* Every sale is a row.
SalesTyped == sale \in [Tickets -> SaleRec]
(***************************************************************************)
(* What a step may do to sales: none disappears, a cancelled or refunded   *)
(* one keeps its status, and refunds only grow.                            *)
(***************************************************************************)
SalesGrow ==
  \A x \in Tickets :
    /\ sale[x].status # "none" => sale'[x].status # "none"
    /\ sale[x].status \in {"cancelled", "refunded"} => sale'[x].status = sale[x].status
    /\ sale'[x].refunded >= sale[x].refunded

\* IngestTransaction lets sales grow and refunds nothing.
LEMMA IngestGrows ==
  ASSUME SalesTyped, SalesTrue, NEW x \in Tickets, NEW status \in {"completed", "cancelled"}, sale' = Ingest(x, status)
  PROVE  /\ SalesTyped' /\ SalesTrue' /\ SalesGrow
         /\ sale'[x].status # "none" /\ sale'[x].refunded = sale[x].refunded
<1> USE DEF SalesTyped, SaleRec
<1>1. CASE sale[x].status = "none"
  <2>1. PICK r : r = Sold(status, sale[x].refunded, sale[x].under)
    OBVIOUS
  <2>2. r \in SaleRec /\ r.status = status /\ r.refunded = sale[x].refunded /\ r.under = sale[x].under
    BY <2>1 DEF Sold
  <2>3. sale' = [sale EXCEPT ![x] = r]
    BY <1>1, <2>1 DEF Ingest
  <2>4. sale'[x] = r /\ \A y \in Tickets \ {x} : sale'[y] = sale[y]
    BY <2>3
  <2>5. SalesTyped'
    BY <2>2, <2>3
  <2>6. SalesTrue'
    BY <2>2, <2>4 DEF SalesTrue
  <2>7. SalesGrow
    BY <1>1, <2>2, <2>4, PosterAssumption DEF SalesGrow
  <2> QED BY <2>2, <2>4, <2>5, <2>6, <2>7
<1>2. CASE sale[x].status # "none"
  BY <1>2, PosterAssumption DEF Ingest, SalesTrue, SalesGrow
<1> QED BY <1>1, <1>2

\* Refund lets sales grow; with a key of the worker it leaves the receipt refunded in full.
LEMMA RefundGrows ==
  ASSUME SalesTyped, SalesTrue, NEW x \in Tickets, NEW key \in {"close", "return", "staff"}, NEW amount \in 0..Net,
         RefundAccepted(x, key, amount), sale' = Refund(x, key, amount),
         key # "staff" => amount + sale[x].refunded >= Net
  PROVE  /\ SalesTyped' /\ SalesTrue' /\ SalesGrow
         /\ key # "staff" => sale'[x].refunded = Net
<1> USE DEF SalesTyped, SaleRec
<1>1. CASE key \in sale[x].under
  BY <1>1, PosterAssumption DEF Refund, SalesTrue, SalesGrow
<1>2. CASE key \notin sale[x].under
  <2> DEFINE n == sale[x].refunded + amount
             u == sale[x].under \cup {key}
  <2>1. PICK r : r = Sold(IF n >= Net THEN "refunded" ELSE sale[x].status, n, u)
    OBVIOUS
  <2>2. /\ sale[x].status = "completed" /\ n \in 0..Net /\ n >= sale[x].refunded
        /\ key # "staff" => n = Net
        /\ Net \in Nat
    BY <1>2, PosterAssumption DEF RefundAccepted
  <2>3. u \in SUBSET {"close", "return", "staff"}
    OBVIOUS
  <2>4. r.status = (IF n >= Net THEN "refunded" ELSE sale[x].status) /\ r.refunded = n /\ r.under = u
    BY <2>1 DEF Sold
  <2>5. sale' = [sale EXCEPT ![x] = r]
    BY <1>2, <2>1 DEF Refund
  <2> HIDE DEF n, u
  <2>6. r \in SaleRec
    BY <2>1, <2>2, <2>3 DEF Sold
  <2>7. sale'[x] = r /\ \A y \in Tickets \ {x} : sale'[y] = sale[y]
    BY <2>5
  <2>8. SalesTyped'
    BY <2>5, <2>6
  <2>9. "close" \in u \/ "return" \in u => n = Net
    <3>1. sale[x].refunded = Net => n = Net
      BY <2>2
    <3>2. key = "staff" => (("close" \in u \/ "return" \in u) => ("close" \in sale[x].under \/ "return" \in sale[x].under))
      BY DEF u
    <3> QED BY <2>2, <3>1, <3>2 DEF SalesTrue
  <2>10. SalesTrue'
    BY <2>4, <2>7, <2>9 DEF SalesTrue
  <2>11. SalesGrow
    <3>1. \A y \in Tickets : sale[y].refunded >= sale[y].refunded
      BY PosterAssumption
    <3> QED BY <2>2, <2>4, <2>7, <3>1 DEF SalesGrow
  <2> QED BY <2>2, <2>4, <2>7, <2>8, <2>10, <2>11
<1> QED BY <1>1, <1>2

\* Sales that stay the same grow.
LEMMA SalesStay == ASSUME SalesTyped, sale' = sale PROVE SalesGrow
BY PosterAssumption DEF SalesGrow, SalesTyped, SaleRec

\* A step that leaves the sales alone.
LEMMA NoSale == ASSUME PosterInv, UNCHANGED sale PROVE SalesGrow
BY SalesStay DEF PosterInv, PosterTypeOK, SalesTyped, SaleRec

\* What was applied stays so as sales grow.
LEMMA AppliedStays ==
  ASSUME SalesTyped, SalesTyped', SalesGrow, NEW j, j[1] \in Tickets, Applied(j) PROVE Applied(j)'
BY PosterAssumption DEF Applied, SalesGrow, SalesTyped, SaleRec

-----------------------------------------------------------------------------
\* What only time, requests and an operator change.
Elsewhere == <<tick, pos, queuedAt, revivals, runnerFaults>>

\* One worker's step leaves the others where they are.
LEMMA OneRunner ==
  ASSUME NEW w \in Runners, NEW next, RunnersTyped, runner' = [runner EXCEPT ![w] = next]
  PROVE  runner'[w] = next /\ \A v \in Runners \ {w} : runner'[v] = runner[v]
BY DEF RunnersTyped

\* As sales grow, what the other workers know of them stays true.
LEMMA EventsStay ==
  ASSUME PosterInv, SalesTyped', SalesTrue', SalesGrow, UNCHANGED <<job, inbound, runner>>
  PROVE  EventsTrue'
<1>1. SalesTyped
  BY DEF PosterInv, PosterTypeOK, SalesTyped, SaleRec
<1>2. \A j \in WebhookJobs : Applied(j) => Applied(j)'
  BY <1>1, AppliedStays, JobKinds
<1>3. SucceededEventApplied'
  BY <1>2 DEF PosterInv, EventsTrue, SucceededEventApplied, Applied
<1>4. ASSUME NEW w \in Runners, runner[w].at = "refund"
      PROVE  sale'[runner[w].job[1]].status # "none" /\ runner[w].remaining + sale'[runner[w].job[1]].refunded >= Net
  <2>1. PICK x \in Tickets : x = runner[w].job[1]
    BY <1>4, JobKinds DEF PosterInv, RunnersTyped
  <2>2. /\ sale[x].status # "none" /\ runner[w].remaining + sale[x].refunded >= Net
        /\ runner[w].remaining \in Nat /\ sale[x].refunded \in Nat /\ sale'[x].refunded \in Nat /\ Net \in Nat
    BY <1>1, <1>4, <2>1, PosterAssumption DEF PosterInv, EventsTrue, RunnersTyped, RunnerRec, SalesTyped, SaleRec
  <2>3. sale'[x].status # "none" /\ sale'[x].refunded >= sale[x].refunded
    BY <2>2 DEF SalesGrow
  <2> QED BY <2>1, <2>2, <2>3
<1> QED BY <1>2, <1>3, <1>4 DEF PosterInv, EventsTrue

\* A worker goes on with its job, having changed the sales or marked the delivery at most.
LEMMA RunnerGoesOn ==
  ASSUME PosterInv, NEW w \in Runners, NEW next \in RunnerRec, Working(w),
         runner' = [runner EXCEPT ![w] = next], next.job = runner[w].job,
         next.at \notin {"top", "health", "journal"},
         next.at \in {"ingest", "recover", "refund", "mark"} => next.job \in WebhookJobs,
         next.at = "import" => next.job \in ImportJobs,
         next.at = "ingest" => next.job[2] # "return",
         next.at \in {"mark", "finish"} /\ next.job \in WebhookJobs => Applied(next.job)',
         next.at = "refund" => /\ sale'[next.job[1]].status # "none"
                               /\ next.remaining + sale'[next.job[1]].refunded >= Net,
         SalesTyped', SalesTrue', SalesGrow,
         UNCHANGED <<job, link, orphaned>>, UNCHANGED Elsewhere,
         inbound' = inbound \/ /\ runner[w].at = "mark"
                               /\ inbound' = [inbound EXCEPT ![runner[w].job] = "succeeded"]
  PROVE  PosterInv' /\ SalesGrow
<1>1. runner'[w] = next /\ \A v \in Runners \ {w} : runner'[v] = runner[v]
  BY OneRunner DEF PosterInv
<1>2. inbound' \in [WebhookJobs -> Statuses] /\ \A j \in WebhookJobs : inbound'[j] = "none" => inbound[j] = "none"
  BY DEF PosterInv, PosterTypeOK, Statuses
<1>3. RunnersTyped'
  <2>1. runner[w].at # "top"
    BY DEF Working
  <2> QED BY <1>1, <2>1 DEF PosterInv, RunnersTyped
<1>4. PosterTypeOK'
  BY <1>2, <1>3 DEF PosterInv, PosterTypeOK, RunnersTyped, RunnerRec, SalesTyped, SaleRec, Elsewhere
<1>5. JobsTrue'
  BY <1>2 DEF PosterInv, JobsTrue
<1>6. JobsHeld'
  <2>1. \A v \in Runners : Working(v)' <=> Working(v)
    BY <1>1 DEF Working
  <2>2. \A v \in Runners : runner'[v].job = runner[v].job
    BY <1>1
  <2> QED BY <2>1, <2>2 DEF PosterInv, JobsHeld, WorksOn
<1>7. EventsTrue'
  <2>1. SalesTyped
    BY DEF PosterInv, PosterTypeOK, SalesTyped, SaleRec
  <2>2. \A j \in WebhookJobs : Applied(j) => Applied(j)'
    BY <2>1, AppliedStays, JobKinds
  <2>3. SucceededEventApplied'
    <3>1. CASE inbound' = inbound
      BY <2>2, <3>1 DEF PosterInv, EventsTrue, SucceededEventApplied, Applied
    <3>2. CASE runner[w].at = "mark" /\ inbound' = [inbound EXCEPT ![runner[w].job] = "succeeded"]
      <4>1. runner[w].job \in WebhookJobs /\ Applied(runner[w].job)'
        BY <3>2, <2>2 DEF PosterInv, EventsTrue, RunnersTyped
      <4>2. \A j \in WebhookJobs : j # runner[w].job => inbound'[j] = inbound[j]
        BY <3>2 DEF PosterInv, PosterTypeOK
      <4> QED BY <2>2, <4>1, <4>2 DEF PosterInv, EventsTrue, SucceededEventApplied, Applied
    <3> QED BY <3>1, <3>2
  <2>4. ASSUME NEW v \in Runners \ {w}, runner[v].at = "refund"
        PROVE  sale'[runner[v].job[1]].status # "none" /\ runner[v].remaining + sale'[runner[v].job[1]].refunded >= Net
    <3>1. PICK x \in Tickets : x = runner[v].job[1]
      BY <2>4, JobKinds DEF PosterInv, RunnersTyped
    <3>2. /\ sale[x].status # "none" /\ runner[v].remaining + sale[x].refunded >= Net
          /\ runner[v].remaining \in Nat /\ sale[x].refunded \in Nat /\ sale'[x].refunded \in Nat /\ Net \in Nat
      BY <2>1, <2>4, <3>1, PosterAssumption DEF PosterInv, EventsTrue, RunnersTyped, RunnerRec, SalesTyped, SaleRec
    <3>3. sale'[x].status # "none" /\ sale'[x].refunded >= sale[x].refunded
      BY <3>2 DEF SalesGrow
    <3> QED BY <3>1, <3>2, <3>3
  <2>5. \A v \in Runners \ {w} : \A j \in WebhookJobs :
          runner[v].at \in {"mark", "finish"} /\ runner[v].job = j => Applied(j)'
    BY <2>2 DEF PosterInv, EventsTrue
  <2>6. \A v \in Runners \ {w} : runner[v].at = "ingest" => runner[v].job[2] # "return"
    BY DEF PosterInv, EventsTrue
  <2> HIDE DEF PosterInv
  <2>7. ASSUME NEW v \in Runners
        PROVE  /\ \A j \in WebhookJobs : runner'[v].at \in {"mark", "finish"} /\ runner'[v].job = j => Applied(j)'
               /\ runner'[v].at = "ingest" => runner'[v].job[2] # "return"
               /\ runner'[v].at = "refund" =>
                    /\ sale'[runner'[v].job[1]].status # "none"
                    /\ runner'[v].remaining + sale'[runner'[v].job[1]].refunded >= Net
    <3>1. CASE v = w
      BY <3>1, <1>1
    <3>2. CASE v # w
      <4>1. PICK r : r = runner[v]
        OBVIOUS
      <4> QED BY <3>2, <4>1, <1>1, <2>4, <2>5, <2>6
    <3> QED BY <3>1, <3>2
  <2> QED BY <2>3, <2>7 DEF EventsTrue, Applied
<1> QED BY <1>3, <1>4, <1>5, <1>6, <1>7 DEF PosterInv

\* Goto moves one worker.
LEMMA GotoSteps ==
  ASSUME PosterInv, NEW w \in Runners, NEW at, NEW remaining, Goto(w, at, remaining)
  PROVE  \E next : /\ next = Serving(at, runner[w].job, remaining, runner[w].batch, runner[w].failed)
                   /\ runner' = [runner EXCEPT ![w] = next]
BY DEF Goto, PosterInv, RunnersTyped

\* Poster answers with the receipt, and the worker goes where its event takes it.
LEMMA FetchStep == ASSUME PosterInv, NEW w \in Runners, FetchReceipt(w), UNCHANGED Elsewhere PROVE PosterInv' /\ SalesGrow
<1>1. /\ runner[w].at = "fetch" /\ runner[w].job \in WebhookJobs
      /\ UNCHANGED <<sale, inbound, job, link, orphaned>>
  BY DEF FetchReceipt, AfterFetch, jobVars
<1>2. PICK x \in Tickets : x = runner[w].job[1]
  BY <1>1, JobKinds
<1>3. PICK left \in 0..Net : left = Net - sale[x].refunded
  BY PosterAssumption DEF PosterInv, PosterTypeOK
<1>4. PICK at : at = IF pos[x] # "returned" /\ runner[w].job[2] # "return" THEN "ingest"
                     ELSE IF sale[x].status = "none" THEN "recover"
                     ELSE IF left = 0 THEN "mark" ELSE "refund"
  BY SMTT(30)
<1>5. Goto(w, at, IF left = 0 THEN 0 ELSE left)
  BY <1>2, <1>3, <1>4 DEF FetchReceipt, AfterFetch
<1>6. Goto(w, at, left)
  BY <1>5
<1>7. PICK next : /\ next = Serving(at, runner[w].job, left, runner[w].batch, runner[w].failed)
                  /\ runner' = [runner EXCEPT ![w] = next]
  BY <1>6, GotoSteps
<1>8. /\ next.at = at /\ next.job = runner[w].job /\ next.remaining = left /\ next \in RunnerRec
      /\ at \in {"ingest", "recover", "mark", "refund"}
  BY <1>4, <1>7 DEF Serving, PosterInv, RunnersTyped, RunnerRec
<1>9. SalesTyped /\ SalesTyped' /\ SalesTrue' /\ SalesGrow
  BY <1>1, SalesStay DEF PosterInv, PosterTypeOK, SalesTyped, SaleRec, SalesTrue
<1>10. at = "mark" => sale'[x].status # "none" /\ sale'[x].refunded = Net
  BY <1>1, <1>3, <1>4, <1>9, PosterAssumption DEF SalesTyped, SaleRec
<1>11. at = "refund" => sale'[x].status # "none" /\ left + sale'[x].refunded >= Net
  BY <1>1, <1>3, <1>4, <1>9, PosterAssumption DEF SalesTyped, SaleRec
<1>12. at = "mark" => Applied(next.job)'
  BY <1>2, <1>8, <1>10 DEF Applied
<1>13. at = "ingest" => next.job[2] # "return"
  BY SMTT(30), <1>4, <1>8
<1> QED BY <1>1, <1>2, <1>7, <1>8, <1>9, <1>11, <1>12, <1>13, RunnerGoesOn DEF Working

\* The worker inserts a returned receipt it had not seen.
LEMMA RecoverStep == ASSUME PosterInv, NEW w \in Runners, RecoverReceipt(w), UNCHANGED Elsewhere PROVE PosterInv' /\ SalesGrow
<1>1. /\ runner[w].at = "recover" /\ sale' = Ingest(runner[w].job[1], "completed") /\ Goto(w, "refund", Net)
      /\ UNCHANGED <<inbound, job, link, orphaned>>
  BY DEF RecoverReceipt
<1>2. runner[w].job \in WebhookJobs
  BY <1>1 DEF PosterInv, RunnersTyped
<1>3. PICK x \in Tickets : x = runner[w].job[1]
  BY <1>2, JobKinds
<1>4. SalesTyped /\ SalesTrue
  BY DEF PosterInv, PosterTypeOK, SalesTyped, SaleRec
<1>5. /\ SalesTyped' /\ SalesTrue' /\ SalesGrow /\ sale'[x].status # "none"
      /\ sale'[x].refunded \in Nat
  BY <1>1, <1>3, <1>4, IngestGrows, PosterAssumption DEF SalesTyped, SaleRec
<1>6. PICK next : /\ next = Serving("refund", runner[w].job, Net, runner[w].batch, runner[w].failed)
                  /\ runner' = [runner EXCEPT ![w] = next]
  BY <1>1, GotoSteps
<1>7. next.at = "refund" /\ next.job = runner[w].job /\ next.remaining = Net /\ next \in RunnerRec
  BY <1>6, PosterAssumption DEF Serving, PosterInv, RunnersTyped, RunnerRec
<1>8. next.remaining + sale'[x].refunded >= Net
  BY <1>5, <1>7, PosterAssumption
<1> QED BY <1>1, <1>2, <1>3, <1>5, <1>6, <1>7, <1>8, RunnerGoesOn DEF Working

\* The worker refunds all it saw was left.
LEMMA RefundStep == ASSUME PosterInv, NEW w \in Runners, RefundReceipt(w), UNCHANGED Elsewhere PROVE PosterInv' /\ SalesGrow
<1>1. runner[w].at = "refund" /\ UNCHANGED <<inbound, job, link, orphaned>>
  BY DEF RefundReceipt
<1>2. runner[w].job \in WebhookJobs
  BY <1>1 DEF PosterInv, RunnersTyped
<1>3. PICK x \in Tickets : x = runner[w].job[1]
  BY <1>2, JobKinds
<1>4. PICK key \in {"close", "return"} : key = runner[w].job[2]
  BY <1>2, JobKinds
<1>5. PICK amount \in 0..Net : amount = runner[w].remaining
  BY DEF PosterInv, RunnersTyped, RunnerRec
<1>6. SalesTyped /\ SalesTrue
  BY DEF PosterInv, PosterTypeOK, SalesTyped, SaleRec
<1>7. sale[x].status # "none" /\ amount + sale[x].refunded >= Net
  BY <1>1, <1>3, <1>5 DEF PosterInv, EventsTrue
<1>8. CASE RefundAccepted(x, key, amount)
  <2>1. sale' = Refund(x, key, amount) /\ Goto(w, "mark", 0)
    BY <1>3, <1>4, <1>5, <1>8 DEF RefundReceipt
  <2>2. SalesTyped' /\ SalesTrue' /\ SalesGrow /\ sale'[x].refunded = Net
    BY <1>6, <1>7, <1>8, <2>1, RefundGrows
  <2>3. sale'[x].status # "none"
    BY <1>7, <2>2 DEF SalesGrow
  <2>4. PICK next : /\ next = Serving("mark", runner[w].job, 0, runner[w].batch, runner[w].failed)
                    /\ runner' = [runner EXCEPT ![w] = next]
    BY <2>1, GotoSteps
  <2>5. next.at = "mark" /\ next.job = runner[w].job /\ next \in RunnerRec
    BY <2>4, PosterAssumption DEF Serving, PosterInv, RunnersTyped, RunnerRec
  <2>6. Applied(next.job)'
    BY <1>3, <2>2, <2>3, <2>5 DEF Applied
  <2> QED BY <1>1, <1>2, <2>2, <2>4, <2>5, <2>6, RunnerGoesOn DEF Working
<1>9. CASE ~RefundAccepted(x, key, amount)
  <2>1. sale' = sale /\ Goto(w, "fail", 0)
    BY <1>3, <1>4, <1>5, <1>9 DEF RefundReceipt
  <2>2. SalesTyped' /\ SalesTrue' /\ SalesGrow
    BY <1>6, <2>1, SalesStay DEF SalesTyped, SalesTrue
  <2>3. PICK next : /\ next = Serving("fail", runner[w].job, 0, runner[w].batch, runner[w].failed)
                    /\ runner' = [runner EXCEPT ![w] = next]
    BY <2>1, GotoSteps
  <2>4. next.at = "fail" /\ next.job = runner[w].job /\ next \in RunnerRec
    BY SMTT(30), <2>3, PosterAssumption DEF Serving, PosterInv, RunnersTyped, RunnerRec
  <2> QED BY <1>1, <2>2, <2>3, <2>4, RunnerGoesOn DEF Working
<1> QED BY <1>8, <1>9

\* The worker stores a closed receipt.
LEMMA IngestStep == ASSUME PosterInv, NEW w \in Runners, IngestReceipt(w), UNCHANGED Elsewhere PROVE PosterInv' /\ SalesGrow
<1>1. /\ runner[w].at = "ingest" /\ sale' = Ingest(runner[w].job[1], "completed")
      /\ Goto(w, "mark", runner[w].remaining) /\ UNCHANGED <<inbound, job, link, orphaned>>
  BY DEF IngestReceipt
<1>2. runner[w].job \in WebhookJobs /\ runner[w].job[2] # "return"
  BY <1>1 DEF PosterInv, RunnersTyped, EventsTrue
<1>3. PICK x \in Tickets : x = runner[w].job[1]
  BY <1>2, JobKinds
<1>4. SalesTyped /\ SalesTrue
  BY DEF PosterInv, PosterTypeOK, SalesTyped, SaleRec
<1>5. SalesTyped' /\ SalesTrue' /\ SalesGrow /\ sale'[x].status # "none"
  BY <1>1, <1>3, <1>4, IngestGrows
<1>6. PICK next : /\ next = Serving("mark", runner[w].job, runner[w].remaining, runner[w].batch, runner[w].failed)
                  /\ runner' = [runner EXCEPT ![w] = next]
  BY <1>1, GotoSteps
<1>7. next.at = "mark" /\ next.job = runner[w].job /\ next \in RunnerRec
  BY <1>6 DEF Serving, PosterInv, RunnersTyped, RunnerRec
<1>8. Applied(next.job)'
  BY <1>2, <1>3, <1>5, <1>7 DEF Applied
<1> QED BY <1>1, <1>2, <1>5, <1>6, <1>7, <1>8, RunnerGoesOn DEF Working

\* The worker marks the delivery as applied.
LEMMA MarkStep == ASSUME PosterInv, NEW w \in Runners, MarkDelivery(w), UNCHANGED Elsewhere PROVE PosterInv' /\ SalesGrow
<1>1. /\ runner[w].at = "mark" /\ Goto(w, "finish", runner[w].remaining)
      /\ inbound' = [inbound EXCEPT ![runner[w].job] = "succeeded"] /\ UNCHANGED <<sale, job, link, orphaned>>
  BY DEF MarkDelivery
<1>2. runner[w].job \in WebhookJobs /\ Applied(runner[w].job)
  BY <1>1 DEF PosterInv, RunnersTyped, EventsTrue
<1>3. SalesTyped /\ SalesTyped' /\ SalesTrue' /\ SalesGrow
  BY <1>1, SalesStay DEF PosterInv, PosterTypeOK, SalesTyped, SaleRec, SalesTrue
<1>4. PICK next : /\ next = Serving("finish", runner[w].job, runner[w].remaining, runner[w].batch, runner[w].failed)
                  /\ runner' = [runner EXCEPT ![w] = next]
  BY <1>1, GotoSteps
<1>5. next.at = "finish" /\ next.job = runner[w].job /\ next \in RunnerRec
  BY <1>4 DEF Serving, PosterInv, RunnersTyped, RunnerRec
<1>6. Applied(next.job)'
  BY <1>1, <1>2, <1>5 DEF Applied
<1> QED BY <1>1, <1>3, <1>4, <1>5, <1>6, RunnerGoesOn DEF Working

\* Imports store their receipts one at a time, and Poster's refusal sends the worker to the end of its job.
LEMMA ImportSteps ==
  ASSUME PosterInv, NEW w \in Runners, FetchList(w) \/ ImportReceipt(w) \/ JobTrouble(w), UNCHANGED Elsewhere
  PROVE  PosterInv' /\ SalesGrow
<1>t. SalesTyped /\ SalesTrue
  BY DEF PosterInv, PosterTypeOK, SalesTyped, SaleRec
<1>s. sale' = sale => SalesTyped' /\ SalesTrue' /\ SalesGrow
  BY <1>t, SalesStay DEF SalesTyped, SalesTrue
<1>1. CASE FetchList(w)
  <2>1. PICK batch : batch = {<<x, IF pos[x] = "returned" THEN "cancelled" ELSE "completed">> : x \in {y \in Tickets : pos[y] # "open"}}
    OBVIOUS
  <2>2. batch \in SUBSET (Tickets \X {"completed", "cancelled"})
    BY <2>1
  <2>3. PICK next : next = Serving("import", runner[w].job, runner[w].remaining, batch, runner[w].failed)
    OBVIOUS
  <2>4. /\ runner[w].at = "fetch" /\ runner[w].job \in ImportJobs /\ UNCHANGED <<sale, inbound, job, link, orphaned>>
        /\ runner' = [runner EXCEPT ![w] = next]
    BY <1>1, <2>1, <2>3 DEF FetchList, jobVars, PosterInv, RunnersTyped
  <2>5. next.at = "import" /\ next.job = runner[w].job /\ next \in RunnerRec
    BY <2>2, <2>3 DEF Serving, PosterInv, RunnersTyped, RunnerRec
  <2> QED BY <1>s, <2>4, <2>5, RunnerGoesOn DEF Working
<1>2. CASE ImportReceipt(w)
  <2>1. /\ runner[w].at = "import" /\ runner[w].job \in ImportJobs /\ UNCHANGED <<inbound, job, link, orphaned>>
        /\ runner[w].job \notin WebhookJobs
    BY <1>2, JobKinds DEF ImportReceipt, PosterInv, RunnersTyped
  <2>2. ASSUME NEW r \in runner[w].batch, NEW ok \in BOOLEAN,
               sale' = (IF ok THEN Ingest(r[1], r[2]) ELSE sale),
               runner' = [runner EXCEPT ![w] = Serving("import", @.job, @.remaining, @.batch \ {r}, @.failed \/ ~ok)]
        PROVE  PosterInv' /\ SalesGrow
    <3>1. r[1] \in Tickets /\ r[2] \in {"completed", "cancelled"}
      BY DEF PosterInv, RunnersTyped, RunnerRec
    <3>2. SalesTyped' /\ SalesTrue' /\ SalesGrow
      <4>1. CASE ok
        BY <1>t, <2>2, <3>1, <4>1, IngestGrows
      <4>2. CASE ~ok
        BY <1>s, <2>2, <4>2
      <4> QED BY <4>1, <4>2
    <3>3. PICK failed \in BOOLEAN : failed = (runner[w].failed \/ ~ok)
      OBVIOUS
    <3>4. PICK next : next = Serving("import", runner[w].job, runner[w].remaining, runner[w].batch \ {r}, failed)
      OBVIOUS
    <3>5. runner' = [runner EXCEPT ![w] = next]
      BY <2>2, <3>3, <3>4 DEF PosterInv, RunnersTyped
    <3>6. next.at = "import" /\ next.job = runner[w].job /\ next \in RunnerRec
      BY <3>4 DEF Serving, PosterInv, RunnersTyped, RunnerRec
    <3> QED BY <2>1, <3>2, <3>5, <3>6, RunnerGoesOn DEF Working
  <2>3. ASSUME Goto(w, "finish", runner[w].remaining), sale' = sale PROVE PosterInv' /\ SalesGrow
    <3>1. PICK next : /\ next = Serving("finish", runner[w].job, runner[w].remaining, runner[w].batch, runner[w].failed)
                      /\ runner' = [runner EXCEPT ![w] = next]
      BY <2>3, GotoSteps
    <3>2. next.at = "finish" /\ next.job = runner[w].job /\ next \in RunnerRec
      BY <3>1 DEF Serving, PosterInv, RunnersTyped, RunnerRec
    <3> QED BY <1>s, <2>1, <2>3, <3>1, <3>2, RunnerGoesOn DEF Working
  <2> QED BY <1>2, <2>2, <2>3 DEF ImportReceipt
<1>3. CASE JobTrouble(w)
  <2>1. PICK at \in {"fail", "secret"} :
          /\ runner[w].at \in {"fetch", "recover", "refund", "ingest", "mark"}
          /\ Goto(w, at, 0) /\ UNCHANGED <<sale, inbound, job, link, orphaned>>
    BY <1>3 DEF JobTrouble, jobVars
  <2>2. PICK next : /\ next = Serving(at, runner[w].job, 0, runner[w].batch, runner[w].failed)
                    /\ runner' = [runner EXCEPT ![w] = next]
    BY <2>1, GotoSteps
  <2>3. next.at = at /\ next.job = runner[w].job /\ next \in RunnerRec
    BY <2>2, PosterAssumption DEF Serving, PosterInv, RunnersTyped, RunnerRec
  <2> QED BY <1>s, <2>1, <2>2, <2>3, RunnerGoesOn DEF Working
<1> QED BY <1>1, <1>2, <1>3

\* A job queued, or queued again, with no attempts.
LEMMA JobQueued ==
  ASSUME PosterInv, NEW j \in Jobs, job[j].status \in {"none", "failed", "dead"},
         job' = [job EXCEPT ![j] = Queued],
         UNCHANGED <<tick, pos, sale, link, runner, orphaned, runnerFaults>>,
         queuedAt' \in 0..MaxTick, revivals' \in 0..MaxRevivals,
         \/ inbound' = inbound /\ (j \in WebhookJobs => job[j].status # "none")
         \/ j \in WebhookJobs /\ inbound' = [inbound EXCEPT ![j] = "pending"]
  PROVE  PosterInv' /\ SalesGrow
<1>1. Queued.status = "pending" /\ Queued.attempts = 0 /\ Queued \in JobRec
  BY PosterAssumption DEF Queued, JobRow, JobRec, Statuses
<1>2. job'[j] = Queued /\ \A i \in Jobs \ {j} : job'[i] = job[i]
  BY DEF PosterInv, PosterTypeOK
<1>3. inbound' \in [WebhookJobs -> Statuses]
  BY DEF PosterInv, PosterTypeOK, Statuses
<1>4. PosterTypeOK'
  BY <1>1, <1>3 DEF PosterInv, PosterTypeOK, JobRec
<1>5. JobsTrue'
  <2>1. \A i \in WebhookJobs : i \in Jobs
    BY JobKinds
  <2>2. \A i \in WebhookJobs : inbound'[i] = "none" => job'[i].status = "none"
    <3>1. CASE inbound' = inbound /\ (j \in WebhookJobs => job[j].status # "none")
      BY <1>2, <2>1, <3>1 DEF PosterInv, JobsTrue
    <3>2. CASE j \in WebhookJobs /\ inbound' = [inbound EXCEPT ![j] = "pending"]
      BY <1>2, <2>1, <3>2 DEF PosterInv, JobsTrue, PosterTypeOK
    <3> QED BY <3>1, <3>2
  <2>3. 0 < MaxJobAttempts
    BY PosterAssumption
  <2> QED BY <1>1, <1>2, <2>2, <2>3 DEF PosterInv, JobsTrue
<1>6. JobsHeld'
  <2>1. \A w \in Runners : Working(w)' <=> Working(w)
    BY DEF Working
  <2>2. \A w \in Runners : Working(w) => runner[w].job \in Jobs
    BY DEF PosterInv, RunnersTyped, Working
  <2>3. orphaned \subseteq Jobs
    BY DEF PosterInv, PosterTypeOK
  <2> QED BY <1>1, <1>2, <2>1, <2>2, <2>3 DEF PosterInv, JobsHeld, WorksOn
<1>7. RunnersTyped' /\ SalesTrue'
  BY DEF PosterInv, RunnersTyped, SalesTrue
<1>8. EventsTrue'
  <2>1. \A i \in WebhookJobs : job'[i].status = "succeeded" => job[i].status = "succeeded"
    BY <1>1, <1>2, JobKinds
  <2>2. \A i \in WebhookJobs : inbound'[i] = "succeeded" => inbound[i] = "succeeded"
    BY DEF PosterInv, PosterTypeOK
  <2>3. SucceededEventApplied'
    BY <2>1, <2>2 DEF PosterInv, EventsTrue, SucceededEventApplied
  <2> QED BY <2>3 DEF PosterInv, EventsTrue, Applied
<1> QED BY <1>4, <1>5, <1>6, <1>7, <1>8, NoSale DEF PosterInv

\* The webhook, an import, an operator's retry and the daily pass queue jobs.
LEMMA QueueingSteps ==
  ASSUME PosterInv,
         \/ \E j \in WebhookJobs : PosterWebhook(j)
         \/ \E i \in Imports : QueueImport(i)
         \/ \E j \in Jobs : IntegrationJobRetry(j)
         \/ \E w \in Runners : QueuePosterDaily(w)
  PROVE  PosterInv' /\ SalesGrow
<1> USE DEF PosterInv, PosterTypeOK
<1>1. ASSUME NEW j \in WebhookJobs, PosterWebhook(j) PROVE PosterInv' /\ SalesGrow
  <2>1. j \in Jobs /\ job[j].status = "none"
    BY <1>1, JobKinds DEF PosterWebhook, JobsTrue
  <2> QED BY <1>1, <2>1, JobQueued DEF PosterWebhook
<1>2. ASSUME NEW i \in Imports, QueueImport(i) PROVE PosterInv' /\ SalesGrow
  <2>1. PICK j : j = <<"manual", i>>
    OBVIOUS
  <2>2. j \in Jobs /\ j \notin WebhookJobs
    BY <2>1, JobKinds
  <2> QED BY <1>2, <2>1, <2>2, JobQueued DEF QueueImport
<1>3. ASSUME NEW j \in Jobs, IntegrationJobRetry(j) PROVE PosterInv' /\ SalesGrow
  <2>1. revivals' \in 0..MaxRevivals
    BY <1>3, PosterAssumption DEF IntegrationJobRetry
  <2> QED BY <1>3, <2>1, JobQueued DEF IntegrationJobRetry
<1>4. ASSUME NEW w \in Runners, QueuePosterDaily(w) PROVE PosterInv' /\ SalesGrow
  <2>1. PICK j \in Jobs : j = <<"daily", Day(tick)>>
    BY DaysPass
  <2>2. /\ job' = IF DailyDue /\ job[j].status = "none" THEN [job EXCEPT ![j] = Queued] ELSE job
        /\ queuedAt' = tick
        /\ UNCHANGED <<tick, pos, sale, inbound, link, runner, orphaned, revivals, runnerFaults>>
    BY <1>4, <2>1 DEF QueuePosterDaily
  <2>3. j \notin WebhookJobs
    BY <2>1, PosterAssumption DEF WebhookJobs
  <2>4. CASE DailyDue /\ job[j].status = "none"
    BY <2>2, <2>3, <2>4, JobQueued
  <2>5. CASE ~(DailyDue /\ job[j].status = "none")
    <3>1. job' = job
      BY <2>2, <2>5
    <3>2. PosterTypeOK'
      BY <2>2, <3>1
    <3>3. RunnersTyped' /\ JobsTrue' /\ JobsHeld' /\ SalesTrue' /\ EventsTrue'
      BY <2>2, <3>1
      DEF RunnersTyped, JobsTrue, JobsHeld, SalesTrue, EventsTrue, SucceededEventApplied, Applied, Working, WorksOn
    <3>4. PosterInv'
      BY <3>2, <3>3
    <3>5. SalesGrow
      BY <2>2, NoSale
    <3> QED BY <3>4, <3>5
  <2> QED BY <2>4, <2>5
<1> QED BY <1>1, <1>2, <1>3, <1>4

\* Poster, a cashier's refund and time leave the jobs alone.
LEMMA OutsideSteps ==
  ASSUME PosterInv, (\E x \in Tickets : PosterMoves(x) \/ StaffRefund(x)) \/ Tick \/ UNCHANGED posterVars
  PROVE  PosterInv' /\ SalesGrow
<1>t. SalesTyped /\ SalesTrue
  BY DEF PosterInv, PosterTypeOK, SalesTyped, SaleRec
<1>1. /\ UNCHANGED <<inbound, job, link, queuedAt, runner, orphaned, revivals, runnerFaults>>
      /\ tick' \in 0..MaxTick /\ pos' \in [Tickets -> {"open", "closed", "returned"}]
  BY PosterAssumption DEF PosterMoves, StaffRefund, Tick, posterVars, jobVars, PosterInv, PosterTypeOK
<1>2. SalesTyped' /\ SalesTrue' /\ SalesGrow
  <2>1. ASSUME NEW x \in Tickets, StaffRefund(x) PROVE SalesTyped' /\ SalesTrue' /\ SalesGrow
    <3>1. 1 \in 0..Net
      BY PosterAssumption
    <3> QED BY <1>t, <2>1, <3>1, RefundGrows DEF StaffRefund
  <2>2. CASE sale' = sale
    BY <1>t, <2>2, SalesStay DEF SalesTyped, SalesTrue
  <2> QED BY <2>1, <2>2 DEF PosterMoves, Tick, posterVars, jobVars
<1>3. PosterTypeOK'
  BY <1>1, <1>2 DEF PosterInv, PosterTypeOK, SalesTyped, SaleRec
<1>4. RunnersTyped' /\ JobsTrue' /\ JobsHeld'
  BY <1>1 DEF PosterInv, RunnersTyped, JobsTrue, JobsHeld, Working, WorksOn
<1>5. EventsTrue'
  BY <1>1, <1>2, EventsStay
<1> QED BY <1>2, <1>3, <1>4, <1>5 DEF PosterInv

\* A worker claims a job nobody has.
LEMMA ClaimStep == ASSUME PosterInv, NEW w \in Runners, ClaimJob(w), UNCHANGED Elsewhere PROVE PosterInv' /\ SalesGrow
<1>1. PICK j \in Jobs :
        /\ runner[w].at = "top" /\ job[j].status \in {"pending", "failed"}
        /\ job' = [job EXCEPT ![j] = JobRow("processing", job[j].attempts + 1)]
        /\ runner' = [runner EXCEPT ![w] = Serving("fetch", j, 0, {}, FALSE)]
        /\ UNCHANGED <<sale, inbound, link, orphaned>>
  BY DEF ClaimJob, Claimable, PosterInv, PosterTypeOK
<1>2. PICK row : row = JobRow("processing", job[j].attempts + 1)
  OBVIOUS
<1>3. /\ row.status = "processing" /\ row.attempts = job[j].attempts + 1 /\ row \in JobRec /\ row.attempts >= 1
  BY <1>1, <1>2, PosterAssumption DEF JobRow, JobRec, Statuses, PosterInv, PosterTypeOK, JobsTrue
<1>4. PICK next : next = Serving("fetch", j, 0, {}, FALSE)
  OBVIOUS
<1>5. next.at = "fetch" /\ next.job = j /\ next \in RunnerRec
  BY <1>4, PosterAssumption DEF Serving, RunnerRec
<1>6. runner'[w] = next /\ \A v \in Runners \ {w} : runner'[v] = runner[v]
  BY <1>1, <1>4, OneRunner DEF PosterInv
<1>7. job'[j] = row /\ \A i \in Jobs \ {j} : job'[i] = job[i]
  BY <1>1, <1>2 DEF PosterInv, PosterTypeOK
<1>8. PosterTypeOK'
  <2>1. job' \in [Jobs -> JobRec]
    BY <1>1, <1>2, <1>3 DEF PosterInv, PosterTypeOK, JobRec
  <2>2. \A v \in Runners : runner'[v].job \in Jobs \cup {NoJob} /\ runner'[v].remaining \in 0..Net
    BY <1>4, <1>5, <1>6 DEF PosterInv, PosterTypeOK, RunnerRec
  <2> QED BY <1>1, <2>1, <2>2 DEF PosterInv, PosterTypeOK, JobRec, Elsewhere
<1>9. RunnersTyped'
  BY <1>1, <1>4, <1>5, <1>6 DEF PosterInv, RunnersTyped
<1>10. JobsTrue'
  <2>1. \A i \in WebhookJobs : inbound[i] = "none" => i # j
    BY <1>1 DEF PosterInv, JobsTrue
  <2> QED BY <1>1, <1>3, <1>7, <2>1, JobKinds DEF PosterInv, JobsTrue
<1>11. JobsHeld'
  <2>1. ~Working(w) /\ Working(w)' /\ \A v \in Runners \ {w} : Working(v)' <=> Working(v)
    BY <1>1, <1>5, <1>6 DEF Working
  <2>2. \A v \in Runners : Working(v) => runner[v].job \in Jobs /\ runner[v].job # j
    BY <1>1 DEF PosterInv, RunnersTyped, JobsHeld, Working
  <2>3. j \notin orphaned /\ orphaned \subseteq Jobs
    BY <1>1 DEF PosterInv, JobsHeld, PosterTypeOK
  <2>4. \A v \in Runners : Working(v)' => job'[runner'[v].job].status = "processing" /\ runner'[v].job \notin orphaned'
    <3>1. ASSUME NEW v \in Runners \ {w}, Working(v)
          PROVE  job'[runner[v].job].status = "processing" /\ runner[v].job \notin orphaned
      BY <1>7, <2>2, <3>1 DEF PosterInv, JobsHeld
    <3>2. job'[runner'[w].job].status = "processing" /\ runner'[w].job \notin orphaned
      BY <1>3, <1>5, <1>6, <1>7, <2>3
    <3>3. ASSUME NEW v \in Runners \ {w}, Working(v)'
          PROVE  job'[runner'[v].job].status = "processing" /\ runner'[v].job \notin orphaned
      <4>1. PICK r : r = runner[v]
        OBVIOUS
      <4>2. runner'[v] = r /\ job'[r.job].status = "processing" /\ r.job \notin orphaned
        BY <1>6, <2>1, <3>1, <3>3, <4>1
      <4> QED BY <4>2
    <3>4. ASSUME NEW v \in Runners, Working(v)'
          PROVE  job'[runner'[v].job].status = "processing" /\ runner'[v].job \notin orphaned
      <4>1. CASE v = w
        BY <3>2, <4>1
      <4>2. CASE v # w
        BY <3>3, <3>4, <4>2
      <4> QED BY <4>1, <4>2
    <3>5. orphaned' = orphaned
      BY <1>1
    <3> QED BY <3>4, <3>5
  <2>5. \A u, v \in Runners : Working(u)' /\ Working(v)' /\ runner'[u].job = runner'[v].job => u = v
    BY <1>5, <1>6, <2>1, <2>2 DEF PosterInv, JobsHeld
  <2>6. \A i \in orphaned' : job'[i].status = "processing"
    BY <1>1, <1>7, <2>3 DEF PosterInv, JobsHeld
  <2>7. \A i \in Jobs : job'[i].status = "processing" => i \in orphaned' \/ \E v \in Runners : WorksOn(v, i)'
    <3>1. WorksOn(w, j)'
      BY <1>5, <1>6, <2>1 DEF WorksOn
    <3>2. \A v \in Runners : \A i \in Jobs : WorksOn(v, i) => WorksOn(v, i)'
      BY <1>6, <2>1 DEF WorksOn
    <3> QED BY <1>1, <1>7, <3>1, <3>2 DEF PosterInv, JobsHeld
  <2> QED BY <2>4, <2>5, <2>6, <2>7 DEF JobsHeld
<1>12. SalesTrue' /\ EventsTrue'
  <2>1. SucceededEventApplied'
    BY <1>1, <1>3, <1>7, JobKinds DEF PosterInv, EventsTrue, SucceededEventApplied
  <2>2. SalesTrue'
    BY <1>1 DEF PosterInv, SalesTrue
  <2>3. ASSUME NEW v \in Runners
        PROVE  /\ (runner[v].at \in {"mark", "finish"} /\ runner[v].job \in WebhookJobs => Applied(runner[v].job))'
               /\ (runner[v].at = "ingest" => runner[v].job[2] # "return")'
               /\ (runner[v].at = "refund" =>
                    /\ sale[runner[v].job[1]].status # "none"
                    /\ runner[v].remaining + sale[runner[v].job[1]].refunded >= Net)'
    <3>1. CASE v = w
      BY <1>5, <1>6, <3>1
    <3>2. CASE v # w
      BY <1>1, <1>6, <3>2 DEF PosterInv, EventsTrue, Applied
    <3> QED BY <3>1, <3>2
  <2> QED BY <2>1, <2>2, <2>3 DEF EventsTrue
<1>13. SalesGrow
  BY <1>1, NoSale
<1> QED BY <1>8, <1>9, <1>10, <1>11, <1>12, <1>13 DEF PosterInv

\* A worker ends its job, has the end written on the connection or the delivery, or is lost.
LEMMA JobLeft ==
  ASSUME PosterInv, NEW w \in Runners, NEW next \in RunnerRec, NEW row \in JobRec, runner[w].at # "top",
         runner' = [runner EXCEPT ![w] = next], next.at \in {"top", "health", "journal"},
         next.at # "top" => next.job = runner[w].job,
         UNCHANGED <<tick, pos, sale, queuedAt, revivals>>,
         link' \in [status : {"active", "degraded", "error"}, lastSync : 0..MaxTick],
         runnerFaults' \in 0..MaxRunnerFaults,
         \/ /\ Working(w) /\ job' = [job EXCEPT ![runner[w].job] = row] /\ UNCHANGED <<inbound, orphaned>>
            /\ row.status \in {"succeeded", "failed", "dead"}
            /\ row.status = "failed" => row.attempts < MaxJobAttempts
            /\ row.status = "succeeded" /\ runner[w].job \in WebhookJobs => Applied(runner[w].job)
         \/ /\ ~Working(w) /\ UNCHANGED <<job, orphaned>>
            /\ inbound' \in [WebhookJobs -> Statuses]
            /\ \A j \in WebhookJobs : inbound'[j] \in {inbound[j], "failed", "dead"}
         \/ Working(w) /\ UNCHANGED <<job, inbound>> /\ orphaned' = orphaned \cup {runner[w].job}
  PROVE  PosterInv' /\ SalesGrow
<1>1. runner'[w] = next /\ \A v \in Runners \ {w} : runner'[v] = runner[v]
  BY OneRunner DEF PosterInv
<1>2. PICK j \in Jobs : j = runner[w].job
  BY DEF PosterInv, RunnersTyped
<1>3. /\ \A v \in Runners : Working(v) => runner[v].job \in Jobs
      /\ ~Working(w)' /\ \A v \in Runners \ {w} : Working(v)' <=> Working(v)
  BY <1>1 DEF Working, PosterInv, RunnersTyped
<1>4. RunnersTyped'
  BY <1>1, <1>2 DEF PosterInv, RunnersTyped
<1>o. Working(w) => \A v \in Runners \ {w} : Working(v) => runner[v].job # j
  BY <1>2 DEF PosterInv, JobsHeld
<1>p. Working(w) => job[j].status = "processing" /\ j \notin orphaned
  BY SMTT(30), <1>2 DEF PosterInv, JobsHeld
<1>5. CASE job' = [job EXCEPT ![j] = row] /\ Working(w) /\ UNCHANGED <<inbound, orphaned>>
           /\ row.status \in {"succeeded", "failed", "dead"} /\ (row.status = "failed" => row.attempts < MaxJobAttempts)
           /\ (row.status = "succeeded" /\ j \in WebhookJobs => Applied(j))
  <2>1. job'[j] = row /\ \A i \in Jobs \ {j} : job'[i] = job[i]
    BY <1>5 DEF PosterInv, PosterTypeOK
  <2>2. PosterTypeOK'
    BY <1>4, <1>5 DEF PosterInv, PosterTypeOK, RunnersTyped, RunnerRec, JobRec
  <2>3. JobsTrue'
    BY <1>5, <1>p, <2>1, JobKinds DEF PosterInv, JobsTrue
  <2>4. JobsHeld'
    <3>1. orphaned \subseteq Jobs
      BY DEF PosterInv, PosterTypeOK
    <3>2. \A v \in Runners : Working(v)' => job'[runner'[v].job].status = "processing" /\ runner'[v].job \notin orphaned
      BY <1>1, <1>3, <1>o, <2>1 DEF PosterInv, JobsHeld
    <3>3. \A u, v \in Runners : Working(u)' /\ Working(v)' /\ runner'[u].job = runner'[v].job => u = v
      BY <1>1, <1>3 DEF PosterInv, JobsHeld
    <3>4. \A i \in orphaned : job'[i].status = "processing"
      BY <1>5, <1>p, <2>1, <3>1 DEF PosterInv, JobsHeld
    <3>5. \A i \in Jobs : job'[i].status = "processing" => i \in orphaned \/ \E v \in Runners : WorksOn(v, i)'
      <4>1. ASSUME NEW i \in Jobs, job'[i].status = "processing" PROVE i # j /\ job[i].status = "processing"
        BY <1>5, <2>1, <4>1
      <4>2. \A i \in Jobs : \A v \in Runners : WorksOn(v, i) /\ i # j => WorksOn(v, i)'
        BY <1>1, <1>2, <1>3 DEF WorksOn
      <4> QED BY <4>1, <4>2 DEF PosterInv, JobsHeld
    <3> QED BY <1>5, <3>2, <3>3, <3>4, <3>5 DEF JobsHeld
  <2>5. SucceededEventApplied'
    BY <1>5, <2>1, JobKinds DEF PosterInv, EventsTrue, SucceededEventApplied, Applied
  <2> QED BY <1>1, <1>4, <2>2, <2>3, <2>4, <2>5, NoSale DEF PosterInv, SalesTrue, EventsTrue, Applied
<1>6. CASE ~Working(w) /\ UNCHANGED <<job, orphaned>> /\ inbound' \in [WebhookJobs -> Statuses]
           /\ \A i \in WebhookJobs : inbound'[i] \in {inbound[i], "failed", "dead"}
  <2>1. PosterTypeOK'
    BY <1>4, <1>6 DEF PosterInv, PosterTypeOK, RunnersTyped, RunnerRec
  <2>2. JobsTrue'
    BY <1>6 DEF PosterInv, JobsTrue
  <2>3. JobsHeld'
    <3>1. \A i \in Jobs : \A v \in Runners : WorksOn(v, i) => WorksOn(v, i)'
      BY <1>1, <1>3, <1>6 DEF WorksOn
    <3> QED BY <1>1, <1>3, <1>6, <3>1 DEF PosterInv, JobsHeld
  <2>4. SucceededEventApplied'
    BY <1>6 DEF PosterInv, EventsTrue, SucceededEventApplied
  <2> QED BY <1>1, <1>4, <2>1, <2>2, <2>3, <2>4, NoSale DEF PosterInv, SalesTrue, EventsTrue, Applied
<1>7. CASE Working(w) /\ UNCHANGED <<job, inbound>> /\ orphaned' = orphaned \cup {j}
  <2>1. PosterTypeOK'
    BY <1>4, <1>7 DEF PosterInv, PosterTypeOK, RunnersTyped, RunnerRec
  <2>2. JobsTrue'
    BY <1>7 DEF PosterInv, JobsTrue
  <2>3. JobsHeld'
    <3>1. \A i \in Jobs : \A v \in Runners : WorksOn(v, i) /\ i # j => WorksOn(v, i)'
      BY <1>1, <1>2, <1>3 DEF WorksOn
    <3>2. \A v \in Runners : Working(v)' => job[runner'[v].job].status = "processing" /\ runner'[v].job \notin orphaned'
      BY <1>1, <1>3, <1>7, <1>o DEF PosterInv, JobsHeld
    <3> QED BY <1>1, <1>3, <1>7, <1>p, <3>1, <3>2 DEF PosterInv, JobsHeld
  <2>4. SucceededEventApplied'
    BY <1>7 DEF PosterInv, EventsTrue, SucceededEventApplied
  <2> QED BY <1>1, <1>4, <2>1, <2>2, <2>3, <2>4, NoSale DEF PosterInv, SalesTrue, EventsTrue, Applied
<1> QED BY <1>2, <1>5, <1>6, <1>7

\* A worker between jobs.
LEMMA AtTopRec == AtTop \in RunnerRec /\ AtTop.at = "top"
BY PosterAssumption DEF AtTop, Serving, RunnerRec

\* A worker ends its job, gives it back, buries it or is lost.
LEMMA LeavingSteps ==
  ASSUME PosterInv, NEW w \in Runners,
         \/ (FinishJob(w) \/ ConnectionHealth(w) \/ FailJob(w) \/ FailDelivery(w)) /\ UNCHANGED Elsewhere
         \/ LoseRunner(w)
  PROVE  PosterInv' /\ SalesGrow
<1>t. /\ link \in [status : {"active", "degraded", "error"}, lastSync : 0..MaxTick] /\ tick \in 0..MaxTick
      /\ runnerFaults \in 0..MaxRunnerFaults /\ inbound \in [WebhookJobs -> Statuses]
      /\ job \in [Jobs -> JobRec]
  BY DEF PosterInv, PosterTypeOK, JobRec
<1>0. JobRow("none", 0) \in JobRec
  BY PosterAssumption DEF JobRow, JobRec, Statuses
<1>1. CASE FinishJob(w) /\ UNCHANGED Elsewhere
  <2>1. PICK next : /\ next = Serving("health", runner[w].job, runner[w].remaining, runner[w].batch, runner[w].failed)
                    /\ runner' = [runner EXCEPT ![w] = next]
    BY <1>1, GotoSteps DEF FinishJob
  <2>2. next.at = "health" /\ next.job = runner[w].job /\ next \in RunnerRec
    BY <2>1 DEF Serving, PosterInv, RunnersTyped, RunnerRec
  <2>3. PICK j \in Jobs : j = runner[w].job
    BY <1>1 DEF FinishJob, PosterInv, RunnersTyped
  <2>4. PICK row : row = JobRow("succeeded", job[j].attempts)
    OBVIOUS
  <2>5. row \in JobRec /\ row.status = "succeeded"
    BY <1>t, <2>4 DEF JobRow, JobRec, Statuses
  <2>6. /\ runner[w].at = "finish" /\ job' = [job EXCEPT ![runner[w].job] = row]
        /\ UNCHANGED <<sale, inbound, link, orphaned>>
    BY <1>1, <1>t, <2>3, <2>4 DEF FinishJob
  <2>7. runner[w].job \in WebhookJobs => Applied(runner[w].job)
    BY <2>6 DEF PosterInv, EventsTrue
  <2> QED BY <1>1, <1>t, <2>1, <2>2, <2>5, <2>6, <2>7, JobLeft DEF Elsewhere, Working
<1>2. CASE ConnectionHealth(w) /\ UNCHANGED Elsewhere
  <2>1. /\ runner[w].at = "health" /\ runner' = [runner EXCEPT ![w] = AtTop]
        /\ link' = [status |-> IF runner[w].failed THEN "degraded" ELSE "active", lastSync |-> tick]
        /\ UNCHANGED <<sale, inbound, job, orphaned>>
    BY <1>2 DEF ConnectionHealth
  <2>2. link' \in [status : {"active", "degraded", "error"}, lastSync : 0..MaxTick]
    BY <1>t, <2>1
  <2> QED BY <1>0, <1>2, <1>t, <2>1, <2>2, AtTopRec, JobLeft DEF Elsewhere, Working
<1>3. CASE FailJob(w) /\ UNCHANGED Elsewhere
  <2>1. PICK next : /\ next = Serving("journal", runner[w].job, runner[w].remaining, runner[w].batch, runner[w].failed)
                    /\ runner' = [runner EXCEPT ![w] = next]
    BY <1>3, GotoSteps DEF FailJob
  <2>2. next.at = "journal" /\ next.job = runner[w].job /\ next \in RunnerRec
    BY <2>1 DEF Serving, PosterInv, RunnersTyped, RunnerRec
  <2>3. PICK j \in Jobs : j = runner[w].job
    BY <1>3 DEF FailJob, PosterInv, RunnersTyped
  <2>4. PICK row : row = JobRow(GivenUp(job[j]), job[j].attempts)
    OBVIOUS
  <2>5. /\ row \in JobRec /\ row.status \in {"failed", "dead"}
        /\ row.status = "failed" => row.attempts < MaxJobAttempts
    BY <1>t, <2>4, PosterAssumption DEF JobRow, JobRec, Statuses, GivenUp
  <2>6. /\ runner[w].at \in {"fail", "secret"} /\ job' = [job EXCEPT ![runner[w].job] = row]
        /\ UNCHANGED <<sale, inbound, orphaned>>
        /\ link' \in [status : {"active", "degraded", "error"}, lastSync : 0..MaxTick]
    BY <1>3, <1>t, <2>3, <2>4 DEF FailJob
  <2> QED BY <1>3, <1>t, <2>1, <2>2, <2>5, <2>6, JobLeft DEF Elsewhere, Working
<1>4. CASE FailDelivery(w) /\ UNCHANGED Elsewhere
  <2>1. PICK j \in Jobs : j = runner[w].job
    BY <1>4 DEF FailDelivery, PosterInv, RunnersTyped
  <2>2. /\ runner[w].at = "journal" /\ runner' = [runner EXCEPT ![w] = AtTop] /\ UNCHANGED <<sale, job, link, orphaned>>
        /\ inbound' = IF j \in WebhookJobs THEN [inbound EXCEPT ![j] = GivenUp(job[j])] ELSE inbound
    BY <1>4, <2>1 DEF FailDelivery
  <2>3. GivenUp(job[j]) \in {"failed", "dead"}
    BY DEF GivenUp
  <2>4. inbound' \in [WebhookJobs -> Statuses] /\ \A i \in WebhookJobs : inbound'[i] \in {inbound[i], "failed", "dead"}
    BY <1>t, <2>2, <2>3 DEF Statuses
  <2> QED BY <1>0, <1>4, <1>t, <2>2, <2>4, AtTopRec, JobLeft DEF Elsewhere, Working
<1>5. CASE LoseRunner(w)
  <2>1. /\ runner[w].at # "top" /\ runner' = [runner EXCEPT ![w] = AtTop]
        /\ UNCHANGED <<tick, pos, sale, inbound, job, link, queuedAt, revivals>>
        /\ orphaned' = IF Working(w) THEN orphaned \cup {runner[w].job} ELSE orphaned
    BY <1>5 DEF LoseRunner
  <2>2. runnerFaults' \in 0..MaxRunnerFaults
    BY <1>5, <1>t, PosterAssumption DEF LoseRunner
  <2> QED BY <1>0, <1>t, <2>1, <2>2, AtTopRec, JobLeft
<1> QED BY <1>1, <1>2, <1>3, <1>4, <1>5

\* Every step keeps the invariant and lets sales grow.
LEMMA PosterInvStep == PosterInv /\ [PosterNext]_posterVars => PosterInv' /\ SalesGrow
<1> SUFFICES ASSUME PosterInv, [PosterNext]_posterVars PROVE PosterInv' /\ SalesGrow
  OBVIOUS
<1>1. ASSUME NEW w \in Runners, RunnerStep(w) PROVE PosterInv' /\ SalesGrow
  BY <1>1, ClaimStep, FetchStep, RecoverStep, RefundStep, IngestStep, MarkStep, ImportSteps, LeavingSteps
  DEF RunnerStep, Elsewhere
<1> QED BY <1>1, OutsideSteps, QueueingSteps, LeavingSteps DEF PosterNext

(***************************************************************************)
(* Poster's jobs, for any number of tickets, imports, workers and          *)
(* attempts: between two retries by an operator a job is tried no more     *)
(* often than max_attempts, a claimed job has one worker unless it was     *)
(* lost, and an event whose job or delivery succeeded is one the sale      *)
(* shows (poster_worker.go, poster_sync.go).                               *)
(***************************************************************************)
THEOREM PosterJobsAccountedFor == PosterSpec => []JobsAccounted
<1>1. PosterInv => JobsAccounted
  <2> SUFFICES ASSUME PosterInv, NEW j \in Jobs, job[j].status = "processing"
               PROVE  Cardinality({w \in Runners : Working(w) /\ runner[w].job = j}) = IF j \in orphaned THEN 0 ELSE 1
    BY DEF JobsAccounted, PosterInv, EventsTrue, JobHeldOrOrphaned
  <2>1. CASE j \in orphaned
    <3>1. {w \in Runners : Working(w) /\ runner[w].job = j} = {}
      BY <2>1 DEF PosterInv, JobsHeld
    <3> QED BY <2>1, <3>1, FS_EmptySet
  <2>2. CASE j \notin orphaned
    <3>1. PICK w \in Runners : Working(w) /\ runner[w].job = j
      BY <2>2 DEF PosterInv, JobsHeld, WorksOn
    <3>2. {v \in Runners : Working(v) /\ runner[v].job = j} = {w}
      BY <3>1 DEF PosterInv, JobsHeld
    <3> QED BY <2>2, <3>2, FS_Singleton
  <2> QED BY <2>1, <2>2
<1> QED BY <1>1, PosterInvInit, PosterInvStep, PTL DEF PosterSpec


(***************************************************************************)
(* A receipt that was cancelled or refunded stays so, and no refund is     *)
(* undone, whatever events arrive again or late and whatever is imported   *)
(* (poster_worker.go, integration/service.go).                             *)
(***************************************************************************)
THEOREM PosterReturnsStand == PosterSpec => ReturnsStand
<1>1. PosterInv /\ [PosterNext]_posterVars =>
        [\A x \in Tickets :
           /\ sale[x].status \in {"cancelled", "refunded"} => sale'[x].status = sale[x].status
           /\ sale'[x].refunded >= sale[x].refunded]_posterVars
  BY PosterInvStep DEF SalesGrow
<1> QED BY <1>1, PosterInvInit, PosterInvStep, PTL DEF PosterSpec, ReturnsStand

-----------------------------------------------------------------------------
\* A job as an item of the abstract queue.
QueuedJobRow(r) ==
  [st |-> CASE r.status = "none" -> "absent"
            [] r.status \in {"pending", "failed"} -> "waiting"
            [] r.status = "processing" -> "taken"
            [] r.status = "succeeded" -> "finished"
            [] r.status = "dead" -> "dead",
   tries |-> IF r.status = "processing" THEN r.attempts - 1 ELSE r.attempts]

\* The refinement mapping, job by job.
LEMMA QueuedJobRows ==
  /\ QueuedJob = [j \in Jobs |-> QueuedJobRow(job[j])]
  /\ QueuedJob' = [j \in Jobs |-> QueuedJobRow(job'[j])]
BY DEF QueuedJob, QueuedJobRow

\* A step that rewrites one job rewrites one item.
LEMMA OneJobMoves ==
  ASSUME NEW j \in Jobs, NEW row, PosterTypeOK, job' = [job EXCEPT ![j] = row]
  PROVE  QueuedJob' = [QueuedJob EXCEPT ![j] = QueuedJobRow(row)]
BY QueuedJobRows DEF PosterTypeOK

\* An item of the queue is of its type.
LEMMA QueuedItem ==
  ASSUME NEW j \in Jobs, PosterTypeOK, job' = [job EXCEPT ![j] = Queued],
         job[j].status \in {"none", "failed", "dead"}, job[j].status = "none" => job[j].attempts = 0
  PROVE  JobQueue!QueueNext
<1>1. QueuedJob' = [QueuedJob EXCEPT ![j] = [st |-> "waiting", tries |-> 0]]
  BY OneJobMoves DEF QueuedJobRow, Queued, JobRow
<1>2. CASE job[j].status = "none"
  <2>1. QueuedJob[j].st = "absent"
    BY <1>2, QueuedJobRows DEF QueuedJobRow
  <2>2. QueuedJob' = [i \in Jobs |-> IF i \in {j} THEN [st |-> "waiting", tries |-> 0] ELSE QueuedJob[i]]
    BY <1>1, QueuedJobRows
  <2>3. JobQueue!Put({j})
    BY <2>1, <2>2 DEF JobQueue!Put
  <2> QED BY <2>3 DEF JobQueue!QueueNext
<1>3. CASE job[j].status \in {"failed", "dead"}
  <2>1. QueuedJob[j].st \in {"waiting", "dead"}
    BY <1>3, QueuedJobRows DEF QueuedJobRow
  <2>2. JobQueue!Revive(j)
    BY <1>1, <2>1 DEF JobQueue!Revive, JobQueue!Step
  <2> QED BY <2>2 DEF JobQueue!QueueNext
<1> QED BY <1>2, <1>3

(***************************************************************************)
(* integration_jobs implement the abstract queue, every step of the        *)
(* workers, of the webhook and of an operator being a step of one item or  *)
(* of none (poster_worker.go).                                             *)
(***************************************************************************)
THEOREM PosterJobsImplementQueue == PosterSpec => JobsAreAQueue
<1>1. PosterInit => JobQueue!QueueInit
  <2> SUFFICES ASSUME PosterInit PROVE JobQueue!QueueInit
    OBVIOUS
  <2>1. QueuedJob = [j \in Jobs |-> [st |-> "absent", tries |-> 0]]
    BY QueuedJobRows DEF PosterInit, NoRow, JobRow, QueuedJobRow
  <2>2. 0 \in 0..MaxJobAttempts
    BY SMTT(30), PosterAssumption
  <2> QED BY <2>1, <2>2 DEF JobQueue!QueueInit
<1>2. PosterInv /\ [PosterNext]_posterVars => [JobQueue!QueueNext]_QueuedJob
  <2> SUFFICES ASSUME PosterInv, [PosterNext]_posterVars
               PROVE  JobQueue!QueueNext \/ QueuedJob' = QueuedJob
    OBVIOUS
  <2>t. PosterTypeOK /\ JobsTrue /\ JobsHeld
    BY DEF PosterInv
  <2>0. ASSUME job' = job PROVE QueuedJob' = QueuedJob
    BY <2>0, QueuedJobRows
  <2>1. ASSUME NEW j \in WebhookJobs, PosterWebhook(j) PROVE JobQueue!QueueNext
    <3>1. j \in Jobs /\ job[j].status = "none" /\ job[j].attempts = 0 /\ job' = [job EXCEPT ![j] = Queued]
      BY <2>1, <2>t, JobKinds DEF PosterWebhook, JobsTrue
    <3> QED BY <2>t, <3>1, QueuedItem
  <2>2. ASSUME NEW i \in Imports, QueueImport(i) PROVE JobQueue!QueueNext
    <3>1. PICK j \in Jobs : j = <<"manual", i>>
      BY JobKinds
    <3>2. job[j].status = "none" /\ job[j].attempts = 0 /\ job' = [job EXCEPT ![j] = Queued]
      BY <2>2, <2>t, <3>1 DEF QueueImport, JobsTrue
    <3> QED BY <2>t, <3>2, QueuedItem
  <2>3. ASSUME NEW w \in Runners, QueuePosterDaily(w) PROVE JobQueue!QueueNext \/ QueuedJob' = QueuedJob
    <3>1. PICK j \in Jobs : j = <<"daily", Day(tick)>>
      BY <2>t, DaysPass DEF PosterTypeOK
    <3>2. job' = IF DailyDue /\ job[j].status = "none" THEN [job EXCEPT ![j] = Queued] ELSE job
      BY <2>3, <3>1 DEF QueuePosterDaily
    <3>3. CASE DailyDue /\ job[j].status = "none"
      BY <2>t, <3>2, <3>3, QueuedItem DEF JobsTrue
    <3>4. CASE ~(DailyDue /\ job[j].status = "none")
      BY <2>0, <3>2, <3>4
    <3> QED BY <3>3, <3>4
  <2>4. ASSUME NEW j \in Jobs, IntegrationJobRetry(j) PROVE JobQueue!QueueNext
    BY <2>4, <2>t, QueuedItem DEF IntegrationJobRetry
  <2>5. ASSUME NEW w \in Runners, ClaimJob(w) PROVE JobQueue!QueueNext
    <3>1. PICK j \in Jobs :
            /\ job[j].status \in {"pending", "failed"}
            /\ job' = [job EXCEPT ![j] = JobRow("processing", job[j].attempts + 1)]
      BY <2>5, <2>t DEF ClaimJob, Claimable, PosterTypeOK
    <3>2. job[j].attempts \in Nat
      BY <2>t, PosterAssumption DEF PosterTypeOK
    <3>3. QueuedJob[j] = [st |-> "waiting", tries |-> job[j].attempts]
      BY <3>1, QueuedJobRows DEF QueuedJobRow
    <3>4. QueuedJobRow(JobRow("processing", job[j].attempts + 1)) = [st |-> "taken", tries |-> job[j].attempts]
      BY <3>2 DEF QueuedJobRow, JobRow
    <3>5. QueuedJob' = [QueuedJob EXCEPT ![j] = [st |-> "taken", tries |-> job[j].attempts]]
      BY <2>t, <3>1, <3>4, OneJobMoves
    <3>6. JobQueue!Take(j)
      BY <3>3, <3>5 DEF JobQueue!Take, JobQueue!Step
    <3> QED BY <3>6 DEF JobQueue!QueueNext
  <2>6. ASSUME NEW w \in Runners, FinishJob(w) \/ FailJob(w) PROVE JobQueue!QueueNext
    <3>1. PICK j \in Jobs : j = runner[w].job
      BY <2>6 DEF FinishJob, FailJob, PosterInv, RunnersTyped
    <3>2. /\ job[j].status = "processing" /\ job[j].attempts \in Nat /\ job[j].attempts >= 1
          /\ job[j].attempts <= MaxJobAttempts /\ MaxJobAttempts \in Nat
      BY <2>6, <2>t, <3>1, PosterAssumption DEF FinishJob, FailJob, Working, JobsHeld, JobsTrue, PosterTypeOK
    <3>3. PICK n \in Nat : n + 1 = job[j].attempts
      <4>1. job[j].attempts - 1 \in Nat /\ (job[j].attempts - 1) + 1 = job[j].attempts
        BY <3>2
      <4> QED BY <4>1
    <3>4. QueuedJob[j] = [st |-> "taken", tries |-> n]
      <4>1. job[j].attempts - 1 = n
        BY <3>3
      <4> QED BY <3>2, <4>1, QueuedJobRows DEF QueuedJobRow
    <3>5. CASE FinishJob(w)
      <4>1. job' = [job EXCEPT ![j] = JobRow("succeeded", n + 1)]
        BY <2>t, <3>1, <3>3, <3>5 DEF FinishJob, PosterTypeOK
      <4>2. QueuedJob' = [QueuedJob EXCEPT ![j] = [st |-> "finished", tries |-> n + 1]]
        BY <2>t, <4>1, OneJobMoves DEF QueuedJobRow, JobRow
      <4>3. JobQueue!Finish(j)
        BY <3>4, <4>2 DEF JobQueue!Finish, JobQueue!Step
      <4> QED BY <4>3 DEF JobQueue!QueueNext
    <3>6. CASE FailJob(w) /\ n + 1 < MaxJobAttempts
      <4>1. GivenUp(job[j]) = "failed"
        BY <3>2, <3>3, <3>6 DEF GivenUp
      <4>2. job' = [job EXCEPT ![j] = JobRow("failed", n + 1)]
        BY <2>t, <3>1, <3>3, <3>6, <4>1 DEF FailJob, PosterTypeOK
      <4>3. QueuedJob' = [QueuedJob EXCEPT ![j] = [st |-> "waiting", tries |-> n + 1]]
        BY <2>t, <4>2, OneJobMoves DEF QueuedJobRow, JobRow
      <4>4. JobQueue!GiveBack(j)
        BY <3>4, <3>6, <4>3 DEF JobQueue!GiveBack, JobQueue!Step
      <4> QED BY <4>4 DEF JobQueue!QueueNext
    <3>7. CASE FailJob(w) /\ n + 1 = MaxJobAttempts
      <4>1. GivenUp(job[j]) = "dead"
        BY <3>2, <3>3, <3>7 DEF GivenUp
      <4>2. job' = [job EXCEPT ![j] = JobRow("dead", n + 1)]
        BY <2>t, <3>1, <3>3, <3>7, <4>1 DEF FailJob, PosterTypeOK
      <4>3. QueuedJob' = [QueuedJob EXCEPT ![j] = [st |-> "dead", tries |-> n + 1]]
        BY <2>t, <4>2, OneJobMoves DEF QueuedJobRow, JobRow
      <4>4. JobQueue!Bury(j)
        BY <3>4, <3>7, <4>3 DEF JobQueue!Bury, JobQueue!Step
      <4> QED BY <4>4 DEF JobQueue!QueueNext
    <3>8. n + 1 < MaxJobAttempts \/ n + 1 = MaxJobAttempts
      BY <3>2, <3>3
    <3> QED BY <2>6, <3>5, <3>6, <3>7, <3>8
  <2>7. CASE job' = job
    BY <2>0, <2>7
  <2> QED
    BY ZenonT(30), <2>1, <2>2, <2>3, <2>4, <2>5, <2>6, <2>7
    DEF PosterNext, RunnerStep, PosterMoves, StaffRefund, FetchReceipt, AfterFetch, RecoverReceipt, RefundReceipt,
        IngestReceipt, MarkDelivery, FetchList, ImportReceipt, ConnectionHealth, FailDelivery, JobTrouble, LoseRunner,
        Tick, posterVars, jobVars
<1> QED BY <1>1, <1>2, PosterInvInit, PosterInvStep, PTL DEF PosterSpec, JobsAreAQueue, JobQueue!QueueSpec
=============================================================================
