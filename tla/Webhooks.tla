------------------------------ MODULE Webhooks -------------------------------
(***************************************************************************)
(* Outbound webhooks. Ingestion and refunds append outbox_events in their  *)
(* own transaction; every replica of the API runs the loop of              *)
(* StartIntegrationWorkers, which fans pending events out into             *)
(* webhook_deliveries, one per endpoint, and then posts one delivery.      *)
(*                                                                         *)
(* The worker claims a delivery, posts it, writes the delivery and then    *)
(* the health of the endpoint, in four calls between which other workers   *)
(* run and after any of which it may be lost. The claim has no lease. The  *)
(* third part of the loop, the Poster jobs, is module PosterSync.          *)
(***************************************************************************)
EXTENDS Integers, FiniteSets

CONSTANTS
  Events,         \* outbox events of one company
  Endpoints,      \* its outbound endpoints
  Subscribed,     \* pairs of an endpoint and an event its event_types admit
  Senders,        \* workers, one in each replica
  MaxDeliveries,  \* webhook_deliveries.max_attempts
  FailureLimit,   \* failures in a row that put an endpoint in error (20)
  MaxSenderFaults \* bound on workers lost

ASSUME WebhooksAssumption ==
  /\ IsFiniteSet(Events) /\ IsFiniteSet(Endpoints) /\ IsFiniteSet(Senders)
  /\ Subscribed \subseteq Endpoints \X Events
  /\ MaxDeliveries \in Nat \ {0}
  /\ FailureLimit \in Nat \ {0}
  /\ MaxSenderFaults \in Nat

VARIABLES
  outbox,        \* outbox_events.status
  endpoint,      \* webhook_endpoints: status and failure_count
  delivery,      \* webhook_deliveries of each endpoint and event
  sender,        \* what each worker is doing
  received,      \* how often the endpoint really got the event
  unsent,        \* deliveries whose worker was lost while it had them
  senderFaults   \* workers lost so far

outVars == <<outbox, endpoint, delivery, sender, received, unsent, senderFaults>>

Pairs == Endpoints \X Events
NoPair == <<"none", "none">>
Looping(at) == [at |-> at, pair |-> NoPair, ok |-> FALSE]
NoDelivery == [status |-> "none", attempts |-> 0]

OutInit ==
  /\ outbox = [e \in Events |-> "none"]
  /\ endpoint = [p \in Endpoints |-> [status |-> "absent", failures |-> 0]]
  /\ delivery = [d \in Pairs |-> NoDelivery]
  /\ sender = [w \in Senders |-> Looping("fanout")]
  /\ received = [d \in Pairs |-> 0]
  /\ unsent = {}
  /\ senderFaults = 0

(***************************************************************************)
(* The requests: createOutboundWebhook, and appendOutbox within Ingest and *)
(* Refund.                                                                 *)
(***************************************************************************)
CreateOutboundWebhook(p) ==
  /\ endpoint[p].status = "absent"
  /\ endpoint' = [endpoint EXCEPT ![p] = [status |-> "active", failures |-> 0]]
  /\ UNCHANGED <<outbox, delivery, sender, received, unsent, senderFaults>>

AppendOutbox(e) ==
  /\ outbox[e] = "none"
  /\ outbox' = [outbox EXCEPT ![e] = "pending"]
  /\ UNCHANGED <<endpoint, delivery, sender, received, unsent, senderFaults>>

(***************************************************************************)
(* fanoutOutbox: one transaction; ON CONFLICT DO NOTHING keeps a delivery  *)
(* that exists.                                                            *)
(***************************************************************************)
FannedOut(d) ==
  /\ outbox[d[2]] = "pending"
  /\ endpoint[d[1]].status = "active"
  /\ d \in Subscribed
  /\ delivery[d].status = "none"

FanoutOutbox(w) ==
  /\ sender[w].at = "fanout"
  /\ delivery' = [d \in Pairs |->
       IF FannedOut(d) THEN [status |-> "pending", attempts |-> 0] ELSE delivery[d]]
  /\ outbox' = [e \in Events |-> IF outbox[e] = "pending" THEN "sent" ELSE outbox[e]]
  /\ sender' = [sender EXCEPT ![w] = Looping("deliver")]
  /\ UNCHANGED <<endpoint, received, unsent, senderFaults>>

(***************************************************************************)
(* deliverNextWebhook: the claim, with SKIP LOCKED. next_attempt_at is     *)
(* left out: the backoff may be over at any later step.                    *)
(***************************************************************************)
\* A claim that forgets the deliveries that failed.
DeliverablePendingOnly(d) ==
  /\ delivery[d].status = "pending"
  /\ endpoint[d[1]].status = "active"

\* A claim that takes rows in processing, as one with a lease would.
DeliverableInProcessing(d) ==
  /\ delivery[d].status \in {"pending", "failed", "processing"}
  /\ endpoint[d[1]].status = "active"

Deliverable(d) ==
  /\ delivery[d].status \in {"pending", "failed"}
  /\ endpoint[d[1]].status = "active"

ClaimDelivery(w) ==
  /\ sender[w].at = "deliver"
  /\ \/ \E d \in Pairs :
          /\ Deliverable(d)
          /\ delivery' = [delivery EXCEPT ![d] = [status |-> "processing", attempts |-> @.attempts]]
          /\ sender' = [sender EXCEPT ![w] = [at |-> "post", pair |-> d, ok |-> FALSE]]
     \/ /\ ~ \E d \in Pairs : Deliverable(d)
        /\ sender' = [sender EXCEPT ![w] = Looping("fanout")]
        /\ UNCHANGED delivery
  /\ UNCHANGED <<outbox, endpoint, received, unsent, senderFaults>>

(***************************************************************************)
(* The POST: it may not be sent (secret, address), be lost on the way, be  *)
(* received and answered 2xx or otherwise, or received with the answer     *)
(* lost. got is whether the endpoint has it, ok whether the worker saw a   *)
(* 2xx.                                                                    *)
(***************************************************************************)
PostWebhook(w) ==
  /\ sender[w].at = "post"
  /\ \E got \in BOOLEAN : \E ok \in {FALSE, got} :
       /\ received' = IF got THEN [received EXCEPT ![sender[w].pair] = @ + 1] ELSE received
       /\ sender' = [sender EXCEPT ![w] = [at |-> "record", pair |-> @.pair, ok |-> ok]]
  /\ UNCHANGED <<outbox, endpoint, delivery, unsent, senderFaults>>

(***************************************************************************)
(* The row after the attempt: succeeded, or as failWebhookDelivery writes  *)
(* it.                                                                     *)
(***************************************************************************)
AfterAttemptOneTooMany(row, ok) ==
  LET n == row.attempts + 1 IN
  [status |-> IF ok THEN "succeeded" ELSE IF n > MaxDeliveries THEN "dead" ELSE "failed",
   attempts |-> n]

AfterAttemptUncounted(row, ok) ==
  [status |-> IF ok THEN "succeeded" ELSE "failed", attempts |-> row.attempts]

AfterAttempt(row, ok) ==
  LET n == row.attempts + 1 IN
  [status |-> IF ok THEN "succeeded" ELSE IF n >= MaxDeliveries THEN "dead" ELSE "failed",
   attempts |-> n]

RecordDelivery(w) ==
  /\ sender[w].at = "record"
  /\ delivery' = [delivery EXCEPT ![sender[w].pair] = AfterAttempt(@, sender[w].ok)]
  /\ sender' = [sender EXCEPT ![w] = [at |-> "health", pair |-> @.pair, ok |-> @.ok]]
  /\ UNCHANGED <<outbox, endpoint, received, unsent, senderFaults>>

HealthOneEarly(row, ok) ==
  IF ok THEN [status |-> row.status, failures |-> 0]
  ELSE [status |-> IF row.failures + 2 >= FailureLimit THEN "error" ELSE row.status,
        failures |-> row.failures + 1]

Health(row, ok) ==
  IF ok THEN [status |-> row.status, failures |-> 0]
  ELSE [status |-> IF row.failures + 1 >= FailureLimit THEN "error" ELSE row.status,
        failures |-> row.failures + 1]

RecordHealth(w) ==
  /\ sender[w].at = "health"
  /\ endpoint' = [endpoint EXCEPT ![sender[w].pair[1]] = Health(@, sender[w].ok)]
  /\ sender' = [sender EXCEPT ![w] = Looping("fanout")]
  /\ UNCHANGED <<outbox, delivery, received, unsent, senderFaults>>

(***************************************************************************)
(* A worker is lost, or the database call it makes fails: a transaction is *)
(* rolled back, a row it had claimed stays in processing.                  *)
(***************************************************************************)
Holds(w, d) == sender[w].at \in {"post", "record"} /\ sender[w].pair = d

LoseSender(w) ==
  /\ senderFaults < MaxSenderFaults
  /\ senderFaults' = senderFaults + 1
  /\ unsent' = unsent \cup {d \in Pairs : Holds(w, d)}
  /\ sender' = [sender EXCEPT ![w] = Looping("fanout")]
  /\ UNCHANGED <<outbox, endpoint, delivery, received>>

SenderStep(w) ==
  \/ FanoutOutbox(w)
  \/ ClaimDelivery(w)
  \/ PostWebhook(w)
  \/ RecordDelivery(w)
  \/ RecordHealth(w)

OutNext ==
  \/ \E p \in Endpoints : CreateOutboundWebhook(p)
  \/ \E e \in Events : AppendOutbox(e)
  \/ \E w \in Senders : SenderStep(w) \/ LoseSender(w)

(***************************************************************************)
(* The loop of StartIntegrationWorkers never ends, so a worker that can    *)
(* step does. Requests and losses are not fair.                            *)
(***************************************************************************)
OutFairness == \A w \in Senders : WF_outVars(SenderStep(w))

OutSpec == OutInit /\ [][OutNext]_outVars /\ OutFairness

-----------------------------------------------------------------------------
\* Every row and every worker has its type.
OutTypeOK ==
  /\ outbox \in [Events -> {"none", "pending", "sent"}]
  /\ endpoint \in [Endpoints -> [status : {"absent", "active", "error"}, failures : Nat]]
  /\ delivery \in [Pairs -> [status : {"none", "pending", "processing", "failed", "succeeded", "dead"},
                             attempts : 0..MaxDeliveries]]
  /\ sender \in [Senders -> [at : {"fanout", "deliver", "post", "record", "health"},
                             pair : Pairs \cup {NoPair}, ok : BOOLEAN]]
  /\ received \in [Pairs -> Nat]
  /\ unsent \subseteq Pairs
  /\ senderFaults \in 0..MaxSenderFaults

(***************************************************************************)
(* The delivery log tells the truth about the endpoint: a delivery marked  *)
(* succeeded was received, and an endpoint never gets an event more often  *)
(* than the log has attempts, one more while an attempt is not recorded.   *)
(***************************************************************************)
LogCoversReceipts ==
  \A d \in Pairs :
    /\ delivery[d].status = "succeeded" => received[d] > 0
    /\ received[d] <= delivery[d].attempts + (IF delivery[d].status = "processing" THEN 1 ELSE 0)

(***************************************************************************)
(* A delivery in processing is in the hands of exactly one worker, or its  *)
(* worker was lost; nothing else leaves a delivery behind.                 *)
(***************************************************************************)
AbandonedOnlyByLoss ==
  \A d \in Pairs :
    delivery[d].status = "processing" =>
      IF d \in unsent THEN ~ \E w \in Senders : Holds(w, d)
      ELSE Cardinality({w \in Senders : Holds(w, d)}) = 1

\* The attempts the log has of an endpoint, one by one.
AttemptsOn(p) == {x \in Pairs \X (1..MaxDeliveries) : x[1][1] = p /\ x[2] <= delivery[x[1]].attempts}

(***************************************************************************)
(* failWebhookDelivery puts an endpoint in error only after FailureLimit   *)
(* attempts on it failed, whichever workers made them and in whatever      *)
(* order they wrote the count.                                             *)
(***************************************************************************)
ErrorOnlyAfterFailures ==
  \A p \in Endpoints :
    endpoint[p].status = "error" =>
      Cardinality(AttemptsOn(p)) >= FailureLimit

(***************************************************************************)
(* With fair workers a delivery does not wait for ever: it succeeds or is  *)
(* dead, unless its endpoint went into error or its worker was lost.       *)
(***************************************************************************)
DeliverySettles ==
  \A d \in Pairs :
    delivery[d].status = "pending" ~>
      \/ delivery[d].status \in {"succeeded", "dead"}
      \/ endpoint[d[1]].status = "error"
      \/ d \in unsent

(***************************************************************************)
(* webhook_deliveries as the abstract queue: a row counts its attempt when *)
(* the attempt is recorded.                                                *)
(***************************************************************************)
QueuedDelivery == [d \in Pairs |->
  [st |-> CASE delivery[d].status = "none" -> "absent"
            [] delivery[d].status \in {"pending", "failed"} -> "waiting"
            [] delivery[d].status = "processing" -> "taken"
            [] delivery[d].status = "succeeded" -> "finished"
            [] delivery[d].status = "dead" -> "dead",
   tries |-> delivery[d].attempts]]

DeliveryQueue == INSTANCE WorkQueue WITH Items <- Pairs, MaxTries <- MaxDeliveries, item <- QueuedDelivery

\* The deliveries implement the work queue: put once, taken by one worker, bounded attempts, no way back.
DeliveriesAreAQueue == DeliveryQueue!QueueSpec

(***************************************************************************)
(* Whichever workers overlap, fail or are lost, the rows account for the   *)
(* deliveries: none is left behind except by a lost worker, the log covers *)
(* what the endpoint got, and only failures put it in error.               *)
(***************************************************************************)
DeliveriesAccounted ==
  /\ OutTypeOK
  /\ AbandonedOnlyByLoss
  /\ LogCoversReceipts
  /\ ErrorOnlyAfterFailures
=============================================================================
