---------------------------- MODULE Partnerships -----------------------------
(***************************************************************************)
(* Two companies' partnership: invited, approved, an offer made, and the   *)
(* offer's code redeemed for a receipt of the one company by a customer of *)
(* the other (redeemPartnershipOffer). The redeeming transaction locks the *)
(* offer and the customer, but reads the receipt without a lock.           *)
(*                                                                         *)
(* One offer. Points are counted in the offer's reward.                    *)
(***************************************************************************)
EXTENDS Integers, FiniteSets

CONSTANTS
  Redeemers,        \* requests
  Tills,            \* receipts of the offering company
  Friends,          \* customers of the rewarding company
  MaxRedemptions,   \* of the offer
  MaxPerCustomer    \* of the offer

ASSUME PartnershipsAssumption == {MaxRedemptions, MaxPerCustomer} \subseteq Nat \ {0}

VARIABLES
  partnership,  \* business_partnerships.status
  offer,        \* partnership_offers: none, active or ended
  receipt,      \* sales_transactions.status of each receipt
  redemption,   \* partnership_redemptions
  credit,       \* bonus_ledger rows of partners, by customer
  redeemer,     \* the transactions at work
  belated       \* history: receipts refunded under a redemption

partVars == <<partnership, offer, receipt, redemption, credit, redeemer, belated>>

Unoccupied == [at |-> "idle", till |-> "none", friend |-> "none", key |-> "none"]
GoOn(q, at) == [at |-> at, till |-> redeemer[q].till, friend |-> redeemer[q].friend, key |-> redeemer[q].key]

PartInit ==
  /\ partnership = "none" /\ offer = "none"
  /\ receipt = [t \in Tills |-> "completed"]
  /\ redemption = {}
  /\ credit = [f \in Friends |-> 0]
  /\ redeemer = [q \in Redeemers |-> Unoccupied]
  /\ belated = {}

\* createPartnership, approvePartnership, createPartnershipOffer, and the end of the offer.
Arrange ==
  /\ \/ partnership = "none" /\ partnership' = "pending" /\ UNCHANGED offer
     \/ partnership = "pending" /\ partnership' = "active" /\ UNCHANGED offer
     \/ partnership = "active" /\ offer = "none" /\ offer' = "active" /\ UNCHANGED partnership
     \/ offer = "active" /\ offer' = "ended" /\ UNCHANGED partnership
  /\ UNCHANGED <<receipt, redemption, credit, redeemer, belated>>

LockTaken == \E q \in Redeemers : redeemer[q].at # "idle"
LockFreeAlways == TRUE

\* SELECT ... FOR UPDATE.
OfferUnlocked == ~LockTaken

LockOffer(q, till, friend, key) ==
  /\ redeemer[q].at = "idle"
  /\ OfferUnlocked
  /\ offer = "active" /\ partnership = "active"
  /\ redeemer' = [redeemer EXCEPT ![q] = [at |-> "receipt", till |-> till, friend |-> friend, key |-> key]]
  /\ UNCHANGED <<partnership, offer, receipt, redemption, credit, belated>>

QualifiesOnceSold(till) == TRUE

\* A receipt that is not refunded in full, and of the minimum amount.
Qualifies(till) == receipt[till] \in {"completed", "partially_refunded"}

CheckReceipt(q) ==
  /\ redeemer[q].at = "receipt"
  /\ redeemer' = [redeemer EXCEPT ![q] = IF Qualifies(@.till) THEN GoOn(q, "count") ELSE Unoccupied]
  /\ UNCHANGED <<partnership, offer, receipt, redemption, credit, belated>>

\* The customer is locked; the offer's redemptions are counted.
CountRedemptions(q) ==
  LET within == /\ Cardinality(redemption) < MaxRedemptions
                /\ Cardinality({x \in redemption : x.friend = redeemer[q].friend}) < MaxPerCustomer
  IN /\ redeemer[q].at = "count"
     /\ redeemer' = [redeemer EXCEPT ![q] = IF within THEN GoOn(q, "redeem") ELSE Unoccupied]
     /\ UNCHANGED <<partnership, offer, receipt, redemption, credit, belated>>

Repeated(x) == \E y \in redemption : y.key = x.key \/ (y.till = x.till /\ y.friend = x.friend)

RedeemKeepsCredit(q) ==
  LET x == [till |-> redeemer[q].till, friend |-> redeemer[q].friend, key |-> redeemer[q].key] IN
  /\ redeemer[q].at = "redeem"
  /\ credit' = [credit EXCEPT ![x.friend] = @ + 1]
  /\ redemption' = IF Repeated(x) THEN redemption ELSE redemption \cup {x}
  /\ redeemer' = [redeemer EXCEPT ![q] = Unoccupied]
  /\ UNCHANGED <<partnership, offer, receipt, belated>>

\* Ledger, lot, balance and redemption; a key or receipt used before rolls them back.
Redeem(q) ==
  LET x == [till |-> redeemer[q].till, friend |-> redeemer[q].friend, key |-> redeemer[q].key] IN
  /\ redeemer[q].at = "redeem"
  /\ IF Repeated(x) THEN UNCHANGED <<credit, redemption>>
     ELSE credit' = [credit EXCEPT ![x.friend] = @ + 1] /\ redemption' = redemption \cup {x}
  /\ redeemer' = [redeemer EXCEPT ![q] = Unoccupied]
  /\ UNCHANGED <<partnership, offer, receipt, belated>>

\* The receipt is refunded, in part or in full; nothing takes a redemption back.
RefundTill(t) ==
  /\ receipt[t] # "refunded"
  /\ \E status \in {"partially_refunded", "refunded"} :
       /\ receipt' = [receipt EXCEPT ![t] = status]
       /\ belated' = IF status = "refunded" /\ \E q \in Redeemers : redeemer[q].till = t
                     THEN belated \cup {t} ELSE belated
  /\ UNCHANGED <<partnership, offer, redemption, credit, redeemer>>

\* A request after the offer's end finds no offer.
RedeemRefused(q) ==
  /\ redeemer[q].at = "idle"
  /\ offer # "active"
  /\ UNCHANGED partVars

PartNext ==
  \/ Arrange
  \/ \E q \in Redeemers :
       \/ \E till \in Tills, friend \in Friends, key \in {"k1", "k2"} : LockOffer(q, till, friend, key)
       \/ CheckReceipt(q) \/ CountRedemptions(q) \/ Redeem(q) \/ RedeemRefused(q)
  \/ \E t \in Tills : RefundTill(t)

PartSpec == PartInit /\ [][PartNext]_partVars

-----------------------------------------------------------------------------
\* The offer's limits hold exactly, whatever requests overlap (redeemPartnershipOffer).
RedemptionLimitsHeld ==
  /\ Cardinality(redemption) <= MaxRedemptions
  /\ \A f \in Friends : Cardinality({x \in redemption : x.friend = f}) <= MaxPerCustomer

\* A customer has one credit for each redemption, and none for a request that was rolled back.
CreditPerRedemption ==
  \A f \in Friends : credit[f] = Cardinality({x \in redemption : x.friend = f})

\* No code is redeemed for a receipt refunded in full before, unless the refund came after the receipt was read.
RefundedNotRedeemed ==
  [][\A x \in redemption' \ redemption : receipt[x.till] = "refunded" => x.till \in belated]_partVars

(***************************************************************************)
(* Redemptions that overlap each other and refunds stay within both limits *)
(* of the offer, credit once each, and never rest on a receipt refunded    *)
(* before it was read.                                                     *)
(***************************************************************************)
RedemptionsExact ==
  /\ []RedemptionLimitsHeld
  /\ []CreditPerRedemption
  /\ RefundedNotRedeemed
=============================================================================
