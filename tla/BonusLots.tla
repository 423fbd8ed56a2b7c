------------------------------ MODULE BonusLots ------------------------------
(***************************************************************************)
(* The bonus account of one customer, as every handler of the API writes   *)
(* it: customers.total_points (the read model), bonus_ledger (the history  *)
(* of credits and debits), bonus_lots (which credited points are still     *)
(* unspent) and bonus_lot_redemptions (which lot paid for which debit).    *)
(*                                                                         *)
(* Definitions named after a mistake (CreditWithoutLot next to Credit) are *)
(* deliberately wrong variants: no specification uses them, and putting    *)
(* one in place of the definition it stands next to must break a property. *)
(*                                                                         *)
(* This module has no variables.  Its operators take an account and return *)
(* the account after the writes of one database transaction, so that the   *)
(* state machines that share the account (BonusDesk, Receipts) share its   *)
(* code as the handlers share internal/integration/service.go.             *)
(*                                                                         *)
(* Time is the transaction timestamp: PostgreSQL's now() is the moment the *)
(* transaction began, and created_at, issued_at and activates_at default   *)
(* to it.  A lot is identified by the timestamp of the transaction that    *)
(* issued it (no handler issues two lots to one customer in a transaction).*)
(***************************************************************************)
EXTENDS Integers, Sequences, FiniteSets, FiniteSetsExt, TLC

CONSTANT Opening    \* points the customer had when bonus_lots was introduced

ASSUME OpeningAssumption == Opening \in Nat

(***************************************************************************)
(* Migration 000025 turns the points of an existing customer into one      *)
(* opening lot; its source_ledger_id is NULL.                              *)
(***************************************************************************)
EmptyFunction == [x \in {} |-> 0]

NewAccount ==
  [points      |-> Opening,
   ledger      |-> << >>,
   lots        |-> IF Opening = 0
                   THEN EmptyFunction
                   ELSE [t \in {0} |-> [issued |-> Opening, remaining |-> Opening]],
   redemptions |-> EmptyFunction]

(***************************************************************************)
(* status is a function of the amounts here: 'active' while something      *)
(* remains, 'redeemed' when nothing does.  No code sets expires_at.        *)
(***************************************************************************)
LotStatusPartlyUsedIsClosed(lot) ==
  IF lot.remaining < lot.issued THEN "redeemed" ELSE "active"

LotStatus(lot) == IF lot.remaining = 0 THEN "redeemed" ELSE "active"

\* The sum of a function's values, over a part of its domain and over all of it.
SumOver(f, S) == MapThenSumSet(LAMBDA x : f[x], S)

Total(f) == SumOver(f, DOMAIN f)

-----------------------------------------------------------------------------
(* ConsumeBonusLots *)

\* The lots the SELECT ... FOR UPDATE of a transaction that began at now returns.
Consumable(lots, now) ==
  {t \in DOMAIN lots : t <= now /\ LotStatus(lots[t]) = "active"}

(***************************************************************************)
(* What the loop takes from each lot: the oldest first, no lot before the  *)
(* older ones are empty.  The set has one element when the lots suffice    *)
(* and is empty when they do not ("active bonus lots are insufficient").   *)
(***************************************************************************)
FifoSplits(lots, now, amount) ==
  {used \in [Consumable(lots, now) -> 0..amount] :
     /\ \A t \in DOMAIN used : used[t] <= lots[t].remaining
     /\ \A s, t \in DOMAIN used :
          s < t /\ used[t] > 0 => used[s] = lots[s].remaining
     /\ Total(used) = amount}

LotsSuffice(lots, now, amount) == FifoSplits(lots, now, amount) # {}

ConsumeOneTooMany(lots, used) ==
  [t \in DOMAIN lots |->
     IF t \in DOMAIN used
     THEN [lots[t] EXCEPT !.remaining = @ - used[t] - 1]
     ELSE lots[t]]

Consume(lots, used) ==
  [t \in DOMAIN lots |->
     IF t \in DOMAIN used
     THEN [issued |-> lots[t].issued, remaining |-> lots[t].remaining - used[t]]
     ELSE lots[t]]

RedeemOldestOnly(redemptions, used, row) ==
  LET touched == {<<t, row>> : t \in {Min({u \in DOMAIN used : used[u] > 0})}}
  IN  [p \in DOMAIN redemptions \cup touched |->
         IF p \in touched THEN used[p[1]] ELSE redemptions[p]]

\* One bonus_lot_redemptions row per lot touched, keyed by lot and ledger row.
Redeem(redemptions, used, row) ==
  LET touched == {<<t, row>> : t \in {u \in DOMAIN used : used[u] > 0}}
  IN  [p \in DOMAIN redemptions \cup touched |->
         IF p \in touched THEN used[p[1]] ELSE redemptions[p]]

-----------------------------------------------------------------------------
(* The two ledger operations.  row carries src (the handler), ref (the id  *)
(* in its idempotency key), by (created_by) and at (the timestamp).        *)

LedgerRow(op, amount, after, row) ==
  [op |-> op, amount |-> amount, after |-> after,
   src |-> row.src, ref |-> row.ref, by |-> row.by, at |-> row.at,
   committed |-> row.committed]

IssueBonusLot(lots, now, amount) ==
  [t \in DOMAIN lots \cup {now} |->
     IF t = now THEN [issued |-> amount, remaining |-> amount] ELSE lots[t]]

CreditRecordsOldBalance(a, amount, row) ==
  [a EXCEPT !.points = @ + amount,
            !.ledger = Append(@, LedgerRow("credit", amount, a.points, row)),
            !.lots   = IssueBonusLot(@, row.at, amount)]

CreditWithoutLot(a, amount, row) ==
  [a EXCEPT !.points = @ + amount,
            !.ledger = Append(@, LedgerRow("credit", amount, a.points + amount, row))]

Credit(a, amount, row) ==
  [points      |-> a.points + amount,
   ledger      |-> Append(a.ledger, LedgerRow("credit", amount, a.points + amount, row)),
   lots        |-> IssueBonusLot(a.lots, row.at, amount),
   redemptions |-> a.redemptions]

\* The checks a debit makes under the customer lock: the balance, then the lots.
CanDebit(a, amount, now) ==
  /\ a.points >= amount
  /\ LotsSuffice(a.lots, now, amount)

Debit(a, amount, row) ==
  LET used == CHOOSE u \in FifoSplits(a.lots, row.at, amount) : TRUE
  IN  [points      |-> a.points - amount,
       ledger      |-> Append(a.ledger, LedgerRow("debit", amount, a.points - amount, row)),
       lots        |-> Consume(a.lots, used),
       redemptions |-> Redeem(a.redemptions, used, Len(a.ledger) + 1)]

-----------------------------------------------------------------------------
(* restoreBonusLots: the points a refund gives back return to the lots     *)
(* they were taken from.  A redemption's value is what is still redeemed   *)
(* (redeemed_amount - restored_amount); row.ref is the sale of a ledger row.*)

Redeemed(a, sale) ==
  {p \in DOMAIN a.redemptions : a.ledger[p[2]].ref = sale /\ a.redemptions[p] > 0}

RestoreSplitsUnbounded(a, sale, amount) ==
  {back \in [Redeemed(a, sale) -> 0..amount] : Total(back) = amount}

(***************************************************************************)
(* What the loop gives back to each redemption.  Those of one debit have   *)
(* the same created_at, so their order is the order of random ids: any one *)
(* of them may be the one that is restored in part.                        *)
(***************************************************************************)
RestoreSplits(a, sale, amount) ==
  LET open == Redeemed(a, sale)
  IN  {back \in [open -> 0..amount] :
         /\ \A p \in open : back[p] <= a.redemptions[p]
         /\ Cardinality({p \in open : back[p] \in 1..(a.redemptions[p] - 1)}) <= 1
         /\ Total(back) =
              Min({amount, SumOver(a.redemptions, open)})}

ReturnToLots(lots, back) ==
  [t \in DOMAIN lots |->
     [issued    |-> lots[t].issued,
      remaining |-> lots[t].remaining + SumOver(back, {p \in DOMAIN back : p[1] = t})]]

RestoreAsNewLot(a, amount, row, back) == Credit(a, amount, row)

RestoreLedgerOnly(a, amount, row, back) ==
  [a EXCEPT !.points = @ + amount,
            !.ledger = Append(@, LedgerRow("credit", amount, a.points + amount, row))]

\* What no redemption accounts for becomes a lot of its own.
Restore(a, amount, row, back) ==
  LET left == amount - Total(back)
      lots == ReturnToLots(a.lots, back)
  IN  [points      |-> a.points + amount,
       ledger      |-> Append(a.ledger, LedgerRow("credit", amount, a.points + amount, row)),
       lots        |-> IF left > 0 THEN IssueBonusLot(lots, row.at, left) ELSE lots,
       redemptions |-> [p \in DOMAIN a.redemptions |->
                          IF p \in DOMAIN back
                          THEN a.redemptions[p] - back[p]
                          ELSE a.redemptions[p]]]

-----------------------------------------------------------------------------
(* What an account must satisfy after every transaction. *)

\* The shape of an account whose ledger rows are in Rows and lots issued in Times.
IsAccount(a, Rows, Times) ==
  /\ a.points \in Nat
  /\ a.ledger \in Seq(Rows)
  /\ DOMAIN a.lots \subseteq Times
  /\ \A t \in DOMAIN a.lots :
       /\ a.lots[t].issued \in Nat
       /\ a.lots[t].remaining \in 0..a.lots[t].issued

Signed(r) == IF r.op = "credit" THEN r.amount ELSE -r.amount

BalanceBefore(ledger, i) == IF i = 1 THEN Opening ELSE ledger[i - 1].after

\* The balance the ledger alone gives.
LedgerBalance(a) ==
  IF a.ledger = << >> THEN Opening ELSE a.ledger[Len(a.ledger)].after

(***************************************************************************)
(* Every row's balance_after follows from the row before it, and           *)
(* total_points is the last one: the ledger explains the balance.          *)
(***************************************************************************)
LedgerExplains(a) ==
  /\ \A i \in 1..Len(a.ledger) :
       a.ledger[i].after = BalanceBefore(a.ledger, i) + Signed(a.ledger[i])
  /\ a.points = LedgerBalance(a)

\* The points a customer holds are exactly the unspent part of the lots.
LotsBack(a) ==
  a.points = Total([t \in DOMAIN a.lots |-> a.lots[t].remaining])

(***************************************************************************)
(* Every debit is paid in full by lots issued no later than it, and a lot  *)
(* has lost exactly what the debits took from it.                          *)
(***************************************************************************)
Attributed(a) ==
  /\ \A i \in 1..Len(a.ledger) : a.ledger[i].op = "debit" =>
       a.ledger[i].amount =
         SumOver(a.redemptions, {p \in DOMAIN a.redemptions : p[2] = i})
  /\ \A t \in DOMAIN a.lots :
       a.lots[t].issued = a.lots[t].remaining +
         SumOver(a.redemptions, {p \in DOMAIN a.redemptions : p[1] = t})
  /\ \A p \in DOMAIN a.redemptions : p[1] <= a.ledger[p[2]].at
=============================================================================
