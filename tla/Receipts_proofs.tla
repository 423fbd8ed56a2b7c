--------------------------- MODULE Receipts_proofs ---------------------------
(***************************************************************************)
(* What is proved of receipts, refunds and the referral program.           *)
(*                                                                         *)
(* The first part carries the accounts, the sales and the visits through   *)
(* every step (Books); the second the referral rewards, row by row of the  *)
(* ledgers (Referrals); the third the count behind the limit of rewards    *)
(* per referrer (Limits); the fourth what each sale's refunds gave back    *)
(* and took back of its points (Points).  All three use Books, and Limits  *)
(* uses Referrals as well.                                                 *)
(***************************************************************************)
EXTENDS Receipts, BonusLots_proofs

(* The invariant of the accounts, the sales and the visits. *)

(***************************************************************************)
(* An account as every transaction leaves it.                              *)
(***************************************************************************)
AccountOK(a) == IsAccount(a, RowType, Time) /\ LedgerExplains(a) /\ Kept(a)

(***************************************************************************)
(* The request of a slot names what it read, and the sale it refunds is    *)
(* still there with the amount it was checked against.                     *)
(***************************************************************************)
RequestOK(q) ==
  /\ q.kind \in {"idle", "ingest", "refund", "pay"}
  /\ q.at \in 0..clock
  /\ "saw" \in DOMAIN q /\ q.saw \in Nat \cup {Never}
  /\ q.kind = "ingest" => q.what \in PosReceipts
  /\ q.kind = "refund" => /\ q.what.original \in DOMAIN sales
                          /\ q.what.ext \in RefundIds
                          /\ q.what.amount \in 1..sales[q.what.original].net
  /\ q.kind = "pay" => q.what \in DOMAIN rewards

(***************************************************************************)
(* The transactions that may issue a lot under the timestamp they began    *)
(* with; the worker issues under the next one.                             *)
(***************************************************************************)
Writes(q) == q.kind \in {"ingest", "refund"}

(***************************************************************************)
(* No two of them share a timestamp, no account has a lot under one, and   *)
(* no lot is younger than the clock: a new lot never replaces another.     *)
(***************************************************************************)
StampsFresh ==
  /\ \A s, u \in Slots : Writes(req[s]) /\ Writes(req[u]) /\ req[s].at = req[u].at => s = u
  /\ \A s \in Slots, c \in Customers : Writes(req[s]) => req[s].at \notin DOMAIN account[c].lots
  /\ \A c \in Customers : DOMAIN account[c].lots \subseteq 0..clock

(***************************************************************************)
(* A sale reverses another one that is there, and what Refund writes is    *)
(* counted among the refunds of its original from then on.                 *)
(***************************************************************************)
SalesOK ==
  /\ IsFiniteSet(DOMAIN sales)
  /\ \A id \in DOMAIN sales :
       /\ sales[id].original \in (DOMAIN sales \ {id}) \cup {NoSale}
       /\ sales[id].source = "refund" =>
            sales[id].status \in {"refunded", "partially_refunded"}

(***************************************************************************)
(* The inductive invariant of the accounts, the sales and the visits.      *)
(***************************************************************************)
Books ==
  /\ TypeOK
  /\ DOMAIN account = Customers
  /\ DOMAIN req = Slots
  /\ \A c \in Customers : AccountOK(account[c])
  /\ \A s \in Slots : RequestOK(req[s])
  /\ \A k \in DOMAIN rewards : RewardValue(k[2]) > 0
  /\ StampsFresh
  /\ SalesOK
  /\ RefundsWithinSale
  /\ VisitsCounted

-----------------------------------------------------------------------------
(* The invariant of the referral rewards. *)

RewardOf(c, f) == <<f, IF c = Referrer THEN "referrer" ELSE "friend">>

Programme == {"referral", "referral_reversal"}

(***************************************************************************)
(* A ledger row of the referral program names a reward of its account that *)
(* is no longer pending; a payment is the reward's value, and a recovery   *)
(* takes no more than that after it.                                       *)
(***************************************************************************)
RowTrue(c, ledger, i) ==
  LET r == ledger[i]
      k == RewardOf(c, r.by)
  IN  /\ c \in {r.by, Referrer} /\ k \in DOMAIN rewards /\ rewards[k].status # "pending"
      /\ r.src = "referral" => r.amount = RewardValue(k[2])
      /\ r.src = "referral_reversal" =>
           /\ r.amount <= RewardValue(k[2])
           /\ \E j \in 1..(i - 1) : ledger[j].src = "referral" /\ ledger[j].by = r.by

RowsTrue ==
  \A c \in Customers : \A i \in 1..Len(account[c].ledger) :
    account[c].ledger[i].src \in Programme => RowTrue(c, account[c].ledger, i)

(***************************************************************************)
(* The idempotency keys: one payment and one recovery per account and      *)
(* friend.                                                                 *)
(***************************************************************************)
OneRowPerKey ==
  \A c \in Customers : \A i, j \in 1..Len(account[c].ledger) :
    LET r == account[c].ledger[i]
        q == account[c].ledger[j]
    IN  r.src \in Programme /\ r.src = q.src /\ r.by = q.by => i = j

(***************************************************************************)
(* A friend with rewards has qualified, a reversed referral has no reward  *)
(* pending, and a worker that holds a reward of one read it before.        *)
(***************************************************************************)
ReversalsFinal ==
  /\ \A k \in DOMAIN rewards :
       /\ attribution[k[1]].status # "registered"
       /\ attribution[k[1]].status = "reversed" => rewards[k].status # "pending"
  /\ \A s \in Slots : req[s].kind = "pay" /\ attribution[req[s].what[1]].status = "reversed" =>
       req[s].at <= attribution[req[s].what[1]].reversed

Referrals ==
  /\ RowsTrue
  /\ OneRowPerKey
  /\ IssuedMeansPaid
  /\ ReversalsFinal

-----------------------------------------------------------------------------
(* The invariant of the limit. *)

Standing == {f \in Counted : attribution[f].reversed = Never}

(***************************************************************************)
(* The qualifying receipts of two friends did not overlap.                 *)
(***************************************************************************)
Apart(f, g) ==
  \/ attribution[f].committed < attribution[g].at
  \/ attribution[g].committed < attribution[f].at

(***************************************************************************)
(* A count made by a receipt in flight is at least the number of friends   *)
(* that qualified before it began, and stood since; so no set of friends   *)
(* whose receipts were apart outgrows the limit.                           *)
(***************************************************************************)
Limits ==
  /\ \A s \in Slots : req[s].kind = "ingest" /\ req[s].saw # Never =>
       Cardinality({f \in Standing : attribution[f].committed < req[s].at}) <= req[s].saw
  /\ RewardLimit # NoLimit =>
       \A S \in SUBSET Standing :
         (\A f, g \in S : f # g => Apart(f, g)) => Cardinality(S) <= RewardLimit
  /\ \A f \in Friends : /\ attribution[f].status = "reversed" => attribution[f].reversed # Never
                        /\ attribution[f].at <= clock /\ attribution[f].committed <= clock

-----------------------------------------------------------------------------
(* What each handler writes to one account. *)

(***************************************************************************)
(* The fields of a ledger row that do not depend on the account.           *)
(***************************************************************************)
RowFields(row) ==
  /\ row.src \in {"receipt", "refund", "referral", "referral_reversal"}
  /\ row.ref \in SaleIds \cup {NoSale} /\ row.by \in Friends \cup {Nobody}
  /\ row.at \in Time /\ row.committed \in Time

(***************************************************************************)
(* b's ledger is a's with rows of these sources behind it.                 *)
(***************************************************************************)
Grown(a, b, sources) ==
  /\ Len(a.ledger) <= Len(b.ledger)
  /\ \A i \in 1..Len(a.ledger) : b.ledger[i] = a.ledger[i]
  /\ \A i \in 1..Len(b.ledger) : i > Len(a.ledger) => b.ledger[i].src \in sources

(***************************************************************************)
(* b's ledger is a's with one row behind it.                               *)
(***************************************************************************)
OneRow(a, b, src, by, amount) ==
  \E r \in RowType : /\ b.ledger = Append(a.ledger, r)
                     /\ r.src = src /\ r.by = by /\ r.amount = amount

(***************************************************************************)
(* The timestamps of an instance are finitely many.                        *)
(***************************************************************************)
LEMMA TimeFinite == IsFiniteSet(Time)
BY ReceiptsAssumption, FS_Interval DEF Time

(***************************************************************************)
(* The row of a ledger entry has the type of a row.                        *)
(***************************************************************************)
LEMMA RowTyped ==
  ASSUME NEW op \in {"credit", "debit"}, NEW amount \in Nat \ {0}, NEW after \in Nat, NEW row,
         RowFields(row)
  PROVE  LedgerRow(op, amount, after, row) \in RowType
BY DEF LedgerRow, RowType, RowFields

(***************************************************************************)
(* Appending a row grows a ledger by its source.                           *)
(***************************************************************************)
LEMMA AppendGrown ==
  ASSUME NEW a, NEW b, NEW r \in RowType, a.ledger \in Seq(RowType), b.ledger = Append(a.ledger, r)
  PROVE  Grown(a, b, {r.src})
<1>1. PICK n \in Nat : n = Len(a.ledger)
  OBVIOUS
<1>2. Len(b.ledger) = n + 1 /\ b.ledger[n + 1] = r /\ \A i \in 1..n : b.ledger[i] = a.ledger[i]
  BY <1>1, AppendFacts
<1>3. \A i \in 1..(n + 1) : i > n => i = n + 1
  BY <1>1
<1> QED BY <1>1, <1>2, <1>3 DEF Grown

(***************************************************************************)
(* A ledger left alone has grown by nothing.                               *)
(***************************************************************************)
LEMMA GrownSame ==
  ASSUME NEW a, a.ledger \in Seq(RowType), NEW sources
  PROVE  Grown(a, a, sources)
<1>1. PICK n \in Nat : n = Len(a.ledger)
  OBVIOUS
<1> QED BY <1>1 DEF Grown

(***************************************************************************)
(* A ledger grown twice has grown by both.                                 *)
(***************************************************************************)
LEMMA GrownTwice ==
  ASSUME NEW a, NEW b, NEW c, NEW sources, NEW more,
         a.ledger \in Seq(RowType), b.ledger \in Seq(RowType), c.ledger \in Seq(RowType),
         Grown(a, b, sources), Grown(b, c, more), sources \subseteq more
  PROVE  Grown(a, c, more)
<1>1. PICK n \in Nat, m \in Nat, l \in Nat :
        n = Len(a.ledger) /\ m = Len(b.ledger) /\ l = Len(c.ledger)
  OBVIOUS
<1>2. n <= m /\ m <= l
  BY <1>1 DEF Grown
<1>3. ASSUME NEW i \in 1..n PROVE c.ledger[i] = a.ledger[i]
  <2>1. i \in 1..m
    BY <1>1, <1>2
  <2> QED BY <1>1, <1>3, <2>1 DEF Grown
<1>4. ASSUME NEW i \in 1..l, i > n PROVE c.ledger[i].src \in more
  <2>1. CASE i \in 1..m
    BY <1>1, <1>4, <2>1 DEF Grown
  <2>2. CASE i \notin 1..m
    <3>1. i > m
      BY <1>1, <1>4, <2>2
    <3> QED BY <1>1, <3>1 DEF Grown
  <2> QED BY <2>1, <2>2
<1> QED BY <1>1, <1>2, <1>3, <1>4 DEF Grown

(***************************************************************************)
(* A credit under a new timestamp leaves an account as it should be.       *)
(***************************************************************************)
LEMMA CreditedOK ==
  ASSUME NEW a, AccountOK(a), NEW amount \in Nat \ {0}, NEW row, RowFields(row),
         row.at \notin DOMAIN a.lots,
         NEW b, b = Credit(a, amount, row)
  PROVE  /\ AccountOK(b) /\ Grown(a, b, {row.src})
         /\ OneRow(a, b, row.src, row.by, amount)
         /\ DOMAIN b.lots \subseteq DOMAIN a.lots \cup {row.at}
<1>1. PICK r : r = LedgerRow("credit", amount, a.points + amount, row)
  OBVIOUS
<1>b. r.src = row.src /\ r.by = row.by /\ r.amount = amount
  BY <1>1 DEF LedgerRow
<1>a. IsAccount(a, RowType, Time) /\ LedgerExplains(a) /\ Kept(a)
  BY DEF AccountOK
<1>2. a.points \in Nat /\ a.ledger \in Seq(RowType)
  BY DEF AccountOK, IsAccount
<1>3. r \in RowType
  <2>1. a.points + amount \in Nat
    BY <1>2
  <2> QED BY <1>1, <2>1, RowTyped
<1>4. row.at \in Time
  BY DEF RowFields
<1>5. IsAccount(b, RowType, Time) /\ LedgerExplains(b) /\ b.ledger = Append(a.ledger, r)
  <2>1. b.ledger = Append(a.ledger, r)
    BY <1>1 DEF Credit
  <2>2. LedgerRow("credit", amount, a.points + amount, row) \in RowType
    BY <1>1, <1>3
  <2>3. IsAccount(b, RowType, Time)
    BY <1>a, <1>4, <2>2, CreditOK
  <2>4. LedgerExplains(b)
    BY <1>a, <1>4, <2>2, CreditOK
  <2> QED BY <2>1, <2>3, <2>4
<1>6. Kept(b)
  BY TimeFinite, CreditKept DEF AccountOK
<1>7. Grown(a, b, {row.src})
  <2>1. r.src = row.src
    BY <1>b
  <2> QED BY <1>2, <1>3, <1>5, <2>1, AppendGrown
<1>8. DOMAIN b.lots \subseteq DOMAIN a.lots \cup {row.at}
  BY DEF Credit, IssueBonusLot
<1>9. OneRow(a, b, row.src, row.by, amount)
  BY <1>b, <1>3, <1>5 DEF OneRow
<1> QED BY <1>5, <1>6, <1>7, <1>8, <1>9 DEF AccountOK

(***************************************************************************)
(* So does a debit the balance and the visible lots cover.                 *)
(***************************************************************************)
LEMMA DebitedOK ==
  ASSUME NEW a, AccountOK(a), NEW amount \in Nat \ {0}, NEW row, RowFields(row),
         amount <= a.points, LotsSuffice(a.lots, row.at, amount),
         NEW b, b = Debit(a, amount, row)
  PROVE  /\ AccountOK(b) /\ Grown(a, b, {row.src})
         /\ OneRow(a, b, row.src, row.by, amount)
         /\ DOMAIN b.lots = DOMAIN a.lots
<1>1. PICK r : r = LedgerRow("debit", amount, a.points - amount, row)
  OBVIOUS
<1>b. r.src = row.src /\ r.by = row.by /\ r.amount = amount
  BY <1>1 DEF LedgerRow
<1>a. IsAccount(a, RowType, Time) /\ LedgerExplains(a) /\ Kept(a)
  BY DEF AccountOK
<1>2. a.points \in Nat /\ a.ledger \in Seq(RowType)
  BY DEF AccountOK, IsAccount
<1>3. PICK after \in Nat : after = a.points - amount
  BY <1>2
<1>4. r \in RowType
  BY <1>1, <1>3, RowTyped
<1>5. CanDebit(a, amount, row.at)
  BY <1>2 DEF CanDebit
<1>6. IsAccount(b, RowType, Time) /\ LedgerExplains(b) /\ b.ledger = Append(a.ledger, r)
  <2>1. b.ledger = Append(a.ledger, r)
    BY <1>1 DEF Debit
  <2>2. LedgerRow("debit", amount, after, row) \in RowType
    BY <1>1, <1>3, <1>4
  <2>3. IsAccount(b, RowType, Time)
    BY <1>a, <1>3, <1>5, <2>2, DebitOK
  <2>4. LedgerExplains(b)
    BY <1>a, <1>3, <1>5, <2>2, DebitOK
  <2> QED BY <2>1, <2>3, <2>4
<1>7. Kept(b)
  BY <1>5, TimeFinite, DebitKept DEF AccountOK
<1>8. Grown(a, b, {row.src})
  <2>1. r.src = row.src
    BY <1>b
  <2> QED BY <1>2, <1>4, <1>6, <2>1, AppendGrown
<1>9. DOMAIN b.lots = DOMAIN a.lots
  BY DEF Debit, Consume
<1>10. OneRow(a, b, row.src, row.by, amount)
  BY <1>b, <1>4, <1>6 DEF OneRow
<1> QED BY <1>6, <1>7, <1>8, <1>9, <1>10 DEF AccountOK

(***************************************************************************)
(* So does giving points back to the lots they were taken from.            *)
(***************************************************************************)
LEMMA RestoredOK ==
  ASSUME NEW a, AccountOK(a), NEW amount \in Nat \ {0}, NEW sale,
         NEW back \in RestoreSplits(a, sale, amount), NEW row, RowFields(row),
         row.at \notin DOMAIN a.lots,
         NEW b, b = Restore(a, amount, row, back)
  PROVE  /\ AccountOK(b) /\ Grown(a, b, {row.src})
         /\ DOMAIN b.lots \subseteq DOMAIN a.lots \cup {row.at}
<1>1. PICK r : r = LedgerRow("credit", amount, a.points + amount, row)
  OBVIOUS
<1>a. IsAccount(a, RowType, Time) /\ LedgerExplains(a) /\ Kept(a)
  BY DEF AccountOK
<1>2. a.points \in Nat /\ a.ledger \in Seq(RowType)
  BY DEF AccountOK, IsAccount
<1>3. r \in RowType
  <2>1. a.points + amount \in Nat
    BY <1>2
  <2> QED BY <1>1, <2>1, RowTyped
<1>4. row.at \in Time
  BY DEF RowFields
<1>5. /\ IsAccount(b, RowType, Time) /\ LedgerExplains(b) /\ Kept(b)
      /\ b.ledger = Append(a.ledger, r)
      /\ DOMAIN b.lots \subseteq DOMAIN a.lots \cup {row.at}
  <2>1. b.ledger = Append(a.ledger, r)
    BY <1>1 DEF Restore
  <2>2. LedgerRow("credit", amount, a.points + amount, row) \in RowType
    BY <1>1, <1>3
  <2>3. IsAccount(b, RowType, Time) /\ LedgerExplains(b) /\ Kept(b)
        /\ DOMAIN b.lots \subseteq DOMAIN a.lots \cup {row.at}
    BY ZenonT(30), <1>a, <1>4, <2>2, TimeFinite, RestoreKept
  <2> QED BY <2>1, <2>3
<1>6. Grown(a, b, {row.src})
  <2>1. r.src = row.src
    BY <1>1 DEF LedgerRow
  <2> QED BY <1>2, <1>3, <1>5, <2>1, AppendGrown
<1> QED BY <1>5, <1>6 DEF AccountOK

(***************************************************************************)
(* The fields of a receipt the POS sends.                                  *)
(***************************************************************************)
LEMMA ReceiptTyped ==
  ASSUME NEW r \in PosReceipts
  PROVE  /\ r.ext \in SaleIds /\ r.ext # NoSale /\ r.customer \in Customers
         /\ r.net \in Nat /\ r.earned \in Nat /\ r.spent \in Nat
         /\ r.status \in {"completed", "pending", "refunded", "partially_refunded", "cancelled"}
<1>1. r \in ReceiptType
  BY ReceiptsAssumption
<1> QED BY <1>1 DEF ReceiptType, SaleIds

(***************************************************************************)
(* applyLoyalty writes receipt rows and keeps the account as it should be, *)
(* whichever of the two writes it makes.                                   *)
(***************************************************************************)
LEMMA PurchaseOK ==
  ASSUME clock \in Time, NEW a, AccountOK(a), NEW r \in PosReceipts, NEW at \in Time,
         at \notin DOMAIN a.lots, PurchaseAllowed(a, r, at), NEW b, b = Purchase(a, r, at)
  PROVE  AccountOK(b) /\ Grown(a, b, {"receipt"}) /\ DOMAIN b.lots \subseteq DOMAIN a.lots \cup {at}
<1>1. PICK row : row = Row("receipt", r.ext, Nobody, at)
  OBVIOUS
<1>2. RowFields(row) /\ row.at = at /\ row.src = "receipt"
  BY <1>1, ReceiptTyped DEF Row, RowFields
<1>3. r.earned \in Nat /\ r.spent \in Nat
  BY ReceiptTyped
<1>4. PICK spent : spent = IF r.spent > 0 THEN Debit(a, r.spent, row) ELSE a
  OBVIOUS
<1>5. AccountOK(spent) /\ Grown(a, spent, {"receipt"}) /\ DOMAIN spent.lots = DOMAIN a.lots
  <2>1. CASE r.spent > 0
    <3>1. r.spent \in Nat \ {0}
      BY <1>3, <2>1
    <3>2. a.points >= r.spent /\ LotsSuffice(a.lots, row.at, r.spent)
      BY <1>2, <2>1 DEF PurchaseAllowed, CanDebit
    <3>3. r.spent <= a.points
      BY <3>1, <3>2 DEF AccountOK, IsAccount
    <3>4. spent = Debit(a, r.spent, row)
      BY <1>4, <2>1
    <3> QED BY <1>2, <3>1, <3>2, <3>3, <3>4, DebitedOK
  <2>2. CASE ~(r.spent > 0)
    <3>1. spent = a
      BY <1>4, <2>2
    <3>2. a.ledger \in Seq(RowType)
      BY DEF AccountOK, IsAccount
    <3> QED BY <3>1, <3>2, GrownSame
  <2> QED BY <2>1, <2>2
<1>6. b = IF r.earned > 0 THEN Credit(spent, r.earned, row) ELSE spent
  BY <1>1, <1>4 DEF Purchase
<1>7. CASE r.earned > 0
  <2>1. r.earned \in Nat \ {0} /\ b = Credit(spent, r.earned, row)
    BY <1>3, <1>6, <1>7
  <2>2. AccountOK(b) /\ Grown(spent, b, {"receipt"}) /\ DOMAIN b.lots \subseteq DOMAIN spent.lots \cup {at}
    BY <1>2, <1>5, <2>1, CreditedOK
  <2>3. a.ledger \in Seq(RowType) /\ spent.ledger \in Seq(RowType) /\ b.ledger \in Seq(RowType)
    BY <1>5, <2>2 DEF AccountOK, IsAccount
  <2>4. Grown(a, b, {"receipt"})
    BY <1>5, <2>2, <2>3, GrownTwice
  <2> QED BY <1>5, <2>2, <2>4
<1>8. CASE ~(r.earned > 0)
  BY <1>5, <1>6, <1>8
<1> QED BY <1>7, <1>8

(***************************************************************************)
(* Refund does the same with refund rows: the points reversed, then the    *)
(* points restored.                                                        *)
(***************************************************************************)
LEMMA RefundedOK ==
  ASSUME clock \in Time, NEW a, AccountOK(a), NEW reversed \in Nat, reversed <= a.points,
         NEW ext \in RefundIds, NEW at \in Time, at \notin DOMAIN a.lots,
         reversed > 0 => LotsSuffice(a.lots, at, reversed),
         NEW restored \in Nat, NEW original,
         NEW b \in RefundedAccount(a, reversed, restored, original, Row("refund", ext, Nobody, at))
  PROVE  AccountOK(b) /\ Grown(a, b, {"refund"}) /\ DOMAIN b.lots \subseteq DOMAIN a.lots \cup {at}
<1>1. PICK row : row = Row("refund", ext, Nobody, at)
  OBVIOUS
<1>2. RowFields(row) /\ row.at = at /\ row.src = "refund"
  <2>1. ext \in SaleIds \cup {NoSale}
    BY DEF SaleIds
  <2> QED BY <1>1, <2>1 DEF Row, RowFields
<1>3. PICK debited : debited = IF reversed > 0 THEN Debit(a, reversed, row) ELSE a
  OBVIOUS
<1>4. AccountOK(debited) /\ Grown(a, debited, {"refund"}) /\ DOMAIN debited.lots = DOMAIN a.lots
  <2>1. CASE reversed > 0
    <3>1. reversed \in Nat \ {0} /\ debited = Debit(a, reversed, row)
      BY <1>3, <2>1
    <3> QED BY <1>2, <2>1, <3>1, DebitedOK
  <2>2. CASE ~(reversed > 0)
    <3>1. debited = a
      BY <1>3, <2>2
    <3>2. a.ledger \in Seq(RowType)
      BY DEF AccountOK, IsAccount
    <3> QED BY <3>1, <3>2, GrownSame
  <2> QED BY <2>1, <2>2
<1>5. b \in IF restored = 0
            THEN {debited}
            ELSE {Restore(debited, restored, row, back) :
                    back \in RestoreSplits(debited, original, restored)}
  BY <1>1, <1>3 DEF RefundedAccount
<1>6. CASE restored = 0
  BY <1>4, <1>5, <1>6
<1>7. CASE restored # 0
  <2>1. PICK back \in RestoreSplits(debited, original, restored) :
          b = Restore(debited, restored, row, back)
    BY <1>5, <1>7
  <2>2. restored \in Nat \ {0} /\ row.at \notin DOMAIN debited.lots
    BY <1>2, <1>4, <1>7
  <2>3. /\ AccountOK(b) /\ Grown(debited, b, {"refund"})
        /\ DOMAIN b.lots \subseteq DOMAIN debited.lots \cup {at}
    BY ZenonT(30), <1>2, <1>4, <2>1, <2>2, RestoredOK
  <2>4. a.ledger \in Seq(RowType) /\ debited.ledger \in Seq(RowType) /\ b.ledger \in Seq(RowType)
    BY <1>4, <2>3 DEF AccountOK, IsAccount
  <2>5. Grown(a, b, {"refund"})
    BY <1>4, <2>3, <2>4, GrownTwice
  <2> QED BY <1>4, <2>3, <2>5
<1> QED BY <1>6, <1>7

(***************************************************************************)
(* A reward has a value of zero or more points.                            *)
(***************************************************************************)
LEMMA ValueIsNat ==
  ASSUME NEW role
  PROVE  RewardValue(role) \in Nat
BY ReceiptsAssumption DEF RewardValue

(***************************************************************************)
(* What is due of a reward is no more than the balance and the value, and  *)
(* nothing unless the reward is issued and not yet taken back.             *)
(***************************************************************************)
LEMMA DueBounded ==
  ASSUME NEW a, AccountOK(a), NEW k
  PROVE  /\ Due(a, k) \in Nat /\ Due(a, k) <= a.points /\ Due(a, k) <= RewardValue(k[2])
         /\ Due(a, k) > 0 => Issued(k) /\ ~HasRow(a, "referral_reversal", k[1])
<1>1. a.points \in Nat /\ RewardValue(k[2]) \in Nat
  BY ValueIsNat DEF AccountOK, IsAccount
<1>2. PICK v \in Nat : v = RewardValue(k[2])
  BY <1>1
<1>3. Min({a.points, v}) \in Nat /\ Min({a.points, v}) <= a.points /\ Min({a.points, v}) <= v
  BY <1>1, MinOfTwo
<1> QED BY <1>1, <1>2, <1>3 DEF Due

(***************************************************************************)
(* Recovering a reward leaves the account alone or adds the one row for    *)
(* it.                                                                     *)
(***************************************************************************)
LEMMA RecoverOK ==
  ASSUME clock \in Time, NEW a, AccountOK(a), NEW k, k[1] \in Friends, NEW refund \in RefundIds,
         NEW at \in Time, Due(a, k) > 0 => LotsSuffice(a.lots, at, Due(a, k)),
         NEW b, b = Recover(a, k, refund, at)
  PROVE  /\ AccountOK(b) /\ DOMAIN b.lots = DOMAIN a.lots
         /\ \/ b = a
            \/ /\ OneRow(a, b, "referral_reversal", k[1], Due(a, k))
               /\ Issued(k) /\ ~HasRow(a, "referral_reversal", k[1])
<1>1. PICK due \in Nat : due = Due(a, k)
  BY DueBounded
<1>2. /\ due <= a.points /\ due <= RewardValue(k[2])
      /\ due > 0 => Issued(k) /\ ~HasRow(a, "referral_reversal", k[1])
  BY <1>1, DueBounded
<1>3. PICK row : row = Row("referral_reversal", refund, k[1], at)
  OBVIOUS
<1>4. RowFields(row) /\ row.at = at /\ row.src = "referral_reversal" /\ row.by = k[1]
  <2>1. refund \in SaleIds \cup {NoSale}
    BY DEF SaleIds
  <2> QED BY <1>3, <2>1 DEF Row, RowFields
<1>5. CASE due > 0
  <2>1. b = Debit(a, due, row) /\ due \in Nat \ {0}
    BY <1>1, <1>3, <1>5 DEF Recover
  <2>2. /\ AccountOK(b) /\ DOMAIN b.lots = DOMAIN a.lots
        /\ OneRow(a, b, row.src, row.by, due)
    <3>1. LotsSuffice(a.lots, row.at, due) /\ due <= a.points
      BY <1>1, <1>2, <1>4, <1>5
    <3>2. RowFields(row)
      BY <1>4
    <3>3. AccountOK(b)
      BY <2>1, <3>1, <3>2, DebitedOK
    <3>5. DOMAIN b.lots = DOMAIN a.lots
      BY <2>1 DEF Debit, Consume
    <3>4. OneRow(a, b, row.src, row.by, due)
      BY <2>1, <3>1, <3>2, DebitedOK
    <3> QED BY <3>3, <3>4, <3>5
  <2> QED BY <1>1, <1>2, <1>4, <1>5, <2>2
<1>6. CASE ~(due > 0)
  BY <1>1, <1>6 DEF Recover
<1> QED BY <1>5, <1>6

(***************************************************************************)
(* Paying a reward leaves the account alone, because its key is taken, or  *)
(* adds the one row for it.                                                *)
(***************************************************************************)
LEMMA PaidOK ==
  ASSUME clock \in Time, NEW a, AccountOK(a), NEW k, k[1] \in Friends, RewardValue(k[2]) > 0,
         NEW at \in Time, at \notin DOMAIN a.lots, NEW b, b = Paid(a, k, at)
  PROVE  /\ AccountOK(b) /\ DOMAIN b.lots \subseteq DOMAIN a.lots \cup {at}
         /\ \/ b = a /\ HasRow(a, "referral", k[1])
            \/ /\ ~HasRow(a, "referral", k[1])
               /\ OneRow(a, b, "referral", k[1], RewardValue(k[2]))
<1>1. CASE HasRow(a, "referral", k[1])
  BY <1>1 DEF Paid
<1>2. CASE ~HasRow(a, "referral", k[1])
  <2>1. PICK v \in Nat : v = RewardValue(k[2])
    BY ValueIsNat
  <2>2. PICK row : row = Row("referral", NoSale, k[1], at)
    OBVIOUS
  <2>3. RowFields(row) /\ row.at = at /\ row.src = "referral" /\ row.by = k[1]
    BY <2>2 DEF Row, RowFields
  <2>4. b = Credit(a, v, row) /\ v \in Nat \ {0}
    BY <1>2, <2>1, <2>2 DEF Paid
  <2>5. /\ AccountOK(b) /\ DOMAIN b.lots \subseteq DOMAIN a.lots \cup {at}
        /\ OneRow(a, b, row.src, row.by, v)
    BY <2>3, <2>4, CreditedOK
  <2> QED BY <1>2, <2>1, <2>3, <2>5
<1> QED BY <1>1, <1>2

-----------------------------------------------------------------------------
(* The steps that leave the sales alone. *)

(***************************************************************************)
(* A step that touches neither the sales nor the visits keeps what is said *)
(* of them.                                                                *)
(***************************************************************************)
LEMMA SalesStand ==
  ASSUME Books, UNCHANGED <<sales, totalVisits>>
  PROVE  SalesOK' /\ RefundsWithinSale' /\ VisitsCounted'
<1>1. SalesOK'
  BY DEF Books, SalesOK
<1>2. VisitsCounted'
  <2>1. \A c : {id \in DOMAIN sales' : sales'[id].customer = c /\ sales'[id].visit = "counted"}
             = {id \in DOMAIN sales : sales[id].customer = c /\ sales[id].visit = "counted"}
    OBVIOUS
  <2> QED BY <2>1 DEF Books, VisitsCounted
<1>3. RefundsWithinSale'
  <2>1. ASSUME NEW id PROVE Reversals(id)' = Reversals(id) /\ Refunds(id)' = Refunds(id)
    BY DEF Reversals, Refunds
  <2>2. ASSUME NEW id PROVE AlreadyRefunded(id)' = AlreadyRefunded(id)
    BY <2>1 DEF AlreadyRefunded
  <2> QED BY <2>1, <2>2 DEF Books, RefundsWithinSale
<1> QED BY <1>1, <1>2, <1>3

(***************************************************************************)
(* What the steps below use of Books, unfolded once.                       *)
(***************************************************************************)
LEMMA BooksFacts ==
  ASSUME Books
  PROVE  /\ TypeOK /\ clock \in Nat /\ clock <= MaxClock /\ clock \in Time /\ MaxClock \in Nat
         /\ DOMAIN account = Customers /\ DOMAIN req = Slots
         /\ \A c \in Customers : AccountOK(account[c])
         /\ \A s \in Slots : RequestOK(req[s]) /\ req[s].at \in Nat /\ req[s].at <= clock
                             /\ req[s].at \in Time
         /\ StampsFresh /\ SalesOK /\ RefundsWithinSale /\ VisitsCounted
         /\ \A k \in DOMAIN rewards : RewardValue(k[2]) > 0
<1>1. clock \in 0..MaxClock /\ MaxClock \in Nat
  BY ReceiptsAssumption DEF Books, TypeOK, Time
<1>2. clock \in Nat /\ clock <= MaxClock
  BY <1>1
<1>3. \A s \in Slots : req[s].at \in 0..clock
  BY DEF Books, RequestOK
<1>4. \A s \in Slots : req[s].at \in Nat /\ req[s].at <= clock /\ req[s].at \in Time
  BY <1>1, <1>2, <1>3 DEF Time
<1> QED BY <1>1, <1>2, <1>4 DEF Books, TypeOK

(***************************************************************************)
(* A request that begins names what it read and takes a timestamp nobody   *)
(* has.                                                                    *)
(***************************************************************************)
LEMMA BeginKeeps ==
  ASSUME Books, NEW s \in Slots, NEW kind \in {"ingest", "refund"}, NEW what, Begin(s, kind, what),
         UNCHANGED <<account, sales, rewards>>,
         kind = "ingest" => what \in PosReceipts,
         kind = "refund" => /\ what.original \in DOMAIN sales /\ what.ext \in RefundIds
                            /\ what.amount \in 1..sales[what.original].net
  PROVE  /\ clock' \in Time /\ DOMAIN req' = Slots
         /\ \A u \in Slots : RequestOK(req[u])'
         /\ StampsFresh'
<1>1. PICK q : q = [kind |-> kind, what |-> what, at |-> clock + 1, saw |-> Never]
  OBVIOUS
<1>2. DOMAIN req = Slots /\ clock \in Nat /\ clock <= MaxClock /\ MaxClock \in Nat
  BY BooksFacts
<1>3. /\ clock' = clock + 1 /\ clock < MaxClock
      /\ DOMAIN req' = Slots /\ req'[s] = q /\ \A u \in Slots : u # s => req'[u] = req[u]
  BY <1>1, <1>2 DEF Begin, Now
<1>4. clock' \in Time /\ clock' \in Nat /\ clock < clock'
  BY <1>2, <1>3 DEF Time
<1>5. /\ q.kind = kind /\ q.what = what /\ q.at = clock' /\ q.saw = Never
      /\ "saw" \in DOMAIN q
  BY <1>1, <1>3
<1>6. ASSUME NEW u \in Slots PROVE RequestOK(req[u])'
  <2>1. CASE u = s
    <3>1. q.at \in 0..clock'
      BY <1>4, <1>5
    <3> QED BY <1>3, <1>5, <2>1, <3>1 DEF RequestOK
  <2>2. CASE u # s
    <3>1. req[u].at \in 0..clock'
      BY <1>2, <1>3, BooksFacts
    <3> QED BY <1>3, <2>2, <3>1 DEF Books, RequestOK
  <2> QED BY <2>1, <2>2
<1>7. StampsFresh'
  <2>1. \A c \in Customers : DOMAIN account[c].lots \subseteq 0..clock
    BY DEF Books, StampsFresh
  <2>2. \A c \in Customers : clock' \notin DOMAIN account[c].lots
                             /\ DOMAIN account[c].lots \subseteq 0..clock'
    BY <1>2, <1>3, <2>1
  <2>3. \A u \in Slots : req[u].at # clock'
    BY <1>2, <1>3, BooksFacts
  <2>4. ASSUME NEW u \in Slots, NEW v \in Slots, Writes(req'[u]), Writes(req'[v]),
               req'[u].at = req'[v].at
        PROVE  u = v
    <3>1. CASE u # s /\ v # s
      <4>1. Writes(req[u]) /\ Writes(req[v]) /\ req[u].at = req[v].at
        BY <1>3, <2>4, <3>1
      <4> QED BY <4>1 DEF Books, StampsFresh
    <3>2. CASE u = s /\ v # s
      BY <1>3, <1>5, <2>3, <2>4, <3>2
    <3>3. CASE u # s /\ v = s
      BY <1>3, <1>5, <2>3, <2>4, <3>3
    <3> QED BY <3>1, <3>2, <3>3
  <2>5. ASSUME NEW u \in Slots, NEW c \in Customers, Writes(req'[u])
        PROVE  req'[u].at \notin DOMAIN account[c].lots
    <3>1. CASE u = s
      BY <1>3, <1>5, <2>2, <3>1
    <3>2. CASE u # s
      <4>1. Writes(req[u]) /\ req'[u] = req[u]
        BY <1>3, <2>5, <3>2
      <4> QED BY <4>1 DEF Books, StampsFresh
    <3> QED BY <3>1, <3>2
  <2> QED BY <2>2, <2>4, <2>5 DEF StampsFresh, Writes
<1> QED BY <1>3, <1>4, <1>6, <1>7

(***************************************************************************)
(* A request that ends leaves the others valid, when the lots it issued    *)
(* carry its own timestamp or a later one than the clock.                  *)
(***************************************************************************)
LEMMA FinishKeeps ==
  ASSUME Books, NEW s \in Slots, Finish(s), clock' \in Nat, clock <= clock',
         \A c \in Customers : \A t \in DOMAIN account'[c].lots :
           \/ t \in DOMAIN account[c].lots
           \/ t \in 0..clock' /\ (t > clock \/ (Writes(req[s]) /\ t = req[s].at)),
         DOMAIN sales \subseteq DOMAIN sales', DOMAIN rewards \subseteq DOMAIN rewards',
         \A id \in DOMAIN sales : sales'[id].net = sales[id].net
  PROVE  /\ DOMAIN req' = Slots
         /\ \A u \in Slots : RequestOK(req[u])'
         /\ StampsFresh'
<1>1. DOMAIN req = Slots /\ clock \in Nat
  BY BooksFacts
<1>2. DOMAIN req' = Slots /\ req'[s] = Idle /\ \A u \in Slots : u # s => req'[u] = req[u]
  BY <1>1 DEF Finish
<1>3. Idle.kind = "idle" /\ Idle.at = 0 /\ Idle.saw = Never /\ "saw" \in DOMAIN Idle
  BY DEF Idle
<1>4. ASSUME NEW u \in Slots PROVE RequestOK(req[u])'
  <2>1. CASE u = s
    <3>1. 0 \in 0..clock'
      OBVIOUS
    <3> QED BY <1>2, <1>3, <2>1, <3>1 DEF RequestOK
  <2>2. CASE u # s
    <3>1. req[u].at \in 0..clock'
      BY <1>1, BooksFacts
    <3>2. RequestOK(req[u])
      BY BooksFacts
    <3> QED BY <1>2, <2>2, <3>1, <3>2 DEF RequestOK
  <2> QED BY <2>1, <2>2
<1>5. ASSUME NEW u \in Slots, Writes(req'[u])
      PROVE  u # s /\ Writes(req[u]) /\ req'[u] = req[u] /\ req[u].at \in Nat /\ req[u].at <= clock
  <2>1. u # s
    BY <1>2, <1>3, <1>5 DEF Writes
  <2> QED BY <1>2, <1>5, <2>1, BooksFacts
<1>6. ASSUME NEW u \in Slots, NEW v \in Slots, Writes(req'[u]), Writes(req'[v]),
             req'[u].at = req'[v].at
      PROVE  u = v
  <2>1. Writes(req[u]) /\ Writes(req[v]) /\ req[u].at = req[v].at
    BY <1>5, <1>6
  <2> QED BY <2>1 DEF Books, StampsFresh
<1>7. ASSUME NEW u \in Slots, NEW c \in Customers, Writes(req'[u])
      PROVE  req'[u].at \notin DOMAIN account'[c].lots
  <2>1. u # s /\ Writes(req[u]) /\ req'[u] = req[u] /\ req[u].at \in Nat /\ req[u].at <= clock
    BY <1>5, <1>7
  <2>2. req[u].at \notin DOMAIN account[c].lots
    BY <2>1 DEF Books, StampsFresh
  <2>3. ~(req[u].at > clock)
    BY <1>1, <2>1
  <2>4. Writes(req[s]) => req[s].at # req[u].at
    BY <2>1 DEF Books, StampsFresh
  <2> QED BY <2>1, <2>2, <2>3, <2>4
<1>8. ASSUME NEW c \in Customers PROVE DOMAIN account'[c].lots \subseteq 0..clock'
  <2>1. DOMAIN account[c].lots \subseteq 0..clock
    BY DEF Books, StampsFresh
  <2> QED BY <1>1, <2>1
<1> QED BY <1>2, <1>4, <1>6, <1>7, <1>8 DEF StampsFresh, Writes

(***************************************************************************)
(* A step of the requests and the clock only.                              *)
(***************************************************************************)
LEMMA QuietStep ==
  ASSUME Books, UNCHANGED <<account, totalVisits, sales, attribution, rewards>>,
         archived' \subseteq Customers, clock' \in Time, DOMAIN req' = Slots,
         \A s \in Slots : RequestOK(req[s])', StampsFresh'
  PROVE  Books'
<1>1. SalesOK' /\ RefundsWithinSale' /\ VisitsCounted'
  BY SalesStand
<1>2. TypeOK'
  BY DEF Books, TypeOK
<1>3. DOMAIN account' = Customers /\ \A c \in Customers : AccountOK(account'[c])
  BY DEF Books
<1>4. \A k \in DOMAIN rewards' : RewardValue(k[2]) > 0
  BY DEF Books
<1> QED BY <1>1, <1>2, <1>3, <1>4 DEF Books

(***************************************************************************)
(* Timestamps stay fresh when neither the accounts nor the writers change. *)
(***************************************************************************)
LEMMA SameStamps ==
  ASSUME Books, UNCHANGED <<account, clock>>, DOMAIN req' = Slots,
         \A s \in Slots : Writes(req'[s]) => Writes(req[s]) /\ req'[s].at = req[s].at
  PROVE  StampsFresh'
<1>1. ASSUME NEW s \in Slots, NEW u \in Slots, Writes(req'[s]), Writes(req'[u]),
             req'[s].at = req'[u].at
      PROVE  s = u
  <2>1. Writes(req[s]) /\ Writes(req[u]) /\ req[s].at = req[u].at
    BY <1>1
  <2> QED BY <2>1 DEF Books, StampsFresh
<1>2. ASSUME NEW s \in Slots, NEW c \in Customers, Writes(req'[s])
      PROVE  req'[s].at \notin DOMAIN account[c].lots
  <2>1. Writes(req[s]) /\ req'[s].at = req[s].at
    BY <1>2
  <2> QED BY <2>1 DEF Books, StampsFresh
<1>3. \A c \in Customers : DOMAIN account[c].lots \subseteq 0..clock
  BY DEF Books, StampsFresh
<1> QED BY <1>1, <1>2, <1>3 DEF StampsFresh, Writes

(***************************************************************************)
(* Receiving a receipt keeps the books.                                    *)
(***************************************************************************)
LEMMA IngestBeginKeepsBooks ==
  ASSUME Books, NEW s \in Slots, NEW r \in PosReceipts, IngestBegin(s, r)
  PROVE  Books'
<1>1. Begin(s, "ingest", r) /\ UNCHANGED <<account, totalVisits, archived, sales, attribution, rewards>>
  BY DEF IngestBegin
<1>2. PICK kind : kind = "ingest"
  OBVIOUS
<1>3. /\ clock' \in Time /\ DOMAIN req' = Slots /\ \A u \in Slots : RequestOK(req[u])'
      /\ StampsFresh'
  BY <1>1, <1>2, BeginKeeps
<1>4. archived' \subseteq Customers
  BY <1>1 DEF Books, TypeOK
<1> QED BY <1>1, <1>3, <1>4, QuietStep

(***************************************************************************)
(* Receiving a refund keeps the books.                                     *)
(***************************************************************************)
LEMMA RefundBeginKeepsBooks ==
  ASSUME Books, NEW s \in Slots, NEW id \in DOMAIN sales, NEW ext \in RefundIds,
         NEW amount \in 1..sales[id].net, RefundBegin(s, id, ext, amount)
  PROVE  Books'
<1>1. PICK what : what = [original |-> id, ext |-> ext, amount |-> amount]
  OBVIOUS
<1>2. Begin(s, "refund", what) /\ UNCHANGED <<account, totalVisits, archived, sales, attribution, rewards>>
  BY <1>1 DEF RefundBegin
<1>3. PICK kind : kind = "refund"
  OBVIOUS
<1>4. what.original \in DOMAIN sales /\ what.ext \in RefundIds /\ what.amount \in 1..sales[what.original].net
  BY <1>1
<1>5. /\ clock' \in Time /\ DOMAIN req' = Slots /\ \A u \in Slots : RequestOK(req[u])'
      /\ StampsFresh'
  BY <1>2, <1>3, <1>4, BeginKeeps
<1>6. archived' \subseteq Customers
  BY <1>2 DEF Books, TypeOK
<1> QED BY <1>2, <1>5, <1>6, QuietStep

(***************************************************************************)
(* The count behind the limit is a number, and no part of it exceeds it.   *)
(***************************************************************************)
LEMMA CountedNat ==
  /\ IsFiniteSet(Counted) /\ Cardinality(Counted) \in Nat
  /\ \A S \in SUBSET Counted : IsFiniteSet(S) /\ Cardinality(S) \in Nat
                               /\ Cardinality(S) <= Cardinality(Counted)
<1>1. IsFiniteSet(Counted)
  BY ReceiptsAssumption, FS_Subset DEF Counted
<1> QED BY <1>1, FS_Subset, FS_CardinalityType

(***************************************************************************)
(* Counting the attributions keeps the books.                              *)
(***************************************************************************)
LEMMA IngestCountKeepsBooks ==
  ASSUME Books, NEW s \in Slots, IngestCount(s)
  PROVE  Books'
<1>1. PICK n \in Nat : n = Cardinality(Counted)
  BY CountedNat
<1>2. DOMAIN req = Slots /\ req[s].kind = "ingest"
  BY BooksFacts DEF IngestCount
<1>3. /\ DOMAIN req' = Slots /\ req'[s] = [req[s] EXCEPT !.saw = n]
      /\ \A u \in Slots : u # s => req'[u] = req[u]
      /\ UNCHANGED <<clock, account, totalVisits, archived, sales, attribution, rewards>>
  BY <1>1, <1>2 DEF IngestCount
<1>4. /\ req'[s].kind = req[s].kind /\ req'[s].what = req[s].what /\ req'[s].at = req[s].at
      /\ "saw" \in DOMAIN req'[s] /\ req'[s].saw = n
  <2>1. "saw" \in DOMAIN req[s]
    BY BooksFacts DEF RequestOK
  <2> QED BY <1>3, <2>1
<1>5. ASSUME NEW u \in Slots PROVE RequestOK(req[u])'
  <2>1. RequestOK(req[u])
    BY DEF Books
  <2>2. CASE u = s
    BY <1>3, <1>4, <2>1, <2>2 DEF RequestOK
  <2>3. CASE u # s
    BY <1>3, <2>1, <2>3 DEF RequestOK
  <2> QED BY <2>2, <2>3
<1>6. \A u \in Slots : Writes(req'[u]) => Writes(req[u]) /\ req'[u].at = req[u].at
  BY <1>3, <1>4 DEF Writes
<1>7. StampsFresh'
  BY <1>3, <1>6, SameStamps
<1>8. archived' \subseteq Customers /\ clock' \in Time
  BY <1>3 DEF Books, TypeOK
<1> QED BY <1>3, <1>5, <1>7, <1>8, QuietStep

(***************************************************************************)
(* A worker that reads a pending reward keeps the books.                   *)
(***************************************************************************)
LEMMA PayBeginKeepsBooks ==
  ASSUME Books, NEW s \in Slots, NEW k \in DOMAIN rewards, PayBegin(s, k)
  PROVE  Books'
<1>1. PICK q : q = [kind |-> "pay", what |-> k, at |-> clock, saw |-> Never]
  OBVIOUS
<1>2. DOMAIN req = Slots /\ clock \in Nat
  BY BooksFacts
<1>3. /\ DOMAIN req' = Slots /\ req'[s] = q /\ \A u \in Slots : u # s => req'[u] = req[u]
      /\ UNCHANGED <<clock, account, totalVisits, archived, sales, attribution, rewards>>
  BY <1>1, <1>2 DEF PayBegin
<1>4. q.kind = "pay" /\ q.what = k /\ q.at = clock /\ q.saw = Never /\ "saw" \in DOMAIN q
  BY <1>1
<1>5. ASSUME NEW u \in Slots PROVE RequestOK(req[u])'
  <2>1. RequestOK(req[u])
    BY DEF Books
  <2>2. CASE u = s
    <3>1. clock \in 0..clock
      BY <1>2
    <3> QED BY <1>3, <1>4, <2>2, <3>1 DEF RequestOK
  <2>3. CASE u # s
    BY <1>3, <2>1, <2>3 DEF RequestOK
  <2> QED BY <2>2, <2>3
<1>6. \A u \in Slots : Writes(req'[u]) => Writes(req[u]) /\ req'[u].at = req[u].at
  BY <1>3, <1>4 DEF Writes
<1>7. StampsFresh'
  BY <1>3, <1>6, SameStamps
<1>8. archived' \subseteq Customers /\ clock' \in Time
  BY <1>3 DEF Books, TypeOK
<1> QED BY <1>3, <1>5, <1>7, <1>8, QuietStep

(***************************************************************************)
(* An abort, a deletion and time keep the books.                           *)
(***************************************************************************)
LEMMA OtherStepsKeepBooks ==
  ASSUME Books,
         \/ \E s \in Slots : Abort(s)
         \/ \E c \in Customers : DeleteCustomer(c)
         \/ Tick
         \/ UNCHANGED vars
  PROVE  Books'
<1>1. clock \in Nat /\ clock <= MaxClock /\ MaxClock \in Nat /\ DOMAIN req = Slots
  BY BooksFacts
<1>2. UNCHANGED <<account, totalVisits, sales, attribution, rewards>> /\ archived' \subseteq Customers
  <2>1. archived \subseteq Customers
    BY DEF Books, TypeOK
  <2> QED BY <2>1 DEF Abort, DeleteCustomer, Tick, vars
<1>3. ASSUME NEW s \in Slots, Abort(s)
      PROVE  /\ clock' \in Time /\ DOMAIN req' = Slots
             /\ \A u \in Slots : RequestOK(req[u])'
             /\ StampsFresh'
  <2>1. Finish(s) /\ clock' = clock
    BY <1>3 DEF Abort
  <2>2. clock' \in Nat /\ clock <= clock' /\ clock' \in Time
    BY <1>1, <2>1 DEF Time
  <2>3. /\ DOMAIN req' = Slots
        /\ \A u \in Slots : RequestOK(req[u])'
        /\ StampsFresh'
    BY <1>2, <2>1, <2>2, FinishKeeps
  <2> QED BY <2>2, <2>3
<1>4. ASSUME \/ \E c \in Customers : DeleteCustomer(c)
             \/ Tick
             \/ UNCHANGED vars
      PROVE  /\ clock' \in Time /\ DOMAIN req' = Slots
             /\ \A u \in Slots : RequestOK(req[u])'
             /\ StampsFresh'
  <2>1. req' = req /\ clock' \in Nat /\ clock <= clock' /\ clock' <= MaxClock
    BY <1>1, <1>4 DEF DeleteCustomer, Tick, vars, Now
  <2>2. clock' \in Time
    BY <1>1, <2>1 DEF Time
  <2>3. ASSUME NEW u \in Slots PROVE RequestOK(req[u])'
    <3>1. req[u].at \in 0..clock'
      BY <1>1, <2>1, BooksFacts
    <3> QED BY <1>2, <2>1, <3>1 DEF Books, RequestOK
  <2>4. StampsFresh'
    <3>1. \A c \in Customers : DOMAIN account[c].lots \subseteq 0..clock'
      BY <1>1, <2>1 DEF Books, StampsFresh
    <3> QED BY <1>2, <2>1, <3>1 DEF Books, StampsFresh
  <2> QED BY <1>1, <2>1, <2>2, <2>3, <2>4
<1>5. /\ clock' \in Time /\ DOMAIN req' = Slots
      /\ \A u \in Slots : RequestOK(req[u])'
      /\ StampsFresh'
  BY <1>3, <1>4
<1> QED BY <1>2, <1>5, QuietStep

-----------------------------------------------------------------------------
(* The sales. *)

(***************************************************************************)
(* What the invariant says of one sale.                                    *)
(***************************************************************************)
LEMMA SaleTyped ==
  ASSUME Books, NEW id \in DOMAIN sales
  PROVE  /\ sales[id] \in SaleType /\ sales[id].net \in Nat /\ id \in SaleIds /\ id # NoSale
         /\ sales[id].customer \in Customers
         /\ sales[id].original \in (DOMAIN sales \ {id}) \cup {NoSale}
         /\ sales[id].source = "refund" => sales[id].status \in {"refunded", "partially_refunded"}
<1>1. sales[id] \in SaleType /\ id \in SaleIds
  BY DEF Books, TypeOK
<1>2. id # NoSale
  BY <1>1, ReceiptTyped, ReceiptsAssumption DEF SaleIds
<1>3. sales[id].net \in Nat /\ sales[id].customer \in Customers
  BY <1>1 DEF SaleType
<1>4. /\ sales[id].original \in (DOMAIN sales \ {id}) \cup {NoSale}
      /\ sales[id].source = "refund" => sales[id].status \in {"refunded", "partially_refunded"}
  BY DEF Books, SalesOK
<1> QED BY <1>1, <1>2, <1>3, <1>4

(***************************************************************************)
(* A total of amounts is the sum over the same sales of any function that  *)
(* agrees with them.                                                       *)
(***************************************************************************)
LEMMA SumOfNets ==
  ASSUME NEW S, IsFiniteSet(S), NEW f, NEW n, \A x \in S : f[x].net = n[x] /\ n[x] \in Nat
  PROVE  Total([x \in S |-> f[x].net]) = SumOver(n, S) /\ SumOver(n, S) \in Nat
<1>1. PICK g : g = [x \in S |-> f[x].net]
  OBVIOUS
<1>2. DOMAIN g = S /\ \A x \in S : g[x] = n[x]
  BY <1>1
<1>3. SumOver(g, S) = SumOver(n, S)
  BY <1>2, SumSame
<1>4. SumOver(n, S) \in Nat
  BY SumNat
<1> QED BY <1>1, <1>2, <1>3, <1>4 DEF Total

(***************************************************************************)
(* What a new receipt does to the sales.                                   *)
(***************************************************************************)
LEMMA SaleInserted ==
  ASSUME Books, NEW x, x \notin DOMAIN sales, x # NoSale, NEW sale, sale.source = "pos",
         sale.original \in DOMAIN sales \cup {NoSale}, sale.net \in Nat,
         sale.visit \in {"none", "counted"}, sale.customer \in Customers,
         sales' = InsertSale(x, sale),
         totalVisits' \in [Customers -> Nat],
         \A c \in Customers : totalVisits'[c] =
           totalVisits[c] + (IF c = sale.customer /\ sale.visit = "counted" THEN 1 ELSE 0)
  PROVE  SalesOK' /\ RefundsWithinSale' /\ VisitsCounted'
<1>1. /\ DOMAIN sales' = DOMAIN sales \cup {x}
      /\ sales'[x] = sale /\ \A id \in DOMAIN sales : sales'[id] = sales[id]
  BY DEF InsertSale
<1>2. IsFiniteSet(DOMAIN sales) /\ \A S \in SUBSET (DOMAIN sales) : IsFiniteSet(S)
  BY FS_Subset DEF Books, SalesOK
<1>3. \A id \in DOMAIN sales : /\ sales[id].net \in Nat
                               /\ sales[id].original \in (DOMAIN sales \ {id}) \cup {NoSale}
                               /\ id # NoSale
                               /\ sales[id].source = "refund" =>
                                    sales[id].status \in {"refunded", "partially_refunded"}
  BY SaleTyped
<1>4. SalesOK'
  <2>1. IsFiniteSet(DOMAIN sales')
    BY <1>1, <1>2, FS_AddElement
  <2>2. ASSUME NEW id \in DOMAIN sales'
        PROVE  /\ sales'[id].original \in (DOMAIN sales' \ {id}) \cup {NoSale}
               /\ sales'[id].source = "refund" =>
                    sales'[id].status \in {"refunded", "partially_refunded"}
    BY <1>1, <1>3
  <2> QED BY <2>1, <2>2 DEF SalesOK
<1>5. \A id \in DOMAIN sales : Refunds(id)' = Refunds(id)
  BY <1>1, <1>3 DEF Refunds, Reversals
<1>6. ASSUME NEW id \in DOMAIN sales', sales'[id].source = "pos"
      PROVE  /\ Total([y \in Refunds(id)' |-> sales'[y].net]) <= sales'[id].net
             /\ sales'[id].status = "completed" => Refunds(id)' = {}
             /\ Refunds(id)' # {} /\ Reversals(id)' = Refunds(id)' =>
                  sales'[id].status =
                    (IF AlreadyRefunded(id)' = sales'[id].net THEN "refunded"
                     ELSE "partially_refunded")
  <2>1. CASE id = x
    <3>1. Refunds(id)' = {}
      BY <1>1, <1>3, <2>1 DEF Refunds, Reversals
    <3>2. \A S : S = {} => Total([y \in S |-> sales'[y].net]) = 0
      BY SumEmpty DEF Total
    <3>3. Total([y \in Refunds(id)' |-> sales'[y].net]) = 0
      BY <3>1, <3>2
    <3> QED BY <1>1, <2>1, <3>1, <3>3
  <2>2. CASE id # x
    <3>1. id \in DOMAIN sales /\ sales'[id] = sales[id]
      BY <1>1, <2>2
    <3>2. PICK S \in SUBSET (DOMAIN sales) : S = Refunds(id)
      BY DEF Refunds, Reversals
    <3>3. Refunds(id)' = S
      BY <1>5, <3>1, <3>2
    <3>4. Total([y \in S |-> sales'[y].net]) = Total([y \in S |-> sales[y].net])
      <4>1. \A y \in S : sales'[y].net = sales[y].net
        BY <1>1
      <4> QED BY <4>1
    <3>5. Total([y \in S |-> sales[y].net]) <= sales[id].net
      BY <1>6, <3>1, <3>2 DEF Books, RefundsWithinSale
    <3>6. sales[id].status = "completed" => S = {}
      BY <1>6, <3>1, <3>2 DEF Books, RefundsWithinSale
    <3>7. ASSUME S # {}, Reversals(id)' = S
          PROVE  sales[id].status = (IF AlreadyRefunded(id)' = sales[id].net THEN "refunded"
                                     ELSE "partially_refunded")
      <4>1. Reversals(id) = S
        <5>1. Reversals(id) = Reversals(id)' \cap DOMAIN sales
          BY <1>1 DEF Reversals
        <5> QED BY <3>7, <5>1
      <4>2. AlreadyRefunded(id)' = AlreadyRefunded(id)
        <5>1. PICK A \in SUBSET S : A = {y \in S : sales[y].status \in {"refunded", "partially_refunded"}}
          OBVIOUS
        <5>2. {y \in S : sales'[y].status \in {"refunded", "partially_refunded"}} = A
          BY <1>1, <5>1
        <5>3. AlreadyRefunded(id) = Total([y \in A |-> sales[y].net])
          BY <4>1, <5>1 DEF AlreadyRefunded
        <5>4. AlreadyRefunded(id)' = Total([y \in A |-> sales'[y].net])
          BY <3>7, <5>2 DEF AlreadyRefunded
        <5>5. \A y \in A : sales'[y].net = sales[y].net
          BY <1>1
        <5> QED BY <5>3, <5>4, <5>5
      <4>3. Reversals(id) = Refunds(id) /\ Refunds(id) # {}
        BY <3>2, <3>7, <4>1
      <4> QED BY <1>6, <3>1, <4>2, <4>3 DEF Books, RefundsWithinSale
    <3> QED BY <3>1, <3>3, <3>4, <3>5, <3>6, <3>7
  <2> QED BY <2>1, <2>2
<1>7. RefundsWithinSale'
  BY <1>6 DEF RefundsWithinSale
<1>8. VisitsCounted'
  <2>1. ASSUME NEW c \in Customers
        PROVE  totalVisits'[c] = Cardinality({id \in DOMAIN sales' :
                                   sales'[id].customer = c /\ sales'[id].visit = "counted"})
    <3>1. PICK V \in SUBSET (DOMAIN sales) :
            V = {id \in DOMAIN sales : sales[id].customer = c /\ sales[id].visit = "counted"}
      OBVIOUS
    <3>2. totalVisits[c] = Cardinality(V)
      BY <3>1 DEF Books, VisitsCounted
    <3>3. PICK W : W = {id \in DOMAIN sales' : sales'[id].customer = c /\ sales'[id].visit = "counted"}
      OBVIOUS
    <3>4. IsFiniteSet(V) /\ x \notin V /\ Cardinality(V) \in Nat
      BY <1>2, <3>1, FS_CardinalityType
    <3>5. CASE c = sale.customer /\ sale.visit = "counted"
      <4>1. W = V \cup {x}
        BY <1>1, <3>1, <3>3, <3>5
      <4>2. Cardinality(W) = Cardinality(V) + 1
        BY <3>4, <4>1, FS_AddElement
      <4> QED BY <3>2, <3>3, <3>5, <4>2
    <3>6. CASE ~(c = sale.customer /\ sale.visit = "counted")
      <4>1. W = V
        BY <1>1, <3>1, <3>3, <3>6
      <4>2. totalVisits'[c] = totalVisits[c] + 0
        BY <3>6
      <4>3. totalVisits'[c] = totalVisits[c]
        BY <3>2, <3>4, <4>2
      <4> QED BY <3>1, <3>2, <3>3, <4>1, <4>3
    <3> QED BY <3>5, <3>6
  <2> QED BY <2>1 DEF VisitsCounted
<1> QED BY <1>4, <1>7, <1>8

(***************************************************************************)
(* A part of a sum of numbers is no more than the whole.                   *)
(***************************************************************************)
LEMMA PartOfSum ==
  ASSUME NEW S, IsFiniteSet(S), NEW n, \A x \in S : n[x] \in Nat, NEW A \in SUBSET S
  PROVE  /\ IsFiniteSet(A) /\ SumOver(n, A) \in Nat /\ SumOver(n, S) \in Nat
         /\ SumOver(n, A) <= SumOver(n, S)
<1>1. PICK B \in SUBSET S : B = S \ A
  OBVIOUS
<1>2. S \cap A = A /\ S \ A = B
  BY <1>1
<1>3. IsFiniteSet(A) /\ IsFiniteSet(B)
  BY FS_Subset
<1>4. SumOver(n, A) \in Nat
  BY <1>3, SumNat
<1>5. SumOver(n, B) \in Nat
  BY <1>3, SumNat
<1>6. SumOver(n, S) = SumOver(n, S \cap A) + SumOver(n, S \ A)
  <2>1. \A x \in S : n[x] \in Int
    OBVIOUS
  <2> QED BY <2>1, SumSplits
<1> QED BY <1>2, <1>3, <1>4, <1>5, <1>6

(***************************************************************************)
(* One more sale adds its amount.                                          *)
(***************************************************************************)
LEMMA OneMoreNet ==
  ASSUME NEW S, IsFiniteSet(S), NEW n, \A y \in S : n[y] \in Nat, NEW x, x \notin S, n[x] \in Nat
  PROVE  IsFiniteSet(S \cup {x}) /\ SumOver(n, S \cup {x}) = n[x] + SumOver(n, S)
<1>1. PICK T : T = S \cup {x}
  OBVIOUS
<1>2. x \in T /\ S = T \ {x} /\ IsFiniteSet(T) /\ \A y \in T : n[y] \in Int
  BY <1>1, FS_AddElement
<1>3. SumOver(n, T) = n[x] + SumOver(n, S)
  BY <1>2, SumTake
<1> QED BY <1>1, <1>2, <1>3

(***************************************************************************)
(* What a refund of sale o under the external id x does to the sales.      *)
(***************************************************************************)
LEMMA SaleRefunded ==
  ASSUME Books, NEW o \in DOMAIN sales, NEW x, x \notin DOMAIN sales, x # NoSale,
         NEW amount \in Nat, NEW left \in Nat, left = Remaining(o) - amount,
         NEW full \in BOOLEAN, full <=> left = 0,
         NEW status, status = IF full THEN "refunded" ELSE "partially_refunded",
         DOMAIN sales' = DOMAIN sales \cup {x},
         sales'[x].net = amount, sales'[x].original = o, sales'[x].source = "refund",
         sales'[x].status = status, sales'[x].visit = "none",
         sales'[o].net = sales[o].net, sales'[o].original = sales[o].original,
         sales'[o].source = sales[o].source, sales'[o].customer = sales[o].customer,
         sales'[o].status = status,
         sales'[o].visit = IF full /\ sales[o].visit = "counted" THEN "reversed"
                           ELSE sales[o].visit,
         \A id \in DOMAIN sales : id # o => sales'[id] = sales[id],
         totalVisits' = [totalVisits EXCEPT ![sales[o].customer] = VisitsAfter(sales[o], full)]
  PROVE  SalesOK' /\ RefundsWithinSale' /\ VisitsCounted'
<1>1. IsFiniteSet(DOMAIN sales) /\ \A S \in SUBSET (DOMAIN sales) : IsFiniteSet(S)
  BY FS_Subset DEF Books, SalesOK
<1>2. \A id \in DOMAIN sales : /\ sales[id].net \in Nat
                               /\ sales[id].original \in (DOMAIN sales \ {id}) \cup {NoSale}
                               /\ id # NoSale
                               /\ sales[id].source = "refund" =>
                                    sales[id].status \in {"refunded", "partially_refunded"}
  BY SaleTyped
<1>3. status \in {"refunded", "partially_refunded"} /\ o # x
  OBVIOUS
<1>4. \A id \in DOMAIN sales : /\ sales'[id].net = sales[id].net
                               /\ sales'[id].original = sales[id].original
                               /\ sales'[id].source = sales[id].source
                               /\ sales'[id].customer = sales[id].customer
  OBVIOUS
<1>5. SalesOK'
  <2>1. IsFiniteSet(DOMAIN sales')
    BY <1>1, FS_AddElement
  <2>2. ASSUME NEW id \in DOMAIN sales'
        PROVE  /\ sales'[id].original \in (DOMAIN sales' \ {id}) \cup {NoSale}
               /\ sales'[id].source = "refund" =>
                    sales'[id].status \in {"refunded", "partially_refunded"}
    <3>1. CASE id = x
      BY <1>3, <3>1
    <3>2. CASE id = o
      BY <1>2, <1>3, <1>4, <3>2
    <3>3. CASE id # x /\ id # o
      BY <1>2, <3>3
    <3> QED BY <3>1, <3>2, <3>3
  <2> QED BY <2>1, <2>2 DEF SalesOK
<1>6. PICK n : n = [y \in DOMAIN sales' |-> sales'[y].net]
  OBVIOUS
<1>7. /\ n[x] = amount /\ \A y \in DOMAIN sales : n[y] = sales[y].net /\ n[y] \in Nat
      /\ \A y \in DOMAIN sales' : n[y] = sales'[y].net
  BY <1>2, <1>4, <1>6
<1>8. ASSUME NEW S \in SUBSET (DOMAIN sales)
      PROVE  /\ Total([y \in S |-> sales[y].net]) = SumOver(n, S)
             /\ Total([y \in S |-> sales'[y].net]) = SumOver(n, S)
             /\ SumOver(n, S) \in Nat
  <2>1. IsFiniteSet(S)
    BY <1>1
  <2>2. /\ \A y \in S : sales[y].net = n[y] /\ n[y] \in Nat
        /\ \A y \in S : sales'[y].net = n[y] /\ n[y] \in Nat
    BY <1>4, <1>7
  <2>3. Total([y \in S |-> sales[y].net]) = SumOver(n, S) /\ SumOver(n, S) \in Nat
    BY <2>1, <2>2, SumOfNets
  <2>4. PICK f : f = sales'
    OBVIOUS
  <2>5. Total([y \in S |-> f[y].net]) = SumOver(n, S)
    BY <2>1, <2>2, <2>4, SumOfNets
  <2> QED BY <2>3, <2>4, <2>5
<1>9. ASSUME NEW S \in SUBSET (DOMAIN sales)
      PROVE  Total([y \in S \cup {x} |-> sales'[y].net]) = SumOver(n, S) + amount
  <2>1. IsFiniteSet(S) /\ x \notin S /\ \A y \in S : n[y] \in Nat
    BY <1>1, <1>7
  <2>2. PICK T : T = S \cup {x}
    OBVIOUS
  <2>3. IsFiniteSet(T) /\ SumOver(n, T) = n[x] + SumOver(n, S)
    <3>1. n[x] \in Nat
      BY <1>7
    <3>2. IsFiniteSet(S \cup {x}) /\ SumOver(n, S \cup {x}) = n[x] + SumOver(n, S)
      BY <2>1, <3>1, OneMoreNet
    <3> QED BY <2>2, <3>2
  <2>4. PICK f : f = sales'
    OBVIOUS
  <2>5. \A y \in T : f[y].net = n[y] /\ n[y] \in Nat
    BY <1>7, <2>1, <2>2, <2>4
  <2>6. Total([y \in T |-> f[y].net]) = SumOver(n, T)
    BY <2>3, <2>5, SumOfNets
  <2>7. Total([y \in S \cup {x} |-> sales'[y].net]) = SumOver(n, T)
    BY <2>2, <2>4, <2>6
  <2>8. SumOver(n, S) \in Nat /\ SumOver(n, T) = amount + SumOver(n, S)
    BY <1>7, <1>8, <2>3
  <2> QED BY <2>7, <2>8
<1>10. ASSUME NEW id \in DOMAIN sales', sales'[id].source = "pos"
       PROVE  /\ Total([y \in Refunds(id)' |-> sales'[y].net]) <= sales'[id].net
              /\ sales'[id].status = "completed" => Refunds(id)' = {}
              /\ Refunds(id)' # {} /\ Reversals(id)' = Refunds(id)' =>
                   sales'[id].status =
                     (IF AlreadyRefunded(id)' = sales'[id].net THEN "refunded"
                      ELSE "partially_refunded")
  <2>1. id # x /\ id \in DOMAIN sales /\ sales[id].source = "pos"
    BY <1>4, <1>10
  <2>2. PICK S \in SUBSET (DOMAIN sales) : S = Reversals(id)
    BY DEF Reversals
  <2>3. PICK R \in SUBSET S : R = {y \in S : sales[y].source = "refund"}
    OBVIOUS
  <2>10. R = Refunds(id)
    BY <2>2, <2>3 DEF Refunds
  <2>4. PICK A \in SUBSET S : A = {y \in S : sales[y].status \in {"refunded", "partially_refunded"}}
    OBVIOUS
  <2>5. R \subseteq A /\ R \in SUBSET (DOMAIN sales) /\ A \in SUBSET (DOMAIN sales)
    BY <1>2, <2>2, <2>3, <2>4
  <2>6. AlreadyRefunded(id) = SumOver(n, A)
    <3>1. AlreadyRefunded(id) = Total([y \in A |-> sales[y].net])
      BY <2>2, <2>4 DEF AlreadyRefunded
    <3> QED BY <1>8, <2>5, <3>1
  <2>7. SumOver(n, R) \in Nat /\ SumOver(n, A) \in Nat /\ SumOver(n, R) <= SumOver(n, A)
    <3>1. IsFiniteSet(A) /\ (\A y \in A : n[y] \in Nat) /\ R \in SUBSET A
      BY <1>1, <1>7, <2>5
    <3> QED BY <3>1, PartOfSum
  <2>8. CASE id = o
    <3>1. Reversals(id)' = S \cup {x}
      BY <1>4, <2>2, <2>8 DEF Reversals
    <3>2. Refunds(id)' = R \cup {x}
      BY <1>4, <2>2, <2>3, <3>1 DEF Refunds
    <3>3. Total([y \in Refunds(id)' |-> sales'[y].net]) = SumOver(n, R) + amount
      BY <1>9, <2>5, <3>2
    <3>4. sales[o].net \in Nat /\ left = sales[o].net - SumOver(n, A) - amount
      BY <1>2, <2>6, <2>8 DEF Remaining
    <3>5. Total([y \in Refunds(id)' |-> sales'[y].net]) <= sales'[id].net
      BY <2>7, <2>8, <3>3, <3>4
    <3>6. sales'[id].status # "completed"
      BY <1>3, <2>8
    <3>7. ASSUME Reversals(id)' = Refunds(id)'
          PROVE  full <=> AlreadyRefunded(id)' = sales'[id].net
      <4>1. S = R /\ A = S
        BY <2>5, <3>1, <3>2, <3>7
      <4>2. {y \in S \cup {x} : sales'[y].status \in {"refunded", "partially_refunded"}} = S \cup {x}
        BY <1>3, <2>4, <4>1
      <4>3. AlreadyRefunded(id)' = SumOver(n, S) + amount
        BY ZenonT(30), <1>9, <3>1, <4>2 DEF AlreadyRefunded
      <4> QED BY <2>7, <2>8, <3>4, <4>1, <4>3
    <3> QED BY <2>8, <3>5, <3>6, <3>7
  <2>9. CASE id # o
    <3>1. Reversals(id)' = S
      BY <1>4, <2>2, <2>9 DEF Reversals
    <3>2. Refunds(id)' = R
      BY <1>4, <2>2, <2>3, <3>1 DEF Refunds
    <3>3. sales'[id] = sales[id]
      BY <2>1, <2>9
    <3>4. Total([y \in R |-> sales[y].net]) <= sales[id].net
      BY <2>1, <2>10 DEF Books, RefundsWithinSale
    <3>5. Total([y \in R |-> sales'[y].net]) = Total([y \in R |-> sales[y].net])
      BY <1>8, <2>5
    <3>6. sales[id].status = "completed" => R = {}
      BY <2>1, <2>10 DEF Books, RefundsWithinSale
    <3>7. ASSUME R # {}, S = R
          PROVE  sales[id].status = (IF AlreadyRefunded(id)' = sales[id].net THEN "refunded"
                                     ELSE "partially_refunded")
      <4>1. A = S
        BY <2>5, <3>7
      <4>2. {y \in S : sales'[y].status \in {"refunded", "partially_refunded"}} = A
        BY <1>3, <2>4, <4>1
      <4>3. AlreadyRefunded(id)' = Total([y \in A |-> sales'[y].net])
        BY <3>1, <4>2 DEF AlreadyRefunded
      <4>4. AlreadyRefunded(id)' = AlreadyRefunded(id)
        BY <1>8, <2>5, <2>6, <4>3
      <4> QED BY <2>1, <2>2, <2>10, <3>7, <4>4 DEF Books, RefundsWithinSale
    <3> QED BY <3>1, <3>2, <3>3, <3>4, <3>5, <3>6, <3>7
  <2> QED BY <2>8, <2>9
<1>11. RefundsWithinSale'
  BY <1>10 DEF RefundsWithinSale
<1>12. VisitsCounted'
  <2>1. ASSUME NEW c \in Customers
        PROVE  totalVisits'[c] = Cardinality({id \in DOMAIN sales' :
                                   sales'[id].customer = c /\ sales'[id].visit = "counted"})
    <3>1. PICK V \in SUBSET (DOMAIN sales) :
            V = {id \in DOMAIN sales : sales[id].customer = c /\ sales[id].visit = "counted"}
      OBVIOUS
    <3>2. totalVisits[c] = Cardinality(V) /\ IsFiniteSet(V) /\ Cardinality(V) \in Nat
      BY <1>1, <3>1, FS_CardinalityType DEF Books, VisitsCounted
    <3>3. PICK W : W = {id \in DOMAIN sales' : sales'[id].customer = c /\ sales'[id].visit = "counted"}
      OBVIOUS
    <3>4. DOMAIN totalVisits = Customers
      BY DEF Books, TypeOK
    <3>5. CASE c = sales[o].customer /\ full /\ sales[o].visit = "counted"
      <4>1. W = V \ {o} /\ o \in V
        BY <1>4, <3>1, <3>3, <3>5
      <4>2. Cardinality(W) = Cardinality(V) - 1 /\ Cardinality(W) \in Nat
        BY <3>2, <4>1, FS_RemoveElement, FS_CardinalityType
      <4>3. totalVisits'[c] = Max({0, totalVisits[c] - 1})
        BY <3>4, <3>5 DEF VisitsAfter
      <4>4. Max({0, totalVisits[c] - 1}) = totalVisits[c] - 1
        <5>1. PICK m \in Nat : m = totalVisits[c] - 1
          BY <3>2, <4>2
        <5>2. Max({0, m}) = m
          BY MaxOfTwo
        <5> QED BY <5>1, <5>2
      <4> QED BY <3>2, <3>3, <4>2, <4>3, <4>4
    <3>6. CASE ~(c = sales[o].customer /\ full /\ sales[o].visit = "counted")
      <4>1. W = V
        BY <1>4, <3>1, <3>3, <3>6
      <4>2. totalVisits'[c] = totalVisits[c]
        BY <3>4, <3>6 DEF VisitsAfter
      <4> QED BY <3>2, <3>3, <4>1, <4>2
    <3> QED BY <3>5, <3>6
  <2> QED BY <2>1 DEF VisitsCounted
<1> QED BY <1>5, <1>11, <1>12

-----------------------------------------------------------------------------
(* The shares of a refund. *)

(***************************************************************************)
(* The points a refund derives its shares from are numbers.                *)
(***************************************************************************)
LEMMA LedgerSumNat ==
  ASSUME Books, NEW op, NEW ids
  PROVE  LedgerSum(op, ids) \in Nat
<1> DEFINE D(l) == {j \in 1..Len(l) : l[j].op = op /\ l[j].ref \in ids}
           g(l) == [i \in D(l) |-> l[i].amount]
<1>1. PICK h : h = [c \in Customers |-> Total(g(account[c].ledger))]
  OBVIOUS
<1>2. ASSUME NEW c \in Customers PROVE h[c] \in Nat
  <2>1. PICK l : l = account[c].ledger
    OBVIOUS
  <2>2. l \in Seq(RowType) /\ Len(l) \in Nat
    BY <2>1 DEF Books, AccountOK, IsAccount
  <2>3. IsFiniteSet(D(l))
    <3>1. IsFiniteSet(1..Len(l))
      BY <2>2, FS_Interval
    <3> QED BY <3>1, FS_Subset
  <2>4. PICK e : e = g(l)
    OBVIOUS
  <2>5. DOMAIN e = D(l) /\ \A i \in D(l) : e[i] \in Nat
    <3>1. \A i \in D(l) : l[i] \in RowType
      BY <2>2
    <3>2. \A i \in D(l) : l[i].amount \in Nat
      BY <3>1 DEF RowType
    <3> QED BY <2>4, <3>2
  <2>6. SumOver(e, DOMAIN e) \in Nat
    <3> HIDE DEF D
    <3> QED BY <2>3, <2>5, SumNat
  <2>7. h[c] = Total(e)
    BY <1>1, <2>1, <2>4
  <2> QED BY <2>6, <2>7 DEF Total
<1>3. IsFiniteSet(Customers)
  BY ReceiptsAssumption, FS_AddElement DEF Customers
<1>4. SumOver(h, Customers) \in Nat
  BY <1>2, <1>3, SumNat
<1>5. LedgerSum(op, ids) = Total(h)
  BY <1>1 DEF LedgerSum
<1>6. DOMAIN h = Customers
  BY <1>1
<1> QED BY <1>4, <1>5, <1>6 DEF Total

(***************************************************************************)
(* A share, rounded either way, is a number.                               *)
(***************************************************************************)
LEMMA ShareNat ==
  ASSUME NEW points \in Nat, NEW done \in Nat, NEW amount \in Nat, NEW net \in Nat \ {0},
         NEW full \in BOOLEAN, NEW w \in Share(points, done, amount, net, full)
  PROVE  w \in Nat
<1>1. CASE full
  <2>1. PICK d \in Int : d = points - done
    OBVIOUS
  <2>2. w = Max({0, d})
    BY <1>1, <2>1 DEF Share
  <2> QED BY <2>1, <2>2, MaxOfTwo
<1>2. CASE ~full
  <2>1. PICK p \in Nat : p = points * amount
    OBVIOUS
  <2>2. PICK q : q = p \div net
    OBVIOUS
  <2>3. q \in Nat
    BY <2>2
  <2>4. w \in IF p % net = 0 /\ q > 0 THEN {q - 1, q} ELSE {q}
    BY <1>2, <2>1, <2>2 DEF Share, ProRata
  <2> QED BY <2>3, <2>4
<1> QED BY <1>1, <1>2

-----------------------------------------------------------------------------
(* What the three commits do to the accounts. *)

(***************************************************************************)
(* Ingest writes receipt rows to the buyer's account only.                 *)
(***************************************************************************)
LEMMA IngestAccounts ==
  ASSUME Books, NEW s \in Slots, IngestCommit(s)
  PROVE  /\ req[s].kind = "ingest" /\ req[s].what \in PosReceipts /\ DOMAIN account' = Customers
         /\ \A d \in Customers : /\ AccountOK(account'[d])
                                 /\ Grown(account[d], account'[d], {"receipt"})
                                 /\ DOMAIN account'[d].lots \subseteq DOMAIN account[d].lots \cup {req[s].at}
<1>1. PICK r, at, c : r = req[s].what /\ at = req[s].at /\ c = r.customer
  OBVIOUS
<1>2. req[s].kind = "ingest" /\ r \in PosReceipts
  BY <1>1, BooksFacts DEF IngestCommit, RequestOK
<1>3. DOMAIN account = Customers /\ clock \in Time /\ at \in Time
  BY <1>1, BooksFacts
<1>4. /\ Loyal(r) => PurchaseAllowed(account[c], r, at)
      /\ account' = IF Loyal(r) THEN [account EXCEPT ![c] = Purchase(@, r, at)] ELSE account
  BY <1>1 DEF IngestCommit
<1>5. c \in Customers /\ at \notin DOMAIN account[c].lots
  <2>1. c \in Customers
    BY <1>1, <1>2, ReceiptTyped
  <2>2. Writes(req[s])
    BY <1>2 DEF Writes
  <2> QED BY <1>1, <2>1, <2>2 DEF Books, StampsFresh
<1>6. ASSUME NEW d \in Customers
      PROVE  /\ AccountOK(account'[d]) /\ Grown(account[d], account'[d], {"receipt"})
             /\ DOMAIN account'[d].lots \subseteq DOMAIN account[d].lots \cup {at}
  <2>1. AccountOK(account[d])
    BY BooksFacts
  <2>2. CASE d = c /\ Loyal(r)
    <3>1. PICK a, b : a = account[d] /\ b = account'[d]
      OBVIOUS
    <3>2. b = Purchase(a, r, at) /\ PurchaseAllowed(a, r, at) /\ AccountOK(a) /\ at \notin DOMAIN a.lots
      BY <1>3, <1>4, <1>5, <2>1, <2>2, <3>1
    <3> QED BY <1>2, <1>3, <3>1, <3>2, PurchaseOK
  <2>3. CASE ~(d = c /\ Loyal(r))
    <3>1. account'[d] = account[d]
      BY <1>3, <1>4, <1>5, <2>3
    <3>2. account[d].ledger \in Seq(RowType)
      BY <2>1 DEF AccountOK, IsAccount
    <3> QED BY <2>1, <3>1, <3>2, GrownSame
  <2> QED BY <2>2, <2>3
<1>7. DOMAIN account' = Customers
  BY <1>3, <1>4
<1> QED BY <1>1, <1>2, <1>6, <1>7

(***************************************************************************)
(* The worker writes at most one row, to the account of the beneficiary.   *)
(***************************************************************************)
LEMMA PayAccounts ==
  ASSUME Books, NEW s \in Slots, PayCommit(s), NEW k, k = req[s].what
  PROVE  /\ k \in DOMAIN rewards /\ k[1] \in Friends /\ Beneficiary(k) \in Customers
         /\ clock' = clock + 1 /\ clock' \in Time /\ DOMAIN account' = Customers
         /\ \A d \in Customers : /\ AccountOK(account'[d])
                                 /\ DOMAIN account'[d].lots \subseteq DOMAIN account[d].lots \cup {clock'}
                                 /\ d # Beneficiary(k) => account'[d] = account[d]
                                 /\ d = Beneficiary(k) =>
                                      \/ /\ account'[d] = account[d]
                                         /\ HasRow(account[d], "referral", k[1])
                                      \/ /\ ~HasRow(account[d], "referral", k[1])
                                         /\ OneRow(account[d], account'[d], "referral", k[1],
                                                   RewardValue(k[2]))
<1>1. req[s].kind = "pay" /\ k \in DOMAIN rewards
  BY BooksFacts DEF PayCommit, RequestOK
<1>2. k \in Friends \X Roles
  BY <1>1 DEF Books, TypeOK
<1>3. PICK c : c = Beneficiary(k)
  OBVIOUS
<1>4. k[1] \in Friends /\ c \in Customers
  BY <1>2, <1>3 DEF Beneficiary, Customers
<1>5. /\ DOMAIN account = Customers /\ clock \in Nat /\ clock \in Time /\ clock <= MaxClock
      /\ MaxClock \in Nat /\ RewardValue(k[2]) > 0
  BY <1>1, BooksFacts
<1>6. clock' = clock + 1 /\ clock < MaxClock /\ account' = [account EXCEPT ![c] = Paid(@, k, clock')]
  BY <1>3 DEF PayCommit, Now
<1>7. clock' \in Time
  BY <1>5, <1>6 DEF Time
<1>8. \A d \in Customers : clock' \notin DOMAIN account[d].lots /\ AccountOK(account[d])
  <2>1. \A d \in Customers : DOMAIN account[d].lots \subseteq 0..clock
    BY DEF Books, StampsFresh
  <2> QED BY <1>5, <1>6, <2>1, BooksFacts
<1>9. ASSUME NEW d \in Customers, d = c
      PROVE  /\ AccountOK(account'[d])
             /\ DOMAIN account'[d].lots \subseteq DOMAIN account[d].lots \cup {clock'}
             /\ \/ account'[d] = account[d] /\ HasRow(account[d], "referral", k[1])
                \/ /\ ~HasRow(account[d], "referral", k[1])
                   /\ OneRow(account[d], account'[d], "referral", k[1], RewardValue(k[2]))
  <2>1. PICK a, b, at : a = account[d] /\ b = account'[d] /\ at = clock'
    OBVIOUS
  <2>2. b = Paid(a, k, at) /\ AccountOK(a) /\ at \in Time /\ at \notin DOMAIN a.lots
    BY <1>5, <1>6, <1>7, <1>8, <1>9, <2>1
  <2>3. /\ AccountOK(b) /\ DOMAIN b.lots \subseteq DOMAIN a.lots \cup {at}
        /\ \/ b = a /\ HasRow(a, "referral", k[1])
           \/ /\ ~HasRow(a, "referral", k[1])
              /\ OneRow(a, b, "referral", k[1], RewardValue(k[2]))
    BY <1>4, <1>5, <2>2, PaidOK
  <2> QED BY <2>1, <2>3
<1>10. ASSUME NEW d \in Customers, d # c PROVE account'[d] = account[d]
  BY <1>5, <1>6, <1>10
<1>11. DOMAIN account' = Customers
  BY <1>5, <1>6
<1>12. ASSUME NEW d \in Customers
       PROVE  /\ AccountOK(account'[d])
              /\ DOMAIN account'[d].lots \subseteq DOMAIN account[d].lots \cup {clock'}
  <2>1. CASE d = c
    BY <1>9, <2>1
  <2>2. CASE d # c
    BY <1>8, <1>10, <2>2
  <2> QED BY <2>1, <2>2
<1> QED BY <1>1, <1>3, <1>4, <1>6, <1>7, <1>9, <1>10, <1>11, <1>12

(***************************************************************************)
(* b's ledger is m's and one row that recovers an issued reward of d that  *)
(* m's ledger did not recover.                                             *)
(***************************************************************************)
Recovered(m, b, d, f) ==
  /\ d \in {f, Referrer}
  /\ OneRow(m, b, "referral_reversal", f, Due(m, RewardOf(d, f)))
  /\ Issued(RewardOf(d, f)) /\ ~HasRow(m, "referral_reversal", f)

(***************************************************************************)
(* Taking the rewards of a disqualified referral back changes at most the  *)
(* accounts of the friend and of the referrer, by one row each.            *)
(***************************************************************************)
LEMMA RecoverAllOK ==
  ASSUME clock \in Time, NEW accounts, \A d \in Customers : AccountOK(accounts[d]),
         NEW out \in SUBSET Friends, NEW refund \in RefundIds, NEW at \in Time,
         \A f \in out : /\ CanRecover(accounts[f], <<f, "friend">>, f, at)
                        /\ CanRecover(accounts[Referrer], <<f, "referrer">>, Referrer, at),
         NEW d \in Customers, NEW b, b = RecoverAll(accounts, out, refund, at)[d]
  PROVE  /\ AccountOK(b) /\ DOMAIN b.lots = DOMAIN accounts[d].lots
         /\ b = accounts[d] \/ \E f \in out : Recovered(accounts[d], b, d, f)
<1>1. PICK m : m = accounts[d]
  OBVIOUS
<1>2. Referrer \notin Friends
  BY ReceiptsAssumption
<1>3. ASSUME NEW f \in out, d \in {f, Referrer}, b = Recover(m, RewardOf(d, f), refund, at)
      PROVE  /\ AccountOK(b) /\ DOMAIN b.lots = DOMAIN m.lots
             /\ b = m \/ Recovered(m, b, d, f)
  <2>1. PICK k : k = RewardOf(d, f)
    OBVIOUS
  <2>2. k[1] = f /\ f \in Friends
    BY <2>1 DEF RewardOf
  <2>3. CanRecover(m, k, d, at)
    <3>1. CASE d = Referrer
      BY <1>1, <2>1, <3>1 DEF RewardOf
    <3>2. CASE d # Referrer
      BY <1>1, <1>3, <2>1, <3>2 DEF RewardOf
    <3> QED BY <3>1, <3>2
  <2>4. AccountOK(m)
    BY <1>1
  <2>5. Due(m, k) > 0 => LotsSuffice(m.lots, at, Due(m, k))
    BY <2>3, <2>4, DueBounded DEF CanRecover
  <2>6. /\ AccountOK(b) /\ DOMAIN b.lots = DOMAIN m.lots
        /\ \/ b = m
           \/ /\ OneRow(m, b, "referral_reversal", k[1], Due(m, k))
              /\ Issued(k) /\ ~HasRow(m, "referral_reversal", k[1])
    BY <1>3, <2>1, <2>2, <2>4, <2>5, RecoverOK
  <2> QED BY <1>3, <2>1, <2>2, <2>6 DEF Recovered
<1>4. CASE d \in out
  <2>1. b = Recover(m, RewardOf(d, d), refund, at)
    BY <1>1, <1>2, <1>4 DEF RecoverAll, RewardOf
  <2> QED BY <1>1, <1>3, <1>4, <2>1
<1>5. CASE d \notin out /\ d = Referrer /\ out # {}
  <2>1. PICK f \in out : b = Recover(m, RewardOf(d, f), refund, at)
    <3>1. PICK f \in out : f = CHOOSE g \in out : TRUE
      BY <1>5
    <3> QED BY <1>1, <1>5, <3>1 DEF RecoverAll, RewardOf
  <2> QED BY <1>1, <1>3, <1>5, <2>1
<1>6. CASE d \notin out /\ ~(d = Referrer /\ out # {})
  <2>1. b = m
    BY Zenon, <1>1, <1>6 DEF RecoverAll
  <2> QED BY <1>1, <2>1
<1> QED BY <1>4, <1>5, <1>6

(***************************************************************************)
(* The accounts between the two halves of a refund: the buyer's has its    *)
(* refund rows, and the rewards of the disqualified referral are taken     *)
(* back from there.                                                        *)
(***************************************************************************)
Between(accounts, out, ext, at) ==
  /\ \A d \in Customers : /\ AccountOK(accounts[d])
                          /\ Grown(account[d], accounts[d], {"refund"})
                          /\ DOMAIN accounts[d].lots \subseteq DOMAIN account[d].lots \cup {at}
  /\ \A f \in out : /\ CanRecover(accounts[f], <<f, "friend">>, f, at)
                    /\ CanRecover(accounts[Referrer], <<f, "referrer">>, Referrer, at)
  /\ account' = RecoverAll(accounts, out, ext, at)
  /\ rewards' = RevokeRewards(accounts, out)

(***************************************************************************)
(* The refund is written as a sale, and its original is marked.            *)
(***************************************************************************)
RefundWritten(r, c, status, full, short) ==
  sales' = [InsertSale(r.ext,
              [customer |-> c, net |-> r.amount, status |-> status,
               source |-> "refund", original |-> r.original,
               visit |-> "none", short |-> short])
            EXCEPT ![r.original].status = status,
                   ![r.original].visit =
                     IF full /\ @ = "counted" THEN "reversed" ELSE @]

(***************************************************************************)
(* The two shares of a refund, what of them reaches the buyer's account b, *)
(* and what it leaves there.                                               *)
(***************************************************************************)
RefundShares(r, at, b, net, full, wanted, restored, reversed, short, a) ==
  /\ wanted \in Share(LedgerSum("credit", {r.original}), LedgerSum("debit", Reversals(r.original)),
                      r.amount, net, full)
  /\ restored \in Share(LedgerSum("debit", {r.original}), LedgerSum("credit", Reversals(r.original)),
                        r.amount, net, full)
  /\ wanted \in Nat /\ restored \in Nat /\ reversed \in Nat /\ short \in Nat
  /\ wanted = reversed + short /\ reversed <= b.points
  /\ reversed > 0 => LotsSuffice(b.lots, at, reversed)
  /\ a \in RefundedAccount(b, reversed, restored, r.original, Row("refund", r.ext, Nobody, at))

RefundPaid(r, at, c, full, status, out) ==
  \E wanted, restored, reversed, short, a :
    /\ RefundShares(r, at, account[c], sales[r.original].net, full,
                    wanted, restored, reversed, short, a)
    /\ Between([account EXCEPT ![c] = a], out, r.ext, at)
    /\ RefundWritten(r, c, status, full, short)

(***************************************************************************)
(* Refund writes refund rows to the buyer's account, and then takes back   *)
(* the rewards of the referral that no longer qualifies.                   *)
(***************************************************************************)
LEMMA RefundFacts ==
  ASSUME Books, NEW s \in Slots, RefundCommit(s), NEW r, r = req[s].what, NEW at, at = req[s].at,
         NEW c, c = sales[r.original].customer,
         NEW left, left = Remaining(r.original) - r.amount,
         NEW full, full = (left = 0),
         NEW status, status = (IF full THEN "refunded" ELSE "partially_refunded"),
         NEW out, out = Disqualified(r.original, left)
  PROVE  /\ req[s].kind = "refund" /\ r.original \in DOMAIN sales /\ r.ext \in RefundIds
         /\ r.amount \in Nat /\ r.ext \notin DOMAIN sales /\ c \in Customers /\ out \subseteq Friends
         /\ left \in Nat
         /\ \E accounts : Between(accounts, out, r.ext, at)
         /\ \E short \in Nat : RefundWritten(r, c, status, full, short)
         /\ RefundPaid(r, at, c, full, status, out)
<1>1. PICK o, net : o = r.original /\ net = sales[o].net
  BY Zenon
<1>2. /\ req[s].kind = "refund" /\ o \in DOMAIN sales /\ r.ext \in RefundIds /\ r.amount \in 1..net
  BY ZenonT(30), <1>1, BooksFacts DEF RefundCommit, RequestOK
<1>3. c \in Customers /\ net \in Nat
  BY <1>1, <1>2, SaleTyped
<1>4. r.amount \in Nat /\ net \in Nat \ {0} /\ r.ext \notin DOMAIN sales
  <2>1. r.ext \notin DOMAIN sales
    BY DEF RefundCommit
  <2> QED BY SMTT(30), <1>2, <1>3, <2>1
<1>5. out \subseteq Friends
  BY DEF Disqualified
<1>6. at \in Time /\ clock \in Time /\ DOMAIN account = Customers
      /\ \A d \in Customers : AccountOK(account[d])
  BY BooksFacts
<1>7. at \notin DOMAIN account[c].lots
  <2>1. Writes(req[s])
    BY <1>2 DEF Writes
  <2> QED BY <1>3, <2>1 DEF Books, StampsFresh
<1>8. PICK credits \in Nat, debits \in Nat, undone \in Nat, redone \in Nat :
        /\ credits = LedgerSum("credit", {o}) /\ debits = LedgerSum("debit", {o})
        /\ undone = LedgerSum("debit", Reversals(o)) /\ redone = LedgerSum("credit", Reversals(o))
  BY LedgerSumNat
<1>9. full \in BOOLEAN
  BY ZenonT(30)
<1> DEFINE R == req[s].what
           T == req[s].at
           C == sales[R.original].customer
           L == Remaining(R.original) - R.amount
           F == L = 0
           S == IF F THEN "refunded" ELSE "partially_refunded"
           X == Disqualified(R.original, L)
           Wanted == Share(LedgerSum("credit", {R.original}),
                           LedgerSum("debit", Reversals(R.original)),
                           R.amount, sales[R.original].net, F)
           Restored == Share(LedgerSum("debit", {R.original}),
                             LedgerSum("credit", Reversals(R.original)),
                             R.amount, sales[R.original].net, F)
           Accounts(accounts) ==
             /\ \A f \in X :
                  /\ CanRecover(accounts[f], <<f, "friend">>, f, T)
                  /\ CanRecover(accounts[Referrer], <<f, "referrer">>, Referrer, T)
             /\ account' = RecoverAll(accounts, X, R.ext, T)
             /\ rewards' = RevokeRewards(accounts, X)
           Written(short) ==
             sales' = [InsertSale(R.ext,
                         [customer |-> C, net |-> R.amount, status |-> S,
                          source |-> "refund", original |-> R.original,
                          visit |-> "none", short |-> short])
                       EXCEPT ![R.original].status = S,
                              ![R.original].visit =
                                IF F /\ @ = "counted" THEN "reversed" ELSE @]
           Effect(wanted, restored, reversed) ==
             /\ reversed > 0 => LotsSuffice(account[C].lots, T, reversed)
             /\ \E a \in RefundedAccount(account[C], reversed, restored, R.original,
                                         Row("refund", R.ext, Nobody, T)) :
                  Accounts([account EXCEPT ![C] = a])
             /\ Written(wanted - reversed)
<1>10. \E wanted \in Wanted, restored \in Restored :
         Effect(wanted, restored, Min({wanted, account[C].points}))
  BY DEF RefundCommit
<1>11. /\ r = R /\ at = T /\ c = C /\ left = L /\ full = F /\ status = S /\ out = X /\ o = R.original
       /\ Wanted = Share(credits, undone, r.amount, net, full)
       /\ Restored = Share(debits, redone, r.amount, net, full)
  BY <1>1, <1>8
<1> HIDE DEF R, T, C, L, F, S, X, Wanted, Restored, Effect, Accounts, Written
<1>a. PICK wanted \in Wanted, restored \in Restored :
        Effect(wanted, restored, Min({wanted, account[C].points}))
  BY <1>10
<1>12. wanted \in Nat /\ restored \in Nat
  <2>1. wanted \in Nat
    BY <1>4, <1>8, <1>9, <1>11, <1>a, ShareNat
  <2>2. restored \in Nat
    BY <1>4, <1>8, <1>9, <1>11, <1>a, ShareNat
  <2> QED BY <2>1, <2>2
<1>13. PICK reversed : reversed = Min({wanted, account[c].points})
  BY SMTT(30)
<1>14. reversed \in Nat /\ reversed <= account[c].points /\ wanted - reversed \in Nat
  <2>1. PICK p \in Nat : p = account[c].points
    BY SMTT(30), <1>3, <1>6 DEF AccountOK, IsAccount
  <2>2. reversed = Min({wanted, p})
    BY <1>13, <2>1
  <2>3. reversed \in Nat /\ reversed <= wanted /\ reversed <= p
    BY <1>12, <2>2, MinOfTwo
  <2> QED BY SMTT(30), <1>12, <2>1, <2>3
<1>15. PICK a \in RefundedAccount(account[c], reversed, restored, o, Row("refund", r.ext, Nobody, at)) :
         Accounts([account EXCEPT ![c] = a])
  BY <1>11, <1>13, <1>a DEF Effect
<1>16. reversed > 0 => LotsSuffice(account[c].lots, at, reversed)
  BY <1>11, <1>13, <1>a DEF Effect
<1>17. PICK accounts : accounts = [account EXCEPT ![c] = a]
  OBVIOUS
<1>18. /\ \A f \in out : /\ CanRecover(accounts[f], <<f, "friend">>, f, at)
                         /\ CanRecover(accounts[Referrer], <<f, "referrer">>, Referrer, at)
       /\ account' = RecoverAll(accounts, out, r.ext, at)
       /\ rewards' = RevokeRewards(accounts, out)
  <2>1. Accounts(accounts)
    BY <1>15, <1>17
  <2> QED BY <1>11, <2>1 DEF Accounts
<1>19. ASSUME NEW d \in Customers
       PROVE  /\ AccountOK(accounts[d]) /\ Grown(account[d], accounts[d], {"refund"})
              /\ DOMAIN accounts[d].lots \subseteq DOMAIN account[d].lots \cup {at}
  <2>1. CASE d = c
    <3>1. PICK b : b = account[c]
      BY SMTT(30)
    <3>2. a \in RefundedAccount(b, reversed, restored, o, Row("refund", r.ext, Nobody, at))
      BY SMTT(30), <1>15, <3>1
    <3>3. AccountOK(b) /\ reversed <= b.points /\ at \notin DOMAIN b.lots
      BY SMTT(30), <1>3, <1>6, <1>7, <1>14, <3>1
    <3>7. reversed > 0 => LotsSuffice(b.lots, at, reversed)
      BY <1>16, <3>1
    <3>8. PICK ext \in RefundIds : ext = r.ext
      BY <1>2
    <3>9. a \in RefundedAccount(b, reversed, restored, o, Row("refund", ext, Nobody, at))
      BY SMTT(30), <3>2, <3>8
    <3>10. reversed \in Nat /\ clock \in Time /\ at \in Time
      BY <1>6, <1>14
    <3>4. /\ AccountOK(a) /\ Grown(b, a, {"refund"})
          /\ DOMAIN a.lots \subseteq DOMAIN b.lots \cup {at}
      BY SMTT(30), <1>12, <3>3, <3>7, <3>9, <3>10, RefundedOK
    <3>5. accounts[d] = a
      BY <1>6, <1>17, <2>1
    <3> QED BY <2>1, <3>1, <3>4, <3>5
  <2>2. CASE d # c
    <3>1. accounts[d] = account[d] /\ AccountOK(account[d])
      BY <1>6, <1>17, <2>2
    <3>2. account[d].ledger \in Seq(RowType)
      BY <3>1 DEF AccountOK, IsAccount
    <3> QED BY SMTT(30), <3>1, <3>2, GrownSame
  <2> QED BY ZenonT(30), <2>1, <2>2
<1>20. PICK short \in Nat : short = wanted - reversed
  BY SMTT(30), <1>14
<1>21. RefundWritten(r, c, status, full, short)
  <2>1. Written(wanted - reversed)
    BY <1>11, <1>13, <1>a DEF Effect
  <2>2. Written(short)
    BY <1>20, <2>1
  <2> QED BY <1>11, <2>2 DEF Written, RefundWritten
<1>22. left \in Nat
  <2>1. left >= 0
    BY <1>1 DEF RefundCommit
  <2>2. AlreadyRefunded(o) \in Nat
    <3>1. PICK Q \in SUBSET (DOMAIN sales) :
            Q = {y \in Reversals(o) : sales[y].status \in {"refunded", "partially_refunded"}}
      BY DEF Reversals
    <3>2. IsFiniteSet(Q)
      BY FS_Subset DEF Books, SalesOK
    <3>3. PICK n : n = [y \in Q |-> sales[y].net]
      OBVIOUS
    <3>4. \A y \in Q : n[y] \in Nat
      BY <3>3, SaleTyped
    <3>5. DOMAIN n = Q /\ SumOver(n, Q) \in Nat
      BY <3>2, <3>3, <3>4, SumNat
    <3> QED BY <3>1, <3>3, <3>5 DEF AlreadyRefunded, Total
  <2>3. left = net - AlreadyRefunded(o) - r.amount
    BY SMTT(30), <1>1 DEF Remaining
  <2> QED BY SMTT(30), <1>4, <2>1, <2>2, <2>3
<1>23. Between(accounts, out, r.ext, at)
  BY SMTT(30), <1>18, <1>19 DEF Between
<1>24. RefundShares(r, at, account[c], sales[r.original].net, full, wanted, restored, reversed, short, a)
  <2>1. wanted = reversed + short
    BY <1>12, <1>14, <1>20
  <2>2. /\ wanted \in Share(LedgerSum("credit", {r.original}), LedgerSum("debit", Reversals(r.original)),
                            r.amount, sales[r.original].net, full)
        /\ restored \in Share(LedgerSum("debit", {r.original}), LedgerSum("credit", Reversals(r.original)),
                              r.amount, sales[r.original].net, full)
    BY <1>1, <1>8, <1>11, <1>a
  <2>3. a \in RefundedAccount(account[c], reversed, restored, r.original, Row("refund", r.ext, Nobody, at))
    BY <1>1, <1>15
  <2> QED BY <1>12, <1>14, <1>16, <2>1, <2>2, <2>3 DEF RefundShares
<1>25. Between([account EXCEPT ![c] = a], out, r.ext, at)
  BY <1>17, <1>23
<1>26. RefundPaid(r, at, c, full, status, out)
  BY <1>1, <1>21, <1>24, <1>25, Zenon DEF RefundPaid
<1> QED BY <1>1, <1>2, <1>3, <1>4, <1>5, <1>20, <1>21, <1>22, <1>23, <1>26

-----------------------------------------------------------------------------
(* The three commits keep the books. *)

(***************************************************************************)
(* A committed receipt keeps the books.                                    *)
(***************************************************************************)
LEMMA IngestKeepsBooks ==
  ASSUME Books, NEW s \in Slots, IngestCommit(s)
  PROVE  Books'
<1>1. PICK r, at, c : r = req[s].what /\ at = req[s].at /\ c = r.customer
  OBVIOUS
<1>2. /\ req[s].kind = "ingest" /\ r \in PosReceipts /\ DOMAIN account' = Customers
      /\ \A d \in Customers : /\ AccountOK(account'[d])
                              /\ DOMAIN account'[d].lots \subseteq DOMAIN account[d].lots \cup {at}
  BY <1>1, IngestAccounts
<1>3. /\ clock \in Nat /\ clock \in Time /\ at \in Nat /\ at <= clock /\ at \in Time
      /\ \A k \in DOMAIN rewards : RewardValue(k[2]) > 0
  BY <1>1, BooksFacts
<1>4. /\ r.ext \in SaleIds /\ r.ext # NoSale /\ c \in Customers /\ r.net \in Nat
      /\ r.status \in {"completed", "pending", "refunded", "partially_refunded", "cancelled"}
  BY <1>1, <1>2, ReceiptTyped
<1>5. PICK sale : sale = [customer |-> c, net |-> r.net, status |-> r.status, source |-> "pos",
                          original |-> IF r.original \in DOMAIN sales THEN r.original ELSE NoSale,
                          visit |-> IF Loyal(r) THEN "counted" ELSE "none", short |-> 0]
  OBVIOUS
<1>6. PICK q : q = Qualifies(r, req[s].saw)
  OBVIOUS
<1>7. /\ r.ext \notin DOMAIN sales /\ Finish(s) /\ UNCHANGED <<clock, archived>>
      /\ totalVisits' = IF Loyal(r) THEN [totalVisits EXCEPT ![c] = @ + 1] ELSE totalVisits
      /\ sales' = InsertSale(r.ext, sale)
      /\ attribution' = [f \in Friends |->
                           IF f \in q
                           THEN [status |-> "reward_pending", sale |-> r.ext, at |-> at,
                                 committed |-> clock, reversed |-> Never]
                           ELSE attribution[f]]
      /\ rewards' = GrantRewards(q, at)
  BY <1>1, <1>5, <1>6 DEF IngestCommit
<1>8. TypeOK
  BY DEF Books
<1>9. /\ DOMAIN sales' = DOMAIN sales \cup {r.ext} /\ sales'[r.ext] = sale
      /\ \A id \in DOMAIN sales : sales'[id] = sales[id]
  BY <1>7 DEF InsertSale
<1>10. /\ sale \in SaleType /\ sale.source = "pos" /\ sale.original \in DOMAIN sales \cup {NoSale}
       /\ sale.net \in Nat /\ sale.visit \in {"none", "counted"} /\ sale.customer = c
       /\ sale.visit = "counted" <=> Loyal(r)
  BY <1>4, <1>5, <1>8 DEF TypeOK, SaleType
<1>11. totalVisits' \in [Customers -> Nat]
       /\ \A d \in Customers : totalVisits'[d] =
            totalVisits[d] + (IF d = sale.customer /\ sale.visit = "counted" THEN 1 ELSE 0)
  <2>1. totalVisits \in [Customers -> Nat]
    BY <1>8 DEF TypeOK
  <2> QED BY <1>4, <1>7, <1>10, <2>1
<1>12. SalesOK' /\ RefundsWithinSale' /\ VisitsCounted'
  BY <1>4, <1>7, <1>10, <1>11, SaleInserted
<1>13. /\ \A k \in DOMAIN rewards' : /\ k \in Friends \X Roles /\ RewardValue(k[2]) > 0
                                     /\ rewards'[k] \in RewardType
       /\ DOMAIN rewards \subseteq DOMAIN rewards'
  <2>1. PICK new : new = {k \in q \X Roles : RewardValue(k[2]) > 0} \ DOMAIN rewards
    OBVIOUS
  <2>2. rewards' = [k \in DOMAIN rewards \cup new |->
                      IF k \in new
                      THEN [status |-> "pending", available |-> at + RewardDelay, lost |-> 0]
                      ELSE rewards[k]]
    BY <1>7, <2>1 DEF GrantRewards
  <2>3. \A k \in new : k \in Friends \X Roles /\ RewardValue(k[2]) > 0
    BY <1>6, <2>1 DEF Qualifies
  <2>4. [status |-> "pending", available |-> at + RewardDelay, lost |-> 0] \in RewardType
    BY <1>3, ReceiptsAssumption DEF RewardType
  <2>5. \A k \in DOMAIN rewards : k \in Friends \X Roles /\ rewards[k] \in RewardType
    BY <1>8 DEF TypeOK
  <2> QED BY <1>3, <2>2, <2>3, <2>4, <2>5
<1>14. attribution' \in [Friends -> AttributionType]
  <2>1. attribution \in [Friends -> AttributionType]
    BY <1>8 DEF TypeOK
  <2>2. [status |-> "reward_pending", sale |-> r.ext, at |-> at,
         committed |-> clock, reversed |-> Never] \in AttributionType
    BY <1>3, <1>4 DEF AttributionType
  <2> QED BY <1>7, <2>1, <2>2
<1>15. /\ DOMAIN req' = Slots /\ \A u \in Slots : RequestOK(req[u])'
       /\ StampsFresh'
  <2>1. clock' \in Nat /\ clock <= clock'
    BY <1>3, <1>7
  <2>2. \A d \in Customers : \A t \in DOMAIN account'[d].lots :
          \/ t \in DOMAIN account[d].lots
          \/ t \in 0..clock' /\ (t > clock \/ (Writes(req[s]) /\ t = req[s].at))
    BY <1>1, <1>2, <1>3, <1>7 DEF Writes
  <2>3. \A id \in DOMAIN sales : sales'[id].net = sales[id].net
    BY <1>9
  <2> QED BY <1>7, <1>9, <1>13, <2>1, <2>2, <2>3, FinishKeeps
<1>16. TypeOK'
  <2>1. clock' \in Time /\ archived' \subseteq Customers
    BY <1>3, <1>7, <1>8 DEF TypeOK
  <2>2. \A d \in Customers : IsAccount(account'[d], RowType, Time)
    BY <1>2 DEF AccountOK
  <2>3. DOMAIN sales' \subseteq SaleIds /\ \A id \in DOMAIN sales' : sales'[id] \in SaleType
    BY <1>4, <1>8, <1>9, <1>10 DEF TypeOK
  <2> QED BY <1>11, <1>13, <1>14, <2>1, <2>2, <2>3 DEF TypeOK
<1> QED BY <1>2, <1>12, <1>13, <1>15, <1>16 DEF Books

(***************************************************************************)
(* A payment keeps the books.                                              *)
(***************************************************************************)
LEMMA PayKeepsBooks ==
  ASSUME Books, NEW s \in Slots, PayCommit(s)
  PROVE  Books'
<1>1. PICK k : k = req[s].what
  OBVIOUS
<1>2. /\ k \in DOMAIN rewards /\ k[1] \in Friends
      /\ clock' = clock + 1 /\ clock' \in Time /\ DOMAIN account' = Customers
      /\ \A d \in Customers : /\ AccountOK(account'[d])
                              /\ DOMAIN account'[d].lots \subseteq DOMAIN account[d].lots \cup {clock'}
  BY <1>1, PayAccounts
<1>3. TypeOK /\ clock \in Nat /\ \A x \in DOMAIN rewards : RewardValue(x[2]) > 0
  BY BooksFacts
<1>4. /\ Finish(s) /\ UNCHANGED <<totalVisits, archived, sales>>
      /\ rewards' = [rewards EXCEPT ![k].status = "issued"]
      /\ \/ attribution' = [attribution EXCEPT ![k[1]].status = "rewarded"]
         \/ attribution' = attribution
  BY <1>1 DEF PayCommit
<1>5. SalesOK' /\ RefundsWithinSale' /\ VisitsCounted'
  BY <1>4, SalesStand
<1>6. DOMAIN rewards' = DOMAIN rewards /\ \A x \in DOMAIN rewards : rewards'[x] \in RewardType
  <2>1. \A x \in DOMAIN rewards : rewards[x] \in RewardType
    BY <1>3 DEF TypeOK
  <2> QED BY <1>4, <2>1 DEF RewardType
<1>7. attribution' \in [Friends -> AttributionType]
  <2>1. attribution \in [Friends -> AttributionType]
    BY <1>3 DEF TypeOK
  <2> QED BY <1>4, <2>1 DEF AttributionType
<1>8. /\ DOMAIN req' = Slots /\ \A u \in Slots : RequestOK(req[u])'
      /\ StampsFresh'
  <2>1. clock' \in Nat /\ clock <= clock'
    BY <1>2, <1>3
  <2>2. \A d \in Customers : \A t \in DOMAIN account'[d].lots :
          \/ t \in DOMAIN account[d].lots
          \/ t \in 0..clock' /\ (t > clock \/ (Writes(req[s]) /\ t = req[s].at))
    BY <1>2, <1>3
  <2> QED BY <1>4, <1>6, <2>1, <2>2, FinishKeeps
<1>9. TypeOK'
  <2>1. \A d \in Customers : IsAccount(account'[d], RowType, Time)
    BY <1>2 DEF AccountOK
  <2> QED BY <1>2, <1>3, <1>4, <1>6, <1>7, <2>1 DEF TypeOK
<1> QED BY <1>2, <1>3, <1>5, <1>6, <1>8, <1>9 DEF Books

(***************************************************************************)
(* A committed refund keeps the books.                                     *)
(***************************************************************************)
LEMMA RefundKeepsBooks ==
  ASSUME Books, NEW s \in Slots, RefundCommit(s)
  PROVE  Books'
<1>1. PICK r, at, o, c, left :
        /\ r = req[s].what /\ at = req[s].at /\ o = r.original
        /\ c = sales[r.original].customer /\ left = Remaining(r.original) - r.amount
  OBVIOUS
<1>3. PICK full \in BOOLEAN : full = (left = 0)
  OBVIOUS
<1>4. PICK status, out : /\ status = IF full THEN "refunded" ELSE "partially_refunded"
                         /\ out = Disqualified(r.original, left)
  OBVIOUS
<1>6. /\ req[s].kind = "refund" /\ o \in DOMAIN sales /\ r.ext \in RefundIds
      /\ r.amount \in Nat /\ r.ext \notin DOMAIN sales /\ c \in Customers /\ out \subseteq Friends
      /\ left \in Nat
  BY <1>1, <1>3, <1>4, RefundFacts
<1>7. PICK accounts : Between(accounts, out, r.ext, at)
  BY <1>1, <1>3, <1>4, RefundFacts
<1>8. PICK short \in Nat : RefundWritten(r, c, status, full, short)
  BY SMTT(30), <1>1, <1>3, <1>4, RefundFacts
<1>9. /\ Finish(s) /\ UNCHANGED <<clock, archived>>
      /\ totalVisits' = [totalVisits EXCEPT ![c] = VisitsAfter(sales[o], full)]
  BY ZenonT(30), <1>1, <1>3 DEF RefundCommit
<1>5. attribution' = [f \in Friends |->
                        IF f \in out
                        THEN [attribution[f] EXCEPT !.status = "reversed",
                                                    !.reversed = clock]
                        ELSE attribution[f]]
  BY <1>1, <1>4 DEF RefundCommit
<1>10. /\ clock \in Nat /\ clock \in Time /\ at \in Nat /\ at <= clock /\ at \in Time /\ TypeOK
       /\ \A k \in DOMAIN rewards : RewardValue(k[2]) > 0
  BY <1>1, BooksFacts
<1>11. r.ext \in SaleIds /\ r.ext # NoSale
  BY <1>6, ReceiptsAssumption DEF SaleIds
<1>12. /\ sales[o] \in SaleType /\ sales[o].net \in Nat /\ o \in SaleIds
  BY <1>6, SaleTyped
<1>13. PICK new : new = [customer |-> c, net |-> r.amount, status |-> status,
                         source |-> "refund", original |-> o,
                         visit |-> "none", short |-> short]
  OBVIOUS
<1>14. status \in {"refunded", "partially_refunded"}
  BY <1>4
<1>15. new \in SaleType
  BY <1>6, <1>8, <1>12, <1>13, <1>14 DEF SaleType
<1>16. PICK table : table = InsertSale(r.ext, new)
  OBVIOUS
<1>17. /\ DOMAIN table = DOMAIN sales \cup {r.ext} /\ table[r.ext] = new
       /\ \A id \in DOMAIN sales : table[id] = sales[id]
  BY <1>6, <1>16 DEF InsertSale
<1>18. PICK visit : visit = IF full /\ sales[o].visit = "counted" THEN "reversed" ELSE sales[o].visit
  OBVIOUS
<1>19. sales' = [table EXCEPT ![o].status = status, ![o].visit = visit]
  <2>1. PICK v : v = IF full /\ table[o].visit = "counted" THEN "reversed" ELSE table[o].visit
    BY ZenonT(30)
  <2>2. sales' = [table EXCEPT ![o].status = status, ![o].visit = v]
    BY <1>1, <1>8, <1>13, <1>16, <2>1 DEF RefundWritten
  <2>3. v = visit
    BY <1>6, <1>17, <1>18, <2>1
  <2> QED BY <2>2, <2>3
<1>20. /\ DOMAIN sales' = DOMAIN sales \cup {r.ext} /\ sales'[r.ext] = new
       /\ \A id \in DOMAIN sales : id # o => sales'[id] = sales[id]
       /\ sales'[o] = [sales[o] EXCEPT !.status = status, !.visit = visit]
  BY <1>6, <1>17, <1>19
<1>21. /\ sales'[o] \in SaleType
       /\ sales'[o].net = sales[o].net /\ sales'[o].original = sales[o].original
       /\ sales'[o].source = sales[o].source /\ sales'[o].customer = sales[o].customer
       /\ sales'[o].status = status /\ sales'[o].visit = visit
  BY <1>12, <1>14, <1>18, <1>20 DEF SaleType
<1>22. SalesOK' /\ RefundsWithinSale' /\ VisitsCounted'
  <2>1. PICK x : x = r.ext
    OBVIOUS
  <2>2. PICK amount \in Nat : amount = r.amount
    BY <1>6
  <2>3. /\ x \notin DOMAIN sales /\ x # NoSale /\ DOMAIN sales' = DOMAIN sales \cup {x}
        /\ sales'[x].net = amount /\ sales'[x].original = o
        /\ sales'[x].source = "refund" /\ sales'[x].status = status
        /\ sales'[x].visit = "none"
    BY <1>6, <1>11, <1>13, <1>20, <2>1, <2>2
  <2>4. full <=> left = 0
    BY <1>3
  <2>5. totalVisits' = [totalVisits EXCEPT ![sales[o].customer] = VisitsAfter(sales[o], full)]
    BY <1>1, <1>9
  <2>6. left = Remaining(o) - amount /\ left \in Nat /\ o \in DOMAIN sales
    BY <1>1, <1>6, <2>2
  <2>7. sales'[o].visit = IF full /\ sales[o].visit = "counted" THEN "reversed" ELSE sales[o].visit
    BY <1>18, <1>21
  <2>8. \A id \in DOMAIN sales : id # o => sales'[id] = sales[id]
    BY <1>20
  <2>9. status = IF full THEN "refunded" ELSE "partially_refunded"
    BY <1>4
  <2>10. /\ sales'[o].net = sales[o].net /\ sales'[o].original = sales[o].original
         /\ sales'[o].source = sales[o].source /\ sales'[o].customer = sales[o].customer
         /\ sales'[o].status = status
    BY <1>21
  <2> QED BY ZenonT(30), <2>2, <2>3, <2>4, <2>5, <2>6, <2>7, <2>8, <2>9, <2>10, SaleRefunded
<1>23. ASSUME NEW d \in Customers
       PROVE  AccountOK(account'[d]) /\ DOMAIN account'[d].lots \subseteq DOMAIN account[d].lots \cup {at}
  <2>1. PICK b : b = account'[d]
    OBVIOUS
  <2>4. PICK ext \in RefundIds : ext = r.ext
    BY <1>6
  <2>2. b = RecoverAll(accounts, out, ext, at)[d]
    BY <1>7, <2>1, <2>4 DEF Between
  <2>3. AccountOK(b) /\ DOMAIN b.lots = DOMAIN accounts[d].lots
    <3>1. \A e \in Customers : AccountOK(accounts[e])
      BY <1>7 DEF Between
    <3>2. \A f \in out : /\ CanRecover(accounts[f], <<f, "friend">>, f, at)
                        /\ CanRecover(accounts[Referrer], <<f, "referrer">>, Referrer, at)
      BY <1>7 DEF Between
    <3> QED BY <1>6, <1>10, <2>2, <3>1, <3>2, RecoverAllOK
  <2> QED BY <1>7, <2>1, <2>3 DEF Between
<1>24. DOMAIN account' = Customers
  BY <1>7 DEF Between, RecoverAll
<1>25. DOMAIN rewards' = DOMAIN rewards /\ \A k \in DOMAIN rewards : rewards'[k] \in RewardType
  <2>1. DOMAIN rewards' = DOMAIN rewards
    BY <1>7 DEF Between, RevokeRewards
  <2>2. ASSUME NEW k \in DOMAIN rewards PROVE rewards'[k] \in RewardType
    <3>1. rewards[k] \in RewardType /\ k[1] \in Friends /\ k[2] \in Roles
      BY <1>10 DEF TypeOK
    <3>2. Lost(accounts, k) \in Nat
      <4>1. PICK b : b = accounts[IF k[2] = "friend" THEN k[1] ELSE Referrer]
        OBVIOUS
      <4>2. AccountOK(b)
        BY <1>7, <3>1, <4>1 DEF Between, Customers
      <4>3. PICK p \in Nat, v \in Nat : p = b.points /\ v = RewardValue(k[2])
        BY <4>2, ValueIsNat DEF AccountOK, IsAccount
      <4>4. Min({p, v}) \in Nat /\ v - Min({p, v}) \in Nat
        BY MinOfTwo
      <4> QED BY <4>1, <4>3, <4>4 DEF Lost
    <3>3. PICK lost \in Nat : lost = Lost(accounts, k)
      BY <3>2
    <3>4. \/ rewards'[k] = [status |-> "reversed", available |-> rewards[k].available, lost |-> lost]
          \/ rewards'[k] = rewards[k]
      BY <1>7, <3>3 DEF Between, RevokeRewards
    <3> QED BY <3>1, <3>4 DEF RewardType
  <2> QED BY <2>1, <2>2
<1>26. attribution' \in [Friends -> AttributionType]
  <2>1. attribution \in [Friends -> AttributionType]
    BY <1>10 DEF TypeOK
  <2> QED BY ZenonT(30), <1>5, <1>10, <2>1 DEF AttributionType
<1>27. totalVisits' \in [Customers -> Nat]
  <2>1. totalVisits \in [Customers -> Nat]
    BY <1>10 DEF TypeOK
  <2>2. VisitsAfter(sales[o], full) \in Nat
    <3>1. PICK n \in Nat : n = totalVisits[c]
      BY <1>6, <2>1
    <3>2. PICK m \in Int : m = n - 1
      OBVIOUS
    <3>3. Max({0, m}) \in Nat
      BY <3>2, MaxOfTwo
    <3> QED BY <1>1, <3>1, <3>2, <3>3 DEF VisitsAfter
  <2> QED BY <1>9, <2>1, <2>2
<1>28. /\ DOMAIN req' = Slots /\ \A u \in Slots : RequestOK(req[u])'
       /\ StampsFresh'
  <2>1. clock' \in Nat /\ clock <= clock'
    BY <1>9, <1>10
  <2>2. \A d \in Customers : \A t \in DOMAIN account'[d].lots :
          \/ t \in DOMAIN account[d].lots
          \/ t \in 0..clock' /\ (t > clock \/ (Writes(req[s]) /\ t = req[s].at))
    <3>1. Writes(req[s]) /\ at \in 0..clock'
      BY <1>6, <1>9, <1>10 DEF Writes
    <3> QED BY <1>1, <1>23, <3>1
  <2>3. \A id \in DOMAIN sales : sales'[id].net = sales[id].net
    BY <1>20, <1>21
  <2> QED BY <1>9, <1>20, <1>25, <2>1, <2>2, <2>3, FinishKeeps
<1>29. TypeOK'
  <2>1. clock' \in Time /\ archived' \subseteq Customers
    BY <1>9, <1>10 DEF TypeOK
  <2>2. \A d \in Customers : IsAccount(account'[d], RowType, Time)
    BY <1>23 DEF AccountOK
  <2>3. DOMAIN sales' \subseteq SaleIds /\ \A id \in DOMAIN sales' : sales'[id] \in SaleType
    BY <1>10, <1>11, <1>15, <1>20, <1>21 DEF TypeOK
  <2>4. DOMAIN rewards' \subseteq Friends \X Roles
    BY <1>10, <1>25 DEF TypeOK
  <2> QED BY <1>25, <1>26, <1>27, <2>1, <2>2, <2>3, <2>4 DEF TypeOK
<1>30. \A k \in DOMAIN rewards' : RewardValue(k[2]) > 0
  BY <1>10, <1>25
<1> QED BY <1>22, <1>23, <1>24, <1>28, <1>29, <1>30 DEF Books

(***************************************************************************)
(* The account every customer starts with, with the opening lot of         *)
(* migration 000025 or without.                                            *)
(***************************************************************************)
LEMMA StartOK == AccountOK(NewAccount) /\ DOMAIN NewAccount.lots \subseteq {0}
<1>1. IsAccount(NewAccount, RowType, Time) /\ LedgerExplains(NewAccount)
  <2>1. 0 \in Time
    BY ReceiptsAssumption DEF Time
  <2> QED BY <2>1, NewAccountOK
<1>2. Kept(NewAccount)
  BY NewAccountBacked DEF Backed
<1>3. DOMAIN NewAccount.lots \subseteq {0}
  BY DEF NewAccount, EmptyFunction
<1> QED BY <1>1, <1>2, <1>3 DEF AccountOK

(***************************************************************************)
(* The books hold at the start.                                            *)
(***************************************************************************)
LEMMA BooksInit == Init => Books
<1> SUFFICES ASSUME Init PROVE Books
  OBVIOUS
<1>1. \A c \in Customers : AccountOK(account[c]) /\ DOMAIN account[c].lots \subseteq {0}
  BY StartOK DEF Init
<1>2. 0 \in Time /\ clock = 0
  BY ReceiptsAssumption DEF Time, Init
<1>3. DOMAIN sales = {} /\ DOMAIN rewards = {}
  BY DEF Init, EmptyFunction
<1>4. TypeOK
  <2>1. \A c \in Customers : IsAccount(account[c], RowType, Time)
    BY <1>1 DEF AccountOK
  <2>2. attribution \in [Friends -> AttributionType]
    <3>1. [status |-> "registered", sale |-> NoSale, at |-> 0,
           committed |-> Never, reversed |-> Never] \in AttributionType
      BY <1>2 DEF AttributionType
    <3> QED BY <3>1 DEF Init
  <2> QED BY <1>2, <1>3, <2>1, <2>2 DEF Init, TypeOK
<1>5. \A s \in Slots : /\ req[s].kind = "idle" /\ req[s].at = 0
                       /\ "saw" \in DOMAIN req[s] /\ req[s].saw = Never
  BY DEF Init, Idle
<1>6. \A s \in Slots : RequestOK(req[s])
  <2>1. 0 \in 0..clock
    BY <1>2
  <2> QED BY <1>5, <2>1 DEF RequestOK
<1>7. StampsFresh
  <2>1. {0} \subseteq 0..clock
    BY <1>2
  <2> QED BY <1>1, <1>5, <2>1 DEF StampsFresh, Writes
<1>8. SalesOK
  BY <1>3, FS_EmptySet DEF SalesOK
<1>9. RefundsWithinSale
  BY <1>3 DEF RefundsWithinSale
<1>10. VisitsCounted
  <2>1. \A c \in Customers : {id \in DOMAIN sales : sales[id].customer = c /\ sales[id].visit = "counted"} = {}
    BY <1>3
  <2>2. Cardinality({}) = 0
    BY FS_EmptySet
  <2> QED BY <2>1, <2>2 DEF Init, VisitsCounted
<1>11. DOMAIN account = Customers /\ DOMAIN req = Slots
  BY DEF Init
<1> QED BY <1>1, <1>3, <1>4, <1>6, <1>7, <1>8, <1>9, <1>10, <1>11 DEF Books

(***************************************************************************)
(* Every step keeps the books.                                             *)
(***************************************************************************)
LEMMA BooksStep == Books /\ [Next]_vars => Books'
<1> SUFFICES ASSUME Books, [Next]_vars PROVE Books'
  OBVIOUS
<1>1. ASSUME NEW s \in Slots, NEW r \in PosReceipts, IngestBegin(s, r) PROVE Books'
  BY <1>1, IngestBeginKeepsBooks
<1>2. ASSUME NEW s \in Slots, IngestCount(s) PROVE Books'
  BY <1>2, IngestCountKeepsBooks
<1>3. ASSUME NEW s \in Slots, IngestCommit(s) PROVE Books'
  BY <1>3, IngestKeepsBooks
<1>4. ASSUME NEW s \in Slots, NEW id \in DOMAIN sales, NEW ext \in RefundIds,
             NEW amount \in 1..sales[id].net, RefundBegin(s, id, ext, amount)
      PROVE  Books'
  BY <1>4, RefundBeginKeepsBooks
<1>5. ASSUME NEW s \in Slots, RefundCommit(s) PROVE Books'
  BY <1>5, RefundKeepsBooks
<1>6. ASSUME NEW s \in Slots, NEW k \in DOMAIN rewards, PayBegin(s, k) PROVE Books'
  BY <1>6, PayBeginKeepsBooks
<1>7. ASSUME NEW s \in Slots, PayCommit(s) PROVE Books'
  BY <1>7, PayKeepsBooks
<1>8. ASSUME \/ \E c \in Customers : DeleteCustomer(c)
             \/ \E s \in Slots : Abort(s)
             \/ Tick
             \/ UNCHANGED vars
      PROVE  Books'
  BY <1>8, OtherStepsKeepBooks
<1> QED BY <1>1, <1>2, <1>3, <1>4, <1>5, <1>6, <1>7, <1>8 DEF Next, Quiesce

(***************************************************************************)
(* The inductive invariant of the accounts, the sales and the visits.      *)
(***************************************************************************)
THEOREM BooksAlways == Spec => []Books
BY BooksInit, BooksStep, PTL DEF Spec

(***************************************************************************)
(* Receipts, refunds and referral rewards keep the tables of every account *)
(* in step, a sale is never refunded beyond its amount, its status says    *)
(* what its refunds add up to, and its visit is counted until a full       *)
(* refund; for any receipts, refunds, overlapping requests and workers.    *)
(***************************************************************************)
THEOREM AccountsAreTrue == Spec => []AccountsTrue
<1>1. Books => AccountsTrue
  <2>1. ASSUME Books PROVE AccountsAgree
    <3>1. \A c \in Customers : LedgerExplains(account[c]) /\ LotsBack(account[c]) /\ LotsPaid(account[c])
      BY <2>1 DEF Books, AccountOK, Kept
    <3> QED BY <3>1 DEF AccountsAgree, LotsPaid
  <2> QED BY <2>1 DEF Books, AccountsTrue
<1> QED BY <1>1, BooksAlways, PTL

-----------------------------------------------------------------------------
(* The rows of the referral program. *)

Extends(a, b) ==
  /\ Len(a.ledger) <= Len(b.ledger)
  /\ \A i \in 1..Len(a.ledger) : b.ledger[i] = a.ledger[i]

(***************************************************************************)
(* Row i of b's ledger is not a's and belongs to the referral program.     *)
(***************************************************************************)
NewRow(a, b, i) ==
  i \in 1..Len(b.ledger) /\ i > Len(a.ledger) /\ b.ledger[i].src \in Programme

(***************************************************************************)
(* A reward and its beneficiary determine each other.                      *)
(***************************************************************************)
LEMMA RewardOfBeneficiary ==
  ASSUME NEW k \in Friends \X Roles
  PROVE  RewardOf(Beneficiary(k), k[1]) = k /\ Beneficiary(k) \in Customers
<1>1. Referrer \notin Friends
  BY ReceiptsAssumption
<1>2. k[1] \in Friends /\ k[2] \in {"friend", "referrer"} /\ k = <<k[1], k[2]>>
  BY DEF Roles
<1> QED BY <1>1, <1>2 DEF RewardOf, Beneficiary, Customers

(***************************************************************************)
(* The reward of an account for a friend is paid to that account.          *)
(***************************************************************************)
LEMMA BeneficiaryOfReward ==
  ASSUME NEW f \in Friends, NEW c \in {f, Referrer}
  PROVE  /\ Beneficiary(RewardOf(c, f)) = c /\ RewardOf(c, f) \in Friends \X Roles
         /\ RewardOf(c, f)[1] = f
BY ReceiptsAssumption DEF RewardOf, Beneficiary, Roles

(***************************************************************************)
(* A ledger is a sequence of rows.                                         *)
(***************************************************************************)
LEMMA LedgersTyped ==
  ASSUME Books, NEW c \in Customers
  PROVE  /\ account[c].ledger \in Seq(RowType) /\ Len(account[c].ledger) \in Nat
         /\ \A i \in 1..Len(account[c].ledger) : account[c].ledger[i] \in RowType
<1>1. account[c].ledger \in Seq(RowType)
  BY DEF Books, AccountOK, IsAccount
<1> QED BY <1>1

(***************************************************************************)
(* The rows stay true, one per key, when a step adds at most one row of    *)
(* the program to an account, under a new key, and no reward becomes       *)
(* pending again.                                                          *)
(***************************************************************************)
LEMMA RowsKept ==
  ASSUME Books, Books', RowsTrue, OneRowPerKey,
         \A k \in DOMAIN rewards : /\ k \in DOMAIN rewards'
                                   /\ rewards[k].status # "pending" => rewards'[k].status # "pending",
         \A c \in Customers : Extends(account[c], account'[c]),
         \A c \in Customers : \A i : NewRow(account[c], account'[c], i) =>
           /\ i = Len(account'[c].ledger)
           /\ ~HasRow(account[c], account'[c].ledger[i].src, account'[c].ledger[i].by)
           /\ RowTrue(c, account[c].ledger, i)'
  PROVE  RowsTrue' /\ OneRowPerKey'
<1>1. ASSUME NEW c \in Customers, NEW i \in 1..Len(account'[c].ledger)
      PROVE  \/ i \in 1..Len(account[c].ledger) /\ account'[c].ledger[i] = account[c].ledger[i]
             \/ NewRow(account[c], account'[c], i)
             \/ account'[c].ledger[i].src \notin Programme
  <2>1. PICK n \in Nat, m \in Nat : n = Len(account[c].ledger) /\ m = Len(account'[c].ledger)
    <3>1. Len(account'[c].ledger) \in Nat
      <4>1. (account[c].ledger \in Seq(RowType))'
        BY DEF Books, AccountOK, IsAccount
      <4> QED BY <4>1
    <3> QED BY <3>1, LedgersTyped
  <2>2. CASE i \in 1..n
    BY <2>1, <2>2 DEF Extends
  <2>3. CASE i \notin 1..n
    <3>1. i > n
      BY <1>1, <2>1, <2>3
    <3> QED BY <1>1, <2>1, <3>1 DEF NewRow
  <2> QED BY <2>2, <2>3
<1>2. RowsTrue'
  <2>1. ASSUME NEW c \in Customers, NEW i \in 1..Len(account'[c].ledger),
               account'[c].ledger[i].src \in Programme
        PROVE  RowTrue(c, account[c].ledger, i)'
    <3>1. CASE NewRow(account[c], account'[c], i)
      BY <3>1
    <3>2. CASE i \in 1..Len(account[c].ledger) /\ account'[c].ledger[i] = account[c].ledger[i]
      <4>1. RowTrue(c, account[c].ledger, i)
        BY <2>1, <3>2 DEF RowsTrue
      <4>2. PICK l, m : l = account[c].ledger /\ m = account'[c].ledger
        OBVIOUS
      <4>8. PICK n \in Nat : n = Len(l)
        BY <4>2, LedgersTyped
      <4>3. i \in 1..n /\ m[i] = l[i] /\ \A j \in 1..n : m[j] = l[j]
        BY <3>2, <4>2, <4>8 DEF Extends
      <4>4. \A j \in 1..(i - 1) : m[j] = l[j]
        BY <4>3
      <4>5. RowTrue(c, l, i)
        BY <4>1, <4>2
      <4>6. PICK k : k = RewardOf(c, l[i].by)
        OBVIOUS
      <4>7. k \in DOMAIN rewards' /\ rewards'[k].status # "pending"
        BY <4>5, <4>6 DEF RowTrue
      <4> QED BY <4>2, <4>3, <4>4, <4>5, <4>6, <4>7 DEF RowTrue
    <3> QED BY SMTT(30), <1>1, <2>1, <3>1, <3>2
  <2> QED BY <2>1 DEF RowsTrue
<1>3. OneRowPerKey'
  <2>1. ASSUME NEW c \in Customers, NEW i \in 1..Len(account'[c].ledger),
               NEW j \in 1..Len(account'[c].ledger),
               account'[c].ledger[i].src \in Programme,
               account'[c].ledger[i].src = account'[c].ledger[j].src,
               account'[c].ledger[i].by = account'[c].ledger[j].by
        PROVE  i = j
    <3>1. ASSUME NEW x \in 1..Len(account'[c].ledger), NEW y \in 1..Len(account'[c].ledger),
                 NewRow(account[c], account'[c], x),
                 y \in 1..Len(account[c].ledger), account'[c].ledger[y] = account[c].ledger[y],
                 account'[c].ledger[x].src = account'[c].ledger[y].src,
                 account'[c].ledger[x].by = account'[c].ledger[y].by
          PROVE  FALSE
      BY <3>1 DEF HasRow
    <3>2. CASE NewRow(account[c], account'[c], i) /\ NewRow(account[c], account'[c], j)
      BY <3>2
    <3>3. CASE NewRow(account[c], account'[c], i) /\ ~NewRow(account[c], account'[c], j)
      BY <1>1, <2>1, <3>1, <3>3
    <3>4. CASE ~NewRow(account[c], account'[c], i) /\ NewRow(account[c], account'[c], j)
      BY <1>1, <2>1, <3>1, <3>4
    <3>5. CASE ~NewRow(account[c], account'[c], i) /\ ~NewRow(account[c], account'[c], j)
      <4>1. /\ i \in 1..Len(account[c].ledger) /\ account'[c].ledger[i] = account[c].ledger[i]
            /\ j \in 1..Len(account[c].ledger) /\ account'[c].ledger[j] = account[c].ledger[j]
        BY <1>1, <2>1, <3>5
      <4> QED BY <2>1, <4>1 DEF OneRowPerKey
    <3> QED BY <3>2, <3>3, <3>4, <3>5
  <2> QED BY <2>1 DEF OneRowPerKey
<1> QED BY <1>2, <1>3

(***************************************************************************)
(* A payment stays where it is, and what is still pending has none.        *)
(***************************************************************************)
LEMMA PaymentsKept ==
  ASSUME Books, Books', RowsTrue', IssuedMeansPaid,
         \A c \in Customers : Extends(account[c], account'[c]),
         \A k \in DOMAIN rewards' : rewards'[k].status = "issued" =>
           \/ k \in DOMAIN rewards /\ rewards[k].status = "issued"
           \/ HasRow(account'[Beneficiary(k)], "referral", k[1])
  PROVE  IssuedMeansPaid'
<1>1. \A k \in DOMAIN rewards' : k \in Friends \X Roles
  BY DEF Books, TypeOK
<1>2. ASSUME NEW k \in DOMAIN rewards', rewards'[k].status = "issued"
      PROVE  RowsOf(Beneficiary(k), "referral", k[1])' # {}
  <2>1. PICK c \in Customers : c = Beneficiary(k)
    BY <1>1, RewardOfBeneficiary
  <2>2. CASE HasRow(account'[c], "referral", k[1])
    BY <2>1, <2>2 DEF HasRow, RowsOf
  <2>3. CASE k \in DOMAIN rewards /\ rewards[k].status = "issued"
    <3>1. RowsOf(c, "referral", k[1]) # {}
      BY <2>1, <2>3 DEF IssuedMeansPaid
    <3>2. PICK i \in 1..Len(account[c].ledger) :
            account[c].ledger[i].src = "referral" /\ account[c].ledger[i].by = k[1]
      BY <3>1 DEF RowsOf
    <3>3. Len(account[c].ledger) \in Nat /\ Len(account'[c].ledger) \in Nat
      <4>1. (account[c].ledger \in Seq(RowType))'
        BY DEF Books, AccountOK, IsAccount
      <4> QED BY <4>1, LedgersTyped
    <3>4. Len(account[c].ledger) <= Len(account'[c].ledger) /\ account'[c].ledger[i] = account[c].ledger[i]
      BY <3>2 DEF Extends
    <3>5. i \in 1..Len(account'[c].ledger)
      BY <3>2, <3>3, <3>4
    <3> QED BY <2>1, <3>2, <3>4, <3>5 DEF RowsOf
  <2> QED BY <1>2, <2>1, <2>2, <2>3
<1>3. ASSUME NEW k \in DOMAIN rewards', rewards'[k].status = "pending",
             RowsOf(Beneficiary(k), "referral", k[1])' # {}
      PROVE  FALSE
  <2>1. PICK c \in Customers : c = Beneficiary(k)
    BY <1>1, RewardOfBeneficiary
  <2>2. PICK i \in 1..Len(account'[c].ledger) :
          account'[c].ledger[i].src = "referral" /\ account'[c].ledger[i].by = k[1]
    BY <1>3, <2>1 DEF RowsOf
  <2>3. RowTrue(c, account[c].ledger, i)'
    BY <2>2 DEF RowsTrue, Programme
  <2>4. RewardOf(c, k[1]) = k
    BY <1>1, <2>1, RewardOfBeneficiary
  <2> QED BY <1>3, <2>2, <2>3, <2>4 DEF RowTrue
<1> QED BY <1>2, <1>3 DEF IssuedMeansPaid

(***************************************************************************)
(* Receipt and refund rows are not the program's.                          *)
(***************************************************************************)
LEMMA OtherRows ==
  ASSUME NEW a, NEW b, NEW src \in {"receipt", "refund"}, Grown(a, b, {src})
  PROVE  /\ Extends(a, b) /\ \A i : ~NewRow(a, b, i)
         /\ \A row \in Programme : \A f : HasRow(b, row, f) => HasRow(a, row, f)
BY SMTT(30) DEF Grown, Extends, NewRow, HasRow, Programme

(***************************************************************************)
(* An account left alone has no new row.                                   *)
(***************************************************************************)
LEMMA SameRows ==
  ASSUME Books, NEW c \in Customers
  PROVE  Extends(account[c], account[c]) /\ \A i : ~NewRow(account[c], account[c], i)
<1>1. PICK n \in Nat : n = Len(account[c].ledger)
  BY LedgersTyped
<1> QED BY <1>1 DEF Extends, NewRow

(***************************************************************************)
(* b's ledger has this row of the program and no other new one.            *)
(***************************************************************************)
AddsRow(a, b, src, by, amount) ==
  /\ Extends(a, b)
  /\ \A i : NewRow(a, b, i) => /\ i = Len(b.ledger) /\ b.ledger[i].src = src
                               /\ b.ledger[i].by = by /\ b.ledger[i].amount = amount
  /\ HasRow(b, src, by)

(***************************************************************************)
(* What one more row, after others that are not the program's, adds.       *)
(***************************************************************************)
LEMMA OneNewRow ==
  ASSUME NEW a, NEW m, NEW b, NEW other \in {"receipt", "refund"}, Grown(a, m, {other}),
         a.ledger \in Seq(RowType), m.ledger \in Seq(RowType),
         NEW src, NEW by, NEW amount, OneRow(m, b, src, by, amount)
  PROVE  AddsRow(a, b, src, by, amount)
<1>1. PICK r \in RowType : b.ledger = Append(m.ledger, r) /\ r.src = src /\ r.by = by /\ r.amount = amount
  BY DEF OneRow
<1>2. PICK n \in Nat, l \in Nat : n = Len(a.ledger) /\ l = Len(m.ledger)
  OBVIOUS
<1>3. /\ Len(b.ledger) = l + 1 /\ b.ledger[l + 1] = r
      /\ \A i \in 1..l : b.ledger[i] = m.ledger[i]
  BY <1>1, <1>2, AppendFacts
<1>4. n <= l /\ (\A i \in 1..n : m.ledger[i] = a.ledger[i])
      /\ \A i \in 1..l : i > n => m.ledger[i].src = other
  BY <1>2 DEF Grown
<1>5. Extends(a, b)
  <2>1. \A i \in 1..n : i \in 1..l
    BY <1>4
  <2>2. n <= l + 1
    BY <1>4
  <2> QED BY <1>2, <1>3, <1>4, <2>1, <2>2 DEF Extends
<1>6. ASSUME NEW i, NewRow(a, b, i) PROVE i = l + 1
  <2>1. i \in 1..(l + 1) /\ i > n /\ b.ledger[i].src \in Programme
    BY <1>2, <1>3, <1>6 DEF NewRow
  <2>2. CASE i \in 1..l
    BY <1>3, <1>4, <2>1, <2>2 DEF Programme
  <2>3. CASE i \notin 1..l
    BY <2>1, <2>3
  <2> QED BY <2>2, <2>3
<1>7. l + 1 \in 1..(l + 1)
  OBVIOUS
<1>8. HasRow(b, src, by)
  BY <1>1, <1>3, <1>7 DEF HasRow
<1> QED BY <1>1, <1>3, <1>5, <1>6, <1>8 DEF AddsRow

(***************************************************************************)
(* The two ways to say that a row exists.                                  *)
(***************************************************************************)
LEMMA RowsOfAreRows ==
  ASSUME NEW c, NEW src, NEW f
  PROVE  RowsOf(c, src, f) # {} <=> HasRow(account[c], src, f)
BY DEF RowsOf, HasRow

-----------------------------------------------------------------------------
(* The steps keep the referrals. *)

(***************************************************************************)
(* A step that leaves accounts, attributions and rewards alone keeps the   *)
(* referrals, if a worker that starts reads a reward of a referral that is *)
(* not reversed.                                                           *)
(***************************************************************************)
LEMMA QuietReferrals ==
  ASSUME Books, Books', Referrals, UNCHANGED <<account, attribution, rewards>>,
         \A s \in Slots : req'[s].kind = "pay" =>
           \/ req'[s] = req[s]
           \/ attribution[req'[s].what[1]].status # "reversed"
  PROVE  Referrals'
<1>1. RowsTrue' /\ OneRowPerKey'
  BY DEF Referrals, RowsTrue, RowTrue, OneRowPerKey
<1>2. IssuedMeansPaid'
  BY DEF Referrals, IssuedMeansPaid, RowsOf
<1>3. ReversalsFinal'
  BY DEF Referrals, ReversalsFinal
<1> QED BY <1>1, <1>2, <1>3 DEF Referrals

(***************************************************************************)
(* Such are all the steps but the three commits: a worker starts from a    *)
(* pending reward.                                                         *)
(***************************************************************************)
LEMMA QuietStepsKeepReferrals ==
  ASSUME Books, Books', Referrals,
         \/ \E s \in Slots, r \in PosReceipts : IngestBegin(s, r)
         \/ \E s \in Slots : IngestCount(s)
         \/ \E s \in Slots, id \in DOMAIN sales, ext \in RefundIds :
              \E amount \in 1..sales[id].net : RefundBegin(s, id, ext, amount)
         \/ \E s \in Slots, k \in DOMAIN rewards : PayBegin(s, k)
         \/ \E c \in Customers : DeleteCustomer(c)
         \/ \E s \in Slots : Abort(s)
         \/ Tick
         \/ UNCHANGED vars
  PROVE  Referrals'
<1>1. DOMAIN req = Slots
  BY BooksFacts
<1>2. UNCHANGED <<account, attribution, rewards>>
  BY DEF IngestBegin, IngestCount, RefundBegin, PayBegin, DeleteCustomer, Abort, Tick, vars
<1>3. ASSUME NEW s \in Slots, NEW kind \in {"ingest", "refund"}, NEW what, Begin(s, kind, what),
             NEW u \in Slots, req'[u].kind = "pay"
      PROVE  req'[u] = req[u]
  BY <1>1, <1>3 DEF Begin
<1>4. ASSUME NEW s \in Slots, NEW k \in DOMAIN rewards, PayBegin(s, k),
             NEW u \in Slots, req'[u].kind = "pay"
      PROVE  \/ req'[u] = req[u]
             \/ attribution[req'[u].what[1]].status # "reversed"
  <2>1. rewards[k].status = "pending"
    BY <1>4 DEF PayBegin
  <2>2. attribution[k[1]].status # "reversed"
    BY <2>1 DEF Referrals, ReversalsFinal
  <2> QED BY <1>1, <1>4, <2>2 DEF PayBegin
<1>5. ASSUME NEW s \in Slots, Finish(s), NEW u \in Slots, req'[u].kind = "pay"
      PROVE  req'[u] = req[u]
  BY <1>1, <1>5 DEF Finish, Idle
<1>6. ASSUME NEW s \in Slots, IngestCount(s), NEW u \in Slots, req'[u].kind = "pay"
      PROVE  req'[u] = req[u]
  <2>1. req[s].kind = "ingest"
    BY <1>6 DEF IngestCount
  <2>2. PICK n : n = Cardinality(Counted)
    OBVIOUS
  <2>3. req' = [req EXCEPT ![s].saw = n]
    BY <1>6, <2>2 DEF IngestCount
  <2>4. CASE u = s
    BY <1>1, <1>6, <2>1, <2>3, <2>4
  <2>5. CASE u # s
    BY <1>1, <2>3, <2>5
  <2> QED BY <2>4, <2>5
<1>7. ASSUME NEW u \in Slots, req'[u].kind = "pay"
      PROVE  \/ req'[u] = req[u]
             \/ attribution[req'[u].what[1]].status # "reversed"
  <2>1. CASE \E s \in Slots, r \in PosReceipts : IngestBegin(s, r)
    <3>1. PICK s \in Slots, kind \in {"ingest", "refund"} : \E what : Begin(s, kind, what)
      BY <2>1 DEF IngestBegin
    <3>2. PICK what : Begin(s, kind, what)
      BY <3>1
    <3> QED BY <1>3, <1>7, <3>1, <3>2
  <2>2. CASE \E s \in Slots, id \in DOMAIN sales, ext \in RefundIds :
               \E amount \in 1..sales[id].net : RefundBegin(s, id, ext, amount)
    <3>1. \E s \in Slots, kind \in {"ingest", "refund"} : \E what : Begin(s, kind, what)
      BY <2>2 DEF RefundBegin
    <3> QED BY <1>3, <1>7, <3>1
  <2>3. CASE \E s \in Slots : IngestCount(s)
    BY <1>6, <1>7, <2>3
  <2>4. CASE \E s \in Slots, k \in DOMAIN rewards : PayBegin(s, k)
    BY <1>4, <1>7, <2>4
  <2>5. CASE \E s \in Slots : Abort(s)
    <3>1. PICK s \in Slots : Finish(s)
      BY <2>5 DEF Abort
    <3> QED BY <1>5, <1>7, <3>1
  <2>6. CASE (\E c \in Customers : DeleteCustomer(c)) \/ Tick \/ UNCHANGED vars
    BY <2>6 DEF DeleteCustomer, Tick, vars
  <2> QED BY <2>1, <2>2, <2>3, <2>4, <2>5, <2>6
<1> QED BY <1>2, <1>7, QuietReferrals

(***************************************************************************)
(* A receipt that qualifies a friend grants rewards that are pending and   *)
(* unpaid.                                                                 *)
(***************************************************************************)
LEMMA IngestKeepsReferrals ==
  ASSUME Books, Books', Referrals, NEW s \in Slots, IngestCommit(s)
  PROVE  Referrals'
<1>1. PICK r, at, q, saw : /\ r = req[s].what /\ at = req[s].at /\ saw = req[s].saw
                           /\ q = Qualifies(r, req[s].saw)
  OBVIOUS
<1>2. /\ Finish(s)
      /\ attribution' = [f \in Friends |->
                           IF f \in q
                           THEN [status |-> "reward_pending", sale |-> r.ext, at |-> at,
                                 committed |-> clock, reversed |-> Never]
                           ELSE attribution[f]]
      /\ rewards' = GrantRewards(q, at)
  BY <1>1 DEF IngestCommit
<1>3. DOMAIN req = Slots /\ DOMAIN rewards \subseteq Friends \X Roles
  BY DEF Books, TypeOK
<1>4. \A f \in q : f \in Friends /\ attribution[f].status = "registered"
  BY <1>1 DEF Qualifies
<1>5. PICK new : new = {k \in q \X Roles : RewardValue(k[2]) > 0} \ DOMAIN rewards
  OBVIOUS
<1>6. /\ DOMAIN rewards' = DOMAIN rewards \cup new
      /\ \A k \in DOMAIN rewards : rewards'[k] = rewards[k]
      /\ \A k \in new : k[1] \in q /\ rewards'[k].status = "pending"
  <2>1. rewards' = [k \in DOMAIN rewards \cup new |->
                      IF k \in new
                      THEN [status |-> "pending", available |-> at + RewardDelay, lost |-> 0]
                      ELSE rewards[k]]
    BY <1>2, <1>5 DEF GrantRewards
  <2>2. \A k \in new : k \notin DOMAIN rewards /\ k[1] \in q
    BY <1>5
  <2> QED BY <2>1, <2>2
<1>7. \A c \in Customers : Extends(account[c], account'[c]) /\ \A i : ~NewRow(account[c], account'[c], i)
  <2>1. ASSUME NEW c \in Customers
        PROVE  Extends(account[c], account'[c]) /\ \A i : ~NewRow(account[c], account'[c], i)
    <3>1. PICK a, b : a = account[c] /\ b = account'[c]
      OBVIOUS
    <3>2. Grown(a, b, {"receipt"})
      BY <3>1, IngestAccounts
    <3>3. PICK src \in {"receipt", "refund"} : src = "receipt"
      OBVIOUS
    <3>4. Grown(a, b, {src})
      BY <3>2, <3>3
    <3>5. Extends(a, b) /\ \A i : ~NewRow(a, b, i)
      BY <3>4, OtherRows
    <3> QED BY <3>1, <3>5
  <2> QED BY <2>1
<1>8. RowsTrue' /\ OneRowPerKey'
  <2>1. RowsTrue /\ OneRowPerKey
    BY DEF Referrals
  <2> QED BY <1>6, <1>7, <2>1, RowsKept
<1>9. IssuedMeansPaid'
  <2>1. IssuedMeansPaid
    BY DEF Referrals
  <2>2. \A k \in DOMAIN rewards' : rewards'[k].status = "issued" =>
          k \in DOMAIN rewards /\ rewards[k].status = "issued"
    BY <1>6
  <2>3. \A c \in Customers : Extends(account[c], account'[c])
    BY <1>7
  <2> QED BY <1>8, <2>1, <2>2, <2>3, PaymentsKept
<1>10. ReversalsFinal
  BY DEF Referrals
<1>11. ReversalsFinal'
  <2>1. ASSUME NEW f \in Friends
        PROVE  \/ f \in q /\ attribution'[f].status = "reward_pending"
               \/ f \notin q /\ attribution'[f] = attribution[f]
    BY <1>2
  <2>2. ASSUME NEW k \in DOMAIN rewards'
        PROVE  /\ attribution'[k[1]].status # "registered"
               /\ attribution'[k[1]].status = "reversed" => rewards'[k].status # "pending"
    <3>1. k[1] \in Friends
      BY <1>3, <1>4, <1>6
    <3>2. CASE k[1] \in q
      BY <2>1, <3>1, <3>2
    <3>3. CASE k[1] \notin q
      <4>1. k \in DOMAIN rewards /\ rewards'[k] = rewards[k] /\ attribution'[k[1]] = attribution[k[1]]
        BY <1>6, <2>1, <3>1, <3>3
      <4> QED BY <1>10, <4>1 DEF ReversalsFinal
    <3> QED BY <3>2, <3>3
  <2>3. ASSUME NEW u \in Slots, req'[u].kind = "pay", attribution'[req'[u].what[1]].status = "reversed"
        PROVE  req'[u].at <= attribution'[req'[u].what[1]].reversed
    <3>1. u # s /\ req'[u] = req[u]
      BY <1>2, <1>3, <2>3 DEF Finish, Idle
    <3>2. req[u].what[1] \in Friends
      <4>1. req[u].what \in DOMAIN rewards
        BY <2>3, <3>1, BooksFacts DEF RequestOK
      <4> QED BY <1>3, <4>1
    <3>3. attribution'[req[u].what[1]] = attribution[req[u].what[1]]
      BY <2>1, <2>3, <3>1, <3>2
    <3> QED BY <1>10, <2>3, <3>1, <3>3 DEF ReversalsFinal
  <2> QED BY <2>2, <2>3 DEF ReversalsFinal
<1> QED BY <1>8, <1>9, <1>11 DEF Referrals

(***************************************************************************)
(* A payment finds its key taken or adds the row, and marks the reward     *)
(* issued with it.                                                         *)
(***************************************************************************)
LEMMA PayKeepsReferrals ==
  ASSUME Books, Books', Referrals, NEW s \in Slots, PayCommit(s)
  PROVE  Referrals'
<1>1. PICK k, e : k = req[s].what /\ e = Beneficiary(k)
  OBVIOUS
<1>2. k \in DOMAIN rewards /\ k[1] \in Friends /\ e \in Customers /\ k \in Friends \X Roles
  <2>1. DOMAIN rewards \subseteq Friends \X Roles
    BY DEF Books, TypeOK
  <2> QED BY <1>1, <2>1, PayAccounts
<1>3. \A d \in Customers :
        /\ d # e => account'[d] = account[d]
        /\ d = e => \/ account'[d] = account[d] /\ HasRow(account[d], "referral", k[1])
                    \/ /\ ~HasRow(account[d], "referral", k[1])
                       /\ OneRow(account[d], account'[d], "referral", k[1], RewardValue(k[2]))
  BY <1>1, PayAccounts
<1>4. /\ Finish(s) /\ rewards' = [rewards EXCEPT ![k].status = "issued"]
      /\ \/ attribution' = [attribution EXCEPT ![k[1]].status = "rewarded"]
         \/ attribution' = attribution
  BY <1>1 DEF PayCommit
<1>5. /\ DOMAIN req = Slots /\ DOMAIN rewards \subseteq Friends \X Roles
      /\ \A x \in DOMAIN rewards : rewards[x] \in RewardType
      /\ attribution \in [Friends -> AttributionType]
  BY DEF Books, TypeOK
<1>6. /\ DOMAIN rewards' = DOMAIN rewards /\ rewards'[k].status = "issued"
      /\ \A x \in DOMAIN rewards : x # k => rewards'[x] = rewards[x]
  BY <1>2, <1>4, <1>5 DEF RewardType
<1>7. RewardOf(e, k[1]) = k /\ e \in {k[1], Referrer}
  BY <1>1, <1>2, RewardOfBeneficiary DEF Beneficiary
<1>8. ASSUME NEW d \in Customers
      PROVE  /\ Extends(account[d], account'[d])
             /\ \A i : NewRow(account[d], account'[d], i) =>
                  /\ d = e /\ ~HasRow(account[d], "referral", k[1])
                  /\ i = Len(account'[d].ledger) /\ account'[d].ledger[i].src = "referral"
                  /\ account'[d].ledger[i].by = k[1]
                  /\ account'[d].ledger[i].amount = RewardValue(k[2])
             /\ d = e => HasRow(account'[d], "referral", k[1])
  <2>1. CASE account'[d] = account[d]
    <3>1. d = e => HasRow(account[d], "referral", k[1])
      BY <1>3, <2>1 DEF HasRow, OneRow
    <3>2. Extends(account[d], account[d]) /\ \A i : ~NewRow(account[d], account[d], i)
      BY SameRows
    <3> QED BY <2>1, <3>1, <3>2
  <2>2. CASE account'[d] # account[d]
    <3>1. d = e /\ ~HasRow(account[d], "referral", k[1])
          /\ OneRow(account[d], account'[d], "referral", k[1], RewardValue(k[2]))
      BY <1>3, <2>2
    <3>2. PICK a, b, src, by, amount : /\ a = account[d] /\ b = account'[d] /\ src = "referral"
                                       /\ by = k[1] /\ amount = RewardValue(k[2])
      OBVIOUS
    <3>3. a.ledger \in Seq(RowType) /\ OneRow(a, b, src, by, amount)
      BY <3>1, <3>2, LedgersTyped
    <3>4. PICK other \in {"receipt", "refund"} : TRUE
      OBVIOUS
    <3>5. Grown(a, a, {other})
      BY <3>3, GrownSame
    <3>6. AddsRow(a, b, src, by, amount)
      BY <3>3, <3>5, OneNewRow
    <3> QED BY <3>1, <3>2, <3>6 DEF AddsRow
  <2> QED BY <2>1, <2>2
<1>9. RowsTrue' /\ OneRowPerKey'
  <2>1. RowsTrue /\ OneRowPerKey
    BY DEF Referrals
  <2>2. \A x \in DOMAIN rewards : /\ x \in DOMAIN rewards'
                                  /\ rewards[x].status # "pending" => rewards'[x].status # "pending"
    BY <1>6
  <2>3. ASSUME NEW d \in Customers, NEW i, NewRow(account[d], account'[d], i)
        PROVE  /\ i = Len(account'[d].ledger)
               /\ ~HasRow(account[d], account'[d].ledger[i].src, account'[d].ledger[i].by)
               /\ RowTrue(d, account[d].ledger, i)'
    <3>1. /\ d = e /\ ~HasRow(account[d], "referral", k[1])
          /\ i = Len(account'[d].ledger) /\ account'[d].ledger[i].src = "referral"
          /\ account'[d].ledger[i].by = k[1]
          /\ account'[d].ledger[i].amount = RewardValue(k[2])
      BY <1>8, <2>3
    <3>2. RowTrue(d, account[d].ledger, i)'
      BY <1>2, <1>6, <1>7, <3>1 DEF RowTrue
    <3> QED BY <3>1, <3>2
  <2> QED BY <1>8, <2>1, <2>2, <2>3, RowsKept
<1>10. IssuedMeansPaid'
  <2>1. IssuedMeansPaid
    BY DEF Referrals
  <2>2. \A x \in DOMAIN rewards' : rewards'[x].status = "issued" =>
          \/ x \in DOMAIN rewards /\ rewards[x].status = "issued"
          \/ HasRow(account'[Beneficiary(x)], "referral", x[1])
    BY <1>1, <1>2, <1>6, <1>8
  <2>3. \A c \in Customers : Extends(account[c], account'[c])
    BY <1>8
  <2> QED BY <1>9, <2>1, <2>2, <2>3, PaymentsKept
<1>11. ReversalsFinal
  BY DEF Referrals
<1>12. ReversalsFinal'
  <2>1. ASSUME NEW f \in Friends
        PROVE  attribution'[f] = attribution[f] \/ (f = k[1] /\ attribution'[f].status = "rewarded")
    BY <1>2, <1>4, <1>5 DEF AttributionType
  <2>2. ASSUME NEW x \in DOMAIN rewards'
        PROVE  /\ attribution'[x[1]].status # "registered"
               /\ attribution'[x[1]].status = "reversed" => rewards'[x].status # "pending"
    <3>1. x \in DOMAIN rewards /\ x[1] \in Friends
      BY <1>5, <1>6
    <3>2. /\ attribution[x[1]].status # "registered"
          /\ attribution[x[1]].status = "reversed" => rewards[x].status # "pending"
      BY <1>11, <3>1 DEF ReversalsFinal
    <3> QED BY <1>6, <2>1, <3>1, <3>2
  <2>3. ASSUME NEW u \in Slots, req'[u].kind = "pay", attribution'[req'[u].what[1]].status = "reversed"
        PROVE  req'[u].at <= attribution'[req'[u].what[1]].reversed
    <3>1. u # s /\ req'[u] = req[u]
      BY <1>4, <1>5, <2>3 DEF Finish, Idle
    <3>2. req[u].what[1] \in Friends
      <4>1. req[u].what \in DOMAIN rewards
        BY <2>3, <3>1, BooksFacts DEF RequestOK
      <4> QED BY <1>5, <4>1
    <3>3. attribution'[req[u].what[1]] = attribution[req[u].what[1]]
      BY <2>1, <2>3, <3>1, <3>2
    <3> QED BY <1>11, <2>3, <3>1, <3>3 DEF ReversalsFinal
  <2> QED BY <2>2, <2>3 DEF ReversalsFinal
<1> QED BY <1>9, <1>10, <1>12 DEF Referrals

(***************************************************************************)
(* A refund takes issued rewards back under their keys and leaves none of  *)
(* the referral pending.                                                   *)
(***************************************************************************)
LEMMA RefundKeepsReferrals ==
  ASSUME Books, Books', Referrals, NEW s \in Slots, RefundCommit(s)
  PROVE  Referrals'
<1>1. PICK r, at, c, left : /\ r = req[s].what /\ at = req[s].at
                            /\ c = sales[r.original].customer
                            /\ left = Remaining(r.original) - r.amount
  OBVIOUS
<1>2. PICK full \in BOOLEAN : full = (left = 0)
  OBVIOUS
<1>3. PICK status, out : /\ status = IF full THEN "refunded" ELSE "partially_refunded"
                         /\ out = Disqualified(r.original, left)
  OBVIOUS
<1>4. PICK accounts : Between(accounts, out, r.ext, at)
  BY <1>1, <1>2, <1>3, RefundFacts
<1>5. PICK ext \in RefundIds : ext = r.ext
  BY <1>1, <1>2, <1>3, RefundFacts
<1>6. /\ out \subseteq Friends /\ clock \in Time /\ at \in Time
      /\ DOMAIN req = Slots /\ DOMAIN rewards \subseteq Friends \X Roles
  BY Zenon, <1>1, <1>3, BooksFacts DEF Disqualified, TypeOK
<1>7. attribution' = [f \in Friends |->
                        IF f \in out
                        THEN [attribution[f] EXCEPT !.status = "reversed",
                                                    !.reversed = clock]
                        ELSE attribution[f]]
  BY ZenonT(30), <1>1, <1>3 DEF RefundCommit
<1>8. Finish(s) /\ attribution \in [Friends -> AttributionType]
  BY DEF RefundCommit, Books, TypeOK
<1>9. /\ DOMAIN rewards' = DOMAIN rewards
      /\ \A k \in DOMAIN rewards : \/ rewards'[k] = rewards[k]
                                   \/ rewards'[k].status = "reversed"
      /\ \A k \in DOMAIN rewards : k[1] \in out => rewards'[k].status \notin {"pending", "issued"}
  BY <1>4 DEF Between, RevokeRewards
<1>10. RowsTrue /\ OneRowPerKey /\ IssuedMeansPaid /\ ReversalsFinal
  BY DEF Referrals
<1>11. ASSUME NEW d \in Customers
       PROVE  \/ Grown(account[d], account'[d], {"refund"})
              \/ \E f \in out : /\ Grown(account[d], accounts[d], {"refund"})
                                /\ Recovered(accounts[d], account'[d], d, f)
  <2>1. PICK b : b = account'[d]
    OBVIOUS
  <2>2. b = RecoverAll(accounts, out, ext, at)[d]
    BY <1>4, <1>5, <2>1 DEF Between
  <2>3. \A e \in Customers : AccountOK(accounts[e])
    BY <1>4 DEF Between
  <2>4. \A f \in out : /\ CanRecover(accounts[f], <<f, "friend">>, f, at)
                       /\ CanRecover(accounts[Referrer], <<f, "referrer">>, Referrer, at)
    BY <1>4 DEF Between
  <2>5. b = accounts[d] \/ \E f \in out : Recovered(accounts[d], b, d, f)
    BY <1>6, <2>2, <2>3, <2>4, RecoverAllOK
  <2>6. Grown(account[d], accounts[d], {"refund"})
    BY <1>4 DEF Between
  <2> QED BY <2>1, <2>5, <2>6
<1>12. PICK other \in {"receipt", "refund"} : other = "refund"
  OBVIOUS
<1>13. ASSUME NEW d \in Customers
       PROVE  /\ Extends(account[d], account'[d])
              /\ \A i : NewRow(account[d], account'[d], i) =>
                   /\ i = Len(account'[d].ledger)
                   /\ ~HasRow(account[d], account'[d].ledger[i].src, account'[d].ledger[i].by)
                   /\ RowTrue(d, account[d].ledger, i)'
  <2>1. PICK a, b, m : a = account[d] /\ b = account'[d] /\ m = accounts[d]
    OBVIOUS
  <2>2. CASE Grown(a, b, {"refund"})
    <3>1. Grown(a, b, {other})
      BY <1>12, <2>2
    <3>2. Extends(a, b) /\ \A i : ~NewRow(a, b, i)
      BY <3>1, OtherRows
    <3> QED BY <2>1, <3>2
  <2>3. CASE ~Grown(a, b, {"refund"})
    <3>1. PICK f \in out : Grown(a, m, {other}) /\ Recovered(m, b, d, f)
      BY <1>11, <1>12, <2>1, <2>3
    <3>2. PICK k : k = RewardOf(d, f)
      OBVIOUS
    <3>3. PICK due : due = Due(m, k)
      OBVIOUS
    <3>4. PICK src : src = "referral_reversal"
      OBVIOUS
    <3>5. /\ d \in {f, Referrer} /\ OneRow(m, b, src, f, due)
          /\ Issued(k) /\ ~HasRow(m, src, f)
      BY <3>1, <3>2, <3>3, <3>4 DEF Recovered
    <3>6. AccountOK(m)
      BY <1>4, <2>1 DEF Between
    <3>7. a.ledger \in Seq(RowType) /\ m.ledger \in Seq(RowType)
      BY <2>1, <3>6, LedgersTyped DEF AccountOK, IsAccount
    <3>8. AddsRow(a, b, src, f, due)
      BY <3>1, <3>5, <3>7, OneNewRow
    <3>9. ~HasRow(a, src, f)
      <4>1. a.ledger \in Seq(RowType) /\ Len(a.ledger) \in Nat /\ Len(m.ledger) \in Nat
        BY <3>7
      <4> QED BY SMTT(30), <3>1, <3>5, <4>1 DEF Grown, HasRow
    <3>10. f \in Friends /\ k \in Friends \X Roles /\ Beneficiary(k) = d /\ k[1] = f
      BY <1>6, <3>2, <3>5, BeneficiaryOfReward
    <3>11. HasRow(a, "referral", f)
      <4>1. k \in DOMAIN rewards /\ rewards[k].status = "issued"
        BY <3>5 DEF Issued
      <4>2. RowsOf(d, "referral", f) # {}
        BY <1>10, <3>10, <4>1 DEF IssuedMeansPaid
      <4> QED BY <2>1, <4>2, RowsOfAreRows
    <3>12. due <= RewardValue(k[2])
      BY <3>3, <3>6, DueBounded
    <3>13. ASSUME NEW i, NewRow(a, b, i)
           PROVE  i = Len(b.ledger) /\ ~HasRow(a, b.ledger[i].src, b.ledger[i].by)
                  /\ RowTrue(d, account[d].ledger, i)'
      <4>1. /\ i = Len(b.ledger) /\ b.ledger[i].src = src
            /\ b.ledger[i].by = f /\ b.ledger[i].amount = due
        BY <3>8, <3>13 DEF AddsRow
      <4>2. k \in DOMAIN rewards' /\ rewards'[k].status # "pending"
        BY <1>9, <3>5, <3>10 DEF Issued
      <4>3. \E j \in 1..(i - 1) : b.ledger[j].src = "referral" /\ b.ledger[j].by = f
        <5>1. PICK j \in 1..Len(a.ledger) : a.ledger[j].src = "referral" /\ a.ledger[j].by = f
          BY <3>11 DEF HasRow
        <5>2. b.ledger[j] = a.ledger[j]
          BY <3>8 DEF AddsRow, Extends
        <5>3. PICK n \in Nat : n = Len(a.ledger)
          BY <3>7
        <5>4. i \in 1..Len(b.ledger) /\ i > n
          BY <3>13, <5>3 DEF NewRow
        <5>5. j \in 1..(i - 1)
          <6>1. j \in 1..n
            BY <5>3
          <6> QED BY <5>4, <6>1
        <5> QED BY <5>1, <5>2, <5>5
      <4>4. RowTrue(d, account[d].ledger, i)'
        BY <2>1, <3>2, <3>4, <3>5, <3>12, <4>1, <4>2, <4>3 DEF RowTrue
      <4> QED BY <3>9, <4>1, <4>4
    <3>14. Extends(a, b)
      BY <3>8 DEF AddsRow
    <3> QED BY <2>1, <3>13, <3>14
  <2> QED BY <2>2, <2>3
<1>14. RowsTrue' /\ OneRowPerKey'
  <2>1. \A k \in DOMAIN rewards : /\ k \in DOMAIN rewards'
                                  /\ rewards[k].status # "pending" => rewards'[k].status # "pending"
    BY <1>9
  <2> QED BY <1>10, <1>13, <2>1, RowsKept
<1>15. IssuedMeansPaid'
  <2>1. \A k \in DOMAIN rewards' : rewards'[k].status = "issued" =>
          k \in DOMAIN rewards /\ rewards[k].status = "issued"
    BY <1>9
  <2>2. \A d \in Customers : Extends(account[d], account'[d])
    BY <1>13
  <2> QED BY <1>10, <1>14, <2>1, <2>2, PaymentsKept
<1>16. ReversalsFinal'
  <2>1. ASSUME NEW f \in Friends
        PROVE  \/ f \in out /\ attribution'[f].status = "reversed" /\ attribution'[f].reversed = clock
               \/ f \notin out /\ attribution'[f] = attribution[f]
    BY <1>7, <1>8 DEF AttributionType
  <2>2. ASSUME NEW k \in DOMAIN rewards'
        PROVE  /\ attribution'[k[1]].status # "registered"
               /\ attribution'[k[1]].status = "reversed" => rewards'[k].status # "pending"
    <3>1. k \in DOMAIN rewards /\ k[1] \in Friends
      BY <1>6, <1>9
    <3>2. /\ attribution[k[1]].status # "registered"
          /\ attribution[k[1]].status = "reversed" => rewards[k].status # "pending"
      BY <1>10, <3>1 DEF ReversalsFinal
    <3> QED BY <1>9, <2>1, <3>1, <3>2
  <2>3. ASSUME NEW u \in Slots, req'[u].kind = "pay", attribution'[req'[u].what[1]].status = "reversed"
        PROVE  req'[u].at <= attribution'[req'[u].what[1]].reversed
    <3>1. u # s /\ req'[u] = req[u]
      BY <1>6, <1>8, <2>3 DEF Finish, Idle
    <3>2. req[u].what[1] \in Friends /\ req[u].at <= clock
      <4>1. req[u].what \in DOMAIN rewards
        BY <2>3, <3>1, BooksFacts DEF RequestOK
      <4> QED BY <1>6, <4>1, BooksFacts
    <3>3. \/ attribution'[req[u].what[1]].reversed = clock
          \/ attribution'[req[u].what[1]] = attribution[req[u].what[1]]
      BY <2>1, <3>2
    <3> QED BY <1>10, <2>3, <3>1, <3>2, <3>3 DEF ReversalsFinal
  <2> QED BY <2>2, <2>3 DEF ReversalsFinal
<1> QED BY <1>14, <1>15, <1>16 DEF Referrals

(***************************************************************************)
(* No reward is there at the start.                                        *)
(***************************************************************************)
LEMMA ReferralsInit == Init => Referrals
<1> SUFFICES ASSUME Init PROVE Referrals
  OBVIOUS
<1>1. DOMAIN rewards = {}
  BY DEF Init, EmptyFunction
<1>2. \A c \in Customers : Len(account[c].ledger) = 0
  BY DEF Init, NewAccount
<1>3. \A c \in Customers : 1..Len(account[c].ledger) = {}
  BY <1>2
<1>4. RowsTrue /\ OneRowPerKey
  BY <1>3 DEF RowsTrue, OneRowPerKey
<1>5. IssuedMeansPaid
  BY <1>1 DEF IssuedMeansPaid
<1>6. ReversalsFinal
  BY <1>1 DEF Init, Idle, ReversalsFinal
<1> QED BY <1>4, <1>5, <1>6 DEF Referrals

(***************************************************************************)
(* Every step keeps the referrals.                                         *)
(***************************************************************************)
LEMMA ReferralsStep == Books /\ Books' /\ Referrals /\ [Next]_vars => Referrals'
<1> SUFFICES ASSUME Books, Books', Referrals, [Next]_vars PROVE Referrals'
  OBVIOUS
<1>1. ASSUME NEW s \in Slots, IngestCommit(s) PROVE Referrals'
  BY <1>1, IngestKeepsReferrals
<1>2. ASSUME NEW s \in Slots, RefundCommit(s) PROVE Referrals'
  BY <1>2, RefundKeepsReferrals
<1>3. ASSUME NEW s \in Slots, PayCommit(s) PROVE Referrals'
  BY <1>3, PayKeepsReferrals
<1>4. ASSUME \/ \E s \in Slots, r \in PosReceipts : IngestBegin(s, r)
             \/ \E s \in Slots : IngestCount(s)
             \/ \E s \in Slots, id \in DOMAIN sales, ext \in RefundIds :
                  \E amount \in 1..sales[id].net : RefundBegin(s, id, ext, amount)
             \/ \E s \in Slots, k \in DOMAIN rewards : PayBegin(s, k)
             \/ \E c \in Customers : DeleteCustomer(c)
             \/ \E s \in Slots : Abort(s)
             \/ Tick
             \/ UNCHANGED vars
      PROVE  Referrals'
  BY <1>4, QuietStepsKeepReferrals
<1> QED BY <1>1, <1>2, <1>3, <1>4 DEF Next, Quiesce

(***************************************************************************)
(* The inductive invariant of the referral rewards.                        *)
(***************************************************************************)
THEOREM ReferralsAlways == Spec => []Referrals
BY BooksAlways, ReferralsInit, ReferralsStep, PTL DEF Spec

(***************************************************************************)
(* A referral reward is credited at most once and taken back at most once, *)
(* after it was credited and by no more than its value: for any number of  *)
(* workers and refunds, however they overlap.                              *)
(***************************************************************************)
THEOREM PaidAndRecoveredOnce == Spec => []RewardPaidAndRecoveredOnce
<1>1. Books /\ Referrals => RewardPaidAndRecoveredOnce
  <2>1. ASSUME Books, Referrals, NEW c \in Customers, NEW f \in Friends, NEW src \in Programme
        PROVE  Cardinality(RowsOf(c, src, f)) <= 1
    <3>1. PICK S : S = RowsOf(c, src, f)
      OBVIOUS
    <3>2. \A i, j \in S : i = j
      BY <2>1, <3>1 DEF Referrals, OneRowPerKey, RowsOf
    <3>3. CASE S = {}
      BY <3>1, <3>3, FS_EmptySet
    <3>4. CASE S # {}
      <4>1. PICK x \in S : TRUE
        BY <3>4
      <4>2. S = {x}
        BY <3>2, <4>1
      <4>3. Cardinality({x}) = 1
        BY FS_Singleton
      <4>4. Cardinality(S) = 1
        BY <4>2, <4>3
      <4> QED BY <3>1, <4>4
    <3> QED BY <3>3, <3>4
  <2>2. ASSUME Books, Referrals, NEW c \in Customers, NEW f \in Friends,
               NEW j \in RowsOf(c, "referral_reversal", f)
        PROVE  \E i \in RowsOf(c, "referral", f) :
                 i < j /\ account[c].ledger[j].amount <= account[c].ledger[i].amount
    <3>1. PICK l : l = account[c].ledger
      OBVIOUS
    <3>2. PICK n \in Nat : n = Len(l)
      BY <2>2, <3>1, LedgersTyped
    <3>3. j \in 1..n /\ l[j].src = "referral_reversal" /\ l[j].by = f
      BY <2>2, <3>1, <3>2 DEF RowsOf
    <3>4. RowTrue(c, l, j)
      BY <2>2, <3>1, <3>2, <3>3 DEF Referrals, RowsTrue, Programme
    <3>5. PICK i \in 1..(j - 1) : l[i].src = "referral" /\ l[i].by = f
      BY <3>3, <3>4 DEF RowTrue
    <3>6. i \in 1..n /\ i < j
      BY <3>3
    <3>7. RowTrue(c, l, i)
      BY <2>2, <3>1, <3>2, <3>5, <3>6 DEF Referrals, RowsTrue, Programme
    <3>8. l[i].amount = RewardValue(RewardOf(c, f)[2]) /\ l[j].amount <= RewardValue(RewardOf(c, f)[2])
      BY <3>3, <3>4, <3>5, <3>7 DEF RowTrue
    <3>9. i \in RowsOf(c, "referral", f)
      BY <3>1, <3>2, <3>5, <3>6 DEF RowsOf
    <3> QED BY <3>1, <3>6, <3>8, <3>9
  <2> QED BY <2>1, <2>2 DEF RewardPaidAndRecoveredOnce, Programme
<1> QED BY <1>1, BooksAlways, ReferralsAlways, PTL

(***************************************************************************)
(* Only the commit of a worker makes a reversed referral anything else,    *)
(* and that worker had begun by the time it was reversed.                  *)
(***************************************************************************)
LEMMA RevivedByWorker ==
  ASSUME Books, Referrals, [Next]_vars, NEW f \in Friends,
         attribution[f].status = "reversed", attribution'[f].status # "reversed"
  PROVE  \E s \in Slots : /\ req[s].kind = "pay" /\ req[s].what[1] = f
                          /\ req[s].at <= attribution[f].reversed /\ req'[s] = Idle
<1>1. ASSUME NEW s \in Slots, IngestCommit(s) PROVE FALSE
  <2>1. PICK q, row : /\ q = Qualifies(req[s].what, req[s].saw)
                      /\ attribution' = [g \in Friends |-> IF g \in q THEN row ELSE attribution[g]]
    <3>1. PICK q : q = Qualifies(req[s].what, req[s].saw)
      OBVIOUS
    <3>2. PICK row : row = [status |-> "reward_pending", sale |-> req[s].what.ext, at |-> req[s].at,
                            committed |-> clock, reversed |-> Never]
      OBVIOUS
    <3> QED BY <1>1, <3>1, <3>2 DEF IngestCommit
  <2>2. f \notin q
    BY <2>1 DEF Qualifies
  <2> QED BY <2>1, <2>2
<1>2. ASSUME NEW s \in Slots, RefundCommit(s) PROVE FALSE
  <2>1. PICK out : attribution' = [g \in Friends |->
                                     IF g \in out
                                     THEN [attribution[g] EXCEPT !.status = "reversed",
                                                                 !.reversed = clock]
                                     ELSE attribution[g]]
    BY <1>2 DEF RefundCommit
  <2>2. attribution \in [Friends -> AttributionType]
    BY DEF Books, TypeOK
  <2> QED BY ZenonT(30), <2>1, <2>2 DEF AttributionType
<1>3. ASSUME NEW s \in Slots, PayCommit(s)
      PROVE  /\ req[s].kind = "pay" /\ req[s].what[1] = f
             /\ req[s].at <= attribution[f].reversed /\ req'[s] = Idle
  <2>1. PICK k : k = req[s].what
    OBVIOUS
  <2>2. /\ req[s].kind = "pay" /\ Finish(s)
        /\ \/ attribution' = [attribution EXCEPT ![k[1]].status = "rewarded"]
           \/ attribution' = attribution
    BY <1>3, <2>1 DEF PayCommit
  <2>3. k[1] = f
    <3>1. attribution \in [Friends -> AttributionType]
      BY DEF Books, TypeOK
    <3> QED BY <2>2, <3>1
  <2>4. req[s].at <= attribution[f].reversed
    BY <2>1, <2>2, <2>3 DEF Referrals, ReversalsFinal
  <2>5. req'[s] = Idle
    BY <2>2, BooksFacts DEF Finish
  <2> QED BY <2>1, <2>2, <2>3, <2>4, <2>5
<1>4. CASE UNCHANGED attribution
  BY <1>4
<1> QED
  BY <1>1, <1>2, <1>3, <1>4 DEF Next, IngestBegin, IngestCount, RefundBegin, PayBegin,
     DeleteCustomer, Abort, Tick, Quiesce, vars

(***************************************************************************)
(* A reward says issued exactly from its payment on, and a reversed        *)
(* referral comes back to life only through a worker that had read its     *)
(* candidates when the refund committed.                                   *)
(***************************************************************************)
THEOREM ReferralsArePaid == Spec => ReferralsPaid
<1>1. Referrals => IssuedMeansPaid
  BY DEF Referrals
<1>2. Books /\ Referrals /\ [Next]_vars =>
        [\A f \in Friends :
           attribution[f].status = "reversed" /\ attribution'[f].status # "reversed" =>
             \E s \in Slots : /\ req[s].kind = "pay"
                              /\ req[s].what[1] = f
                              /\ req[s].at <= attribution[f].reversed
                              /\ req'[s] = Idle]_vars
  BY RevivedByWorker
<1> QED BY <1>1, <1>2, BooksAlways, ReferralsAlways, PTL DEF Spec, ReferralsPaid, RevivedOnlyByStaleWorker

-----------------------------------------------------------------------------
(* The steps keep the limits. *)

(***************************************************************************)
(* The friends counted are finitely many.                                  *)
(***************************************************************************)
LEMMA StandingFinite ==
  /\ Standing \subseteq Counted /\ Counted \subseteq Friends
  /\ \A S \in SUBSET Friends : IsFiniteSet(S) /\ Cardinality(S) \in Nat
  /\ \A S \in SUBSET Friends : \A T \in SUBSET S : Cardinality(T) <= Cardinality(S)
<1>1. Standing \subseteq Counted /\ Counted \subseteq Friends
  BY DEF Standing, Counted
<1>2. \A S \in SUBSET Friends : IsFiniteSet(S) /\ Cardinality(S) \in Nat
  BY ReceiptsAssumption, FS_Subset, FS_CardinalityType
<1>3. ASSUME NEW S \in SUBSET Friends, NEW T \in SUBSET S PROVE Cardinality(T) <= Cardinality(S)
  BY <1>2, FS_Subset
<1> QED BY <1>1, <1>2, <1>3

(***************************************************************************)
(* The fields of an attribution that the limit compares.                   *)
(***************************************************************************)
LEMMA AttributionTyped ==
  ASSUME Books, NEW f \in Friends
  PROVE  /\ attribution[f].at \in Nat /\ attribution[f].committed \in Int
         /\ attribution[f].status \in {"registered", "reward_pending", "rewarded", "reversed"}
         /\ attribution[f].reversed \in Int
<1>1. attribution[f] \in AttributionType
  BY DEF Books, TypeOK
<1>2. Never \in Int /\ \A t \in Time : t \in Nat
  BY ReceiptsAssumption DEF Never, Time
<1> QED BY <1>1, <1>2 DEF AttributionType

(***************************************************************************)
(* No friend joins those who stand, and no receipt in flight has counted   *)
(* anew: then the counts and the limit stay as they are.                   *)
(***************************************************************************)
LEMMA FewerStand ==
  ASSUME Books, Limits, Standing' \subseteq Standing,
         \A f \in Friends : /\ attribution'[f].at = attribution[f].at
                            /\ attribution'[f].committed = attribution[f].committed
                            /\ attribution'[f].status = "reversed" => attribution'[f].reversed # Never,
         clock' \in Nat, clock <= clock',
         \A u \in Slots : req'[u].kind = "ingest" /\ req'[u].saw # Never => req'[u] = req[u]
  PROVE  Limits'
<1>1. ASSUME NEW u \in Slots, req'[u].kind = "ingest", req'[u].saw # Never
      PROVE  Cardinality({f \in Standing' : attribution'[f].committed < req'[u].at}) <= req'[u].saw
  <2>1. req'[u] = req[u]
    BY <1>1
  <2>2. PICK S : S = {f \in Standing : attribution[f].committed < req[u].at}
    OBVIOUS
  <2>3. PICK T : T = {f \in Standing' : attribution'[f].committed < req'[u].at}
    OBVIOUS
  <2>4. Cardinality(S) <= req[u].saw
    BY <1>1, <2>1, <2>2 DEF Limits
  <2>5. S \in SUBSET Friends /\ T \in SUBSET S
    BY <2>1, <2>2, <2>3, StandingFinite
  <2>6. Cardinality(S) \in Nat /\ Cardinality(T) \in Nat /\ Cardinality(T) <= Cardinality(S)
    <3>1. T \in SUBSET Friends
      BY <2>5
    <3> QED BY <2>5, <3>1, StandingFinite
  <2>7. req[u].saw \in Int
    BY BooksFacts DEF RequestOK, Never
  <2> QED BY <2>1, <2>3, <2>4, <2>6, <2>7
<1>2. ASSUME RewardLimit # NoLimit, NEW S \in SUBSET Standing',
             \A f, g \in S : f # g => Apart(f, g)'
      PROVE  Cardinality(S) <= RewardLimit
  <2>1. S \in SUBSET Standing
    OBVIOUS
  <2>2. \A f, g \in S : f # g => Apart(f, g)
    <3>1. S \subseteq Friends
      BY <2>1, StandingFinite
    <3> QED BY <1>2, <3>1 DEF Apart
  <2> QED BY <1>2, <2>1, <2>2 DEF Limits
<1>3. ASSUME NEW f \in Friends
      PROVE  /\ attribution'[f].status = "reversed" => attribution'[f].reversed # Never
             /\ attribution'[f].at <= clock' /\ attribution'[f].committed <= clock'
  <2>1. attribution[f].at <= clock /\ attribution[f].committed <= clock /\ clock \in Nat
    BY BooksFacts DEF Limits
  <2> QED BY <2>1, AttributionTyped
<1> QED BY <1>1, <1>2, <1>3 DEF Limits

(***************************************************************************)
(* The steps that count nothing and qualify nobody keep the limits.        *)
(***************************************************************************)
LEMMA QuietStepsKeepLimits ==
  ASSUME Books, Limits,
         \/ \E s \in Slots, r \in PosReceipts : IngestBegin(s, r)
         \/ \E s \in Slots, id \in DOMAIN sales, ext \in RefundIds :
              \E amount \in 1..sales[id].net : RefundBegin(s, id, ext, amount)
         \/ \E s \in Slots, k \in DOMAIN rewards : PayBegin(s, k)
         \/ \E c \in Customers : DeleteCustomer(c)
         \/ \E s \in Slots : Abort(s)
         \/ Tick
         \/ UNCHANGED vars
  PROVE  Limits'
<1>1. DOMAIN req = Slots /\ clock \in Nat
  BY BooksFacts
<1>2. attribution' = attribution /\ clock' \in Nat /\ clock <= clock'
  BY <1>1 DEF IngestBegin, RefundBegin, Begin, PayBegin, DeleteCustomer, Abort, Tick, vars, Now
<1>3. ASSUME NEW u \in Slots, req'[u].kind = "ingest", req'[u].saw # Never
      PROVE  req'[u] = req[u]
  BY <1>1, <1>3 DEF IngestBegin, RefundBegin, Begin, PayBegin, DeleteCustomer, Abort, Finish, Idle, Tick, vars
<1>4. Standing' = Standing
  BY <1>2 DEF Standing, Counted
<1>5. \A f \in Friends : attribution'[f].status = "reversed" => attribution'[f].reversed # Never
  BY <1>2 DEF Limits
<1> QED BY <1>2, <1>3, <1>4, <1>5, FewerStand

(***************************************************************************)
(* The count is at least the number of friends standing, whenever they     *)
(* committed.                                                              *)
(***************************************************************************)
LEMMA CountKeepsLimits ==
  ASSUME Books, Limits, NEW s \in Slots, IngestCount(s)
  PROVE  Limits'
<1>1. DOMAIN req = Slots /\ clock \in Nat
  BY BooksFacts
<1>2. PICK n \in Nat : n = Cardinality(Counted)
  BY CountedNat
<1>3. req' = [req EXCEPT ![s].saw = n] /\ UNCHANGED <<clock, attribution>>
  BY <1>2 DEF IngestCount
<1>4. Standing' = Standing
  BY <1>3 DEF Standing, Counted
<1>5. ASSUME NEW u \in Slots, req'[u].kind = "ingest", req'[u].saw # Never
      PROVE  Cardinality({f \in Standing' : attribution'[f].committed < req'[u].at}) <= req'[u].saw
  <2>1. CASE u # s
    <3>1. req'[u] = req[u]
      BY <1>1, <1>3, <2>1
    <3> QED BY <1>3, <1>4, <1>5, <3>1 DEF Limits
  <2>2. CASE u = s
    <3>1. PICK T : T = {f \in Standing' : attribution'[f].committed < req'[u].at}
      OBVIOUS
    <3>2. T \in SUBSET Counted
      BY <1>4, <3>1, StandingFinite
    <3>3. Cardinality(T) <= n
      BY <1>2, <3>2, CountedNat
    <3>4. "saw" \in DOMAIN req[s]
      BY BooksFacts DEF RequestOK
    <3> QED BY <1>1, <1>3, <2>2, <3>1, <3>3, <3>4
  <2> QED BY <2>1, <2>2
<1>6. ASSUME RewardLimit # NoLimit, NEW S \in SUBSET Standing',
             \A f, g \in S : f # g => Apart(f, g)'
      PROVE  Cardinality(S) <= RewardLimit
  <2>1. \A f, g \in S : f # g => Apart(f, g)
    BY <1>3, <1>6 DEF Apart
  <2> QED BY <1>4, <1>6, <2>1 DEF Limits
<1>7. \A f \in Friends : /\ attribution'[f].status = "reversed" => attribution'[f].reversed # Never
                         /\ attribution'[f].at <= clock' /\ attribution'[f].committed <= clock'
  BY <1>3 DEF Limits
<1> QED BY <1>5, <1>6, <1>7 DEF Limits

(***************************************************************************)
(* A refund takes friends out of the count only.                           *)
(***************************************************************************)
LEMMA RefundKeepsLimits ==
  ASSUME Books, Limits, NEW s \in Slots, RefundCommit(s)
  PROVE  Limits'
<1>1. DOMAIN req = Slots /\ clock \in Nat /\ attribution \in [Friends -> AttributionType]
  BY Zenon, BooksFacts DEF TypeOK
<1>2. PICK out : attribution' = [f \in Friends |->
                                   IF f \in out
                                   THEN [attribution[f] EXCEPT !.status = "reversed",
                                                               !.reversed = clock]
                                   ELSE attribution[f]]
  BY ZenonT(30) DEF RefundCommit
<1>3. Finish(s) /\ clock' = clock
  BY DEF RefundCommit
<1>4. \A f \in Friends :
        /\ attribution'[f].at = attribution[f].at
        /\ attribution'[f].committed = attribution[f].committed
        /\ \/ attribution'[f].status = "reversed" /\ attribution'[f].reversed = clock
           \/ attribution'[f] = attribution[f]
  BY <1>1, <1>2 DEF AttributionType
<1>5. Standing' \subseteq Standing
  BY <1>4 DEF Standing, Counted, Counts
<1>6. clock # Never
  BY <1>1 DEF Never
<1>7. \A f \in Friends : attribution'[f].status = "reversed" => attribution'[f].reversed # Never
  BY <1>4, <1>6 DEF Limits
<1>8. \A u \in Slots : req'[u].kind = "ingest" /\ req'[u].saw # Never => req'[u] = req[u]
  BY <1>1, <1>3 DEF Finish, Idle
<1> QED BY <1>1, <1>3, <1>4, <1>5, <1>7, <1>8, FewerStand

(***************************************************************************)
(* A payment brings nobody into the count but friends whose referral was   *)
(* reversed before.                                                        *)
(***************************************************************************)
LEMMA PayKeepsLimits ==
  ASSUME Books, Referrals, Limits, NEW s \in Slots, PayCommit(s)
  PROVE  Limits'
<1>1. DOMAIN req = Slots /\ clock \in Nat /\ attribution \in [Friends -> AttributionType]
  BY BooksFacts DEF TypeOK
<1>2. PICK k : k = req[s].what
  OBVIOUS
<1>3. k \in DOMAIN rewards /\ k[1] \in Friends /\ clock' = clock + 1
  BY <1>2, PayAccounts
<1>4. /\ Finish(s)
      /\ \/ attribution' = [attribution EXCEPT ![k[1]].status = "rewarded"]
         \/ attribution' = attribution
  BY <1>2 DEF PayCommit
<1>5. attribution[k[1]].status # "registered"
  BY <1>3 DEF Referrals, ReversalsFinal
<1>6. \A f \in Friends :
        /\ attribution'[f].at = attribution[f].at
        /\ attribution'[f].committed = attribution[f].committed
        /\ attribution'[f].reversed = attribution[f].reversed
        /\ \/ attribution'[f].status = attribution[f].status
           \/ f = k[1] /\ attribution'[f].status = "rewarded"
  BY <1>1, <1>3, <1>4 DEF AttributionType
<1>7. \A f \in Friends : attribution[f].status = "reversed" => attribution[f].reversed # Never
  BY DEF Limits
<1>8. Standing' \subseteq Standing
  <2>1. ASSUME NEW f \in Friends, attribution'[f].status \in Counts, attribution'[f].reversed = Never
        PROVE  attribution[f].status \in Counts /\ attribution[f].reversed = Never
    <3>1. attribution[f].status \in {"registered", "reward_pending", "rewarded", "reversed"}
      BY AttributionTyped
    <3> QED BY <1>5, <1>6, <1>7, <2>1, <3>1 DEF Counts
  <2> QED BY <2>1 DEF Standing, Counted
<1>9. \A f \in Friends : attribution'[f].status = "reversed" => attribution'[f].reversed # Never
  BY <1>6, <1>7
<1>10. \A u \in Slots : req'[u].kind = "ingest" /\ req'[u].saw # Never => req'[u] = req[u]
  BY <1>1, <1>4 DEF Finish, Idle
<1>11. clock' \in Nat /\ clock <= clock'
  BY <1>1, <1>3
<1> QED BY <1>6, <1>8, <1>9, <1>10, <1>11, FewerStand

(***************************************************************************)
(* A friend qualifies under a count below the limit, and that count covers *)
(* everyone whose receipt was apart from this one.                         *)
(***************************************************************************)
LEMMA IngestKeepsLimits ==
  ASSUME Books, Books', Limits, NEW s \in Slots, IngestCommit(s)
  PROVE  Limits'
<1>1. PICK r, at, saw, q : /\ r = req[s].what /\ at = req[s].at /\ saw = req[s].saw
                           /\ q = Qualifies(req[s].what, req[s].saw)
  OBVIOUS
<1>2. PICK row : row = [status |-> "reward_pending", sale |-> r.ext, at |-> at,
                        committed |-> clock, reversed |-> Never]
  OBVIOUS
<1>3. /\ req[s].kind = "ingest" /\ (saw # Never \/ RewardLimit = NoLimit)
      /\ attribution' = [f \in Friends |-> IF f \in q THEN row ELSE attribution[f]]
      /\ Finish(s) /\ clock' = clock
  BY <1>1, <1>2 DEF IngestCommit
<1>4. DOMAIN req = Slots /\ clock \in Nat /\ at \in Nat /\ at <= clock
  BY <1>1, BooksFacts
<1>5. \A u \in Slots : req'[u].kind = "ingest" /\ req'[u].saw # Never => req'[u] = req[u]
  BY <1>3, <1>4 DEF Finish, Idle
<1>6. \A f \in Friends : attribution[f].status = "reversed" => attribution[f].reversed # Never
  BY DEF Limits
<1>7. CASE q = {}
  <2>1. \A f \in Friends : attribution'[f] = attribution[f]
    BY <1>3, <1>7
  <2>2. Standing' = Standing
    BY <2>1 DEF Standing, Counted
  <2>3. clock' \in Nat /\ clock <= clock'
    BY <1>3, <1>4
  <2> QED BY <1>5, <1>6, <2>1, <2>2, <2>3, FewerStand
<1>8. CASE q # {}
  <2>1. PICK f \in q : TRUE
    BY <1>8
  <2>2. /\ f \in Friends /\ q = {f} /\ attribution[f].status = "registered"
        /\ (RewardLimit = NoLimit \/ saw < RewardLimit)
    BY <1>1, <2>1 DEF Qualifies
  <2>3. /\ attribution'[f].status = "reward_pending" /\ attribution'[f].at = at
        /\ attribution'[f].committed = clock /\ attribution'[f].reversed = Never
        /\ \A g \in Friends : g # f => attribution'[g] = attribution[g]
    BY <1>2, <1>3, <2>2
  <2>4. f \notin Standing /\ Standing' = Standing \cup {f} /\ Standing \subseteq Friends
    BY <2>2, <2>3 DEF Standing, Counted, Counts
  <2>5. ASSUME NEW u \in Slots, req'[u].kind = "ingest", req'[u].saw # Never
        PROVE  Cardinality({g \in Standing' : attribution'[g].committed < req'[u].at}) <= req'[u].saw
    <3>1. req'[u] = req[u] /\ req[u].at \in Nat /\ req[u].at <= clock
      BY <1>5, <2>5, BooksFacts
    <3>2. PICK t \in Nat : t = req[u].at
      BY <3>1
    <3>3. ~(attribution'[f].committed < t)
      BY <1>4, <2>3, <3>1, <3>2
    <3>4. {g \in Standing' : attribution'[g].committed < t} = {g \in Standing : attribution[g].committed < t}
      BY <2>3, <2>4, <3>3
    <3>5. Cardinality({g \in Standing : attribution[g].committed < t}) <= req[u].saw
      BY <2>5, <3>1, <3>2 DEF Limits
    <3> QED BY <3>1, <3>2, <3>4, <3>5
  <2>6. ASSUME RewardLimit # NoLimit, NEW S \in SUBSET Standing',
               \A g, h \in S : g # h => Apart(g, h)'
        PROVE  Cardinality(S) <= RewardLimit
    <3>1. CASE f \notin S
      <4>1. S \in SUBSET Standing
        BY <2>4, <3>1
      <4>2. \A g, h \in S : g # h => Apart(g, h)
        BY <2>3, <2>4, <2>6, <3>1, <4>1 DEF Apart
      <4> QED BY <2>6, <4>1, <4>2 DEF Limits
    <3>2. CASE f \in S
      <4>1. PICK T : T = S \ {f}
        OBVIOUS
      <4>2. T \in SUBSET Standing /\ f \notin T
        BY <2>4, <4>1
      <4>3. ASSUME NEW g \in T PROVE attribution[g].committed < at
        <5>1. g \in Friends /\ g # f /\ g \in S
          BY <2>4, <4>1, <4>2
        <5>2. Apart(f, g)'
          BY <2>6, <3>2, <5>1
        <5>3. clock < attribution[g].at \/ attribution[g].committed < at
          BY <2>3, <5>1, <5>2 DEF Apart
        <5>4. attribution[g].at <= clock /\ attribution[g].at \in Nat
          BY <5>1, AttributionTyped DEF Limits
        <5> QED BY <1>4, <5>3, <5>4
      <4>4. PICK U : U = {g \in Standing : attribution[g].committed < at}
        OBVIOUS
      <4>5. T \in SUBSET U /\ U \in SUBSET Friends /\ T \in SUBSET Friends
        BY <2>4, <4>2, <4>3, <4>4
      <4>6. Cardinality(U) <= saw /\ saw < RewardLimit
        BY <1>1, <1>3, <2>2, <2>6, <4>4 DEF Limits
      <4>7. Cardinality(T) \in Nat /\ Cardinality(U) \in Nat /\ Cardinality(T) <= Cardinality(U)
            /\ IsFiniteSet(T)
        BY <4>5, StandingFinite
      <4>8. S = T \cup {f}
        BY <3>2, <4>1
      <4>9. Cardinality(S) = Cardinality(T) + 1
        BY <4>2, <4>7, <4>8, FS_AddElement
      <4>10. saw \in Int /\ RewardLimit \in Int
        <5>1. RequestOK(req[s])
          BY BooksFacts
        <5> QED BY <1>1, <5>1, ReceiptsAssumption DEF RequestOK, Never
      <4> QED BY <4>6, <4>7, <4>9, <4>10
    <3> QED BY <3>1, <3>2
  <2>7. ASSUME NEW g \in Friends
        PROVE  /\ attribution'[g].status = "reversed" => attribution'[g].reversed # Never
               /\ attribution'[g].at <= clock' /\ attribution'[g].committed <= clock'
    <3>1. CASE g = f
      BY <1>3, <1>4, <2>3, <3>1
    <3>2. CASE g # f
      BY <1>3, <2>3, <3>2 DEF Limits
    <3> QED BY <3>1, <3>2
  <2> QED BY <2>5, <2>6, <2>7 DEF Limits
<1> QED BY <1>7, <1>8

(***************************************************************************)
(* Nobody is counted at the start.                                         *)
(***************************************************************************)
LEMMA LimitsInit == Init => Limits
<1> SUFFICES ASSUME Init PROVE Limits
  OBVIOUS
<1>1. \A s \in Slots : req[s].kind = "idle"
  BY DEF Init, Idle
<1>2. Standing = {}
  BY DEF Init, Standing, Counted, Counts
<1>3. \A S \in SUBSET Standing : Cardinality(S) <= RewardLimit
  <2>1. \A S \in SUBSET Standing : S = {}
    BY <1>2
  <2>2. Cardinality({}) = 0 /\ RewardLimit \in Nat
    BY FS_EmptySet, ReceiptsAssumption
  <2> QED BY <2>1, <2>2
<1>4. \A f \in Friends : /\ attribution[f].status = "registered"
                         /\ attribution[f].at <= clock /\ attribution[f].committed <= clock
  BY DEF Init, Never
<1> QED BY <1>1, <1>3, <1>4 DEF Limits

(***************************************************************************)
(* Every step keeps the limits.                                            *)
(***************************************************************************)
LEMMA LimitsStep == Books /\ Books' /\ Referrals /\ Limits /\ [Next]_vars => Limits'
<1> SUFFICES ASSUME Books, Books', Referrals, Limits, [Next]_vars PROVE Limits'
  OBVIOUS
<1>1. ASSUME NEW s \in Slots, IngestCommit(s) PROVE Limits'
  BY <1>1, IngestKeepsLimits
<1>2. ASSUME NEW s \in Slots, RefundCommit(s) PROVE Limits'
  BY <1>2, RefundKeepsLimits
<1>3. ASSUME NEW s \in Slots, PayCommit(s) PROVE Limits'
  BY <1>3, PayKeepsLimits
<1>4. ASSUME NEW s \in Slots, IngestCount(s) PROVE Limits'
  BY <1>4, CountKeepsLimits
<1>5. ASSUME \/ \E s \in Slots, r \in PosReceipts : IngestBegin(s, r)
             \/ \E s \in Slots, id \in DOMAIN sales, ext \in RefundIds :
                  \E amount \in 1..sales[id].net : RefundBegin(s, id, ext, amount)
             \/ \E s \in Slots, k \in DOMAIN rewards : PayBegin(s, k)
             \/ \E c \in Customers : DeleteCustomer(c)
             \/ \E s \in Slots : Abort(s)
             \/ Tick
             \/ UNCHANGED vars
      PROVE  Limits'
  BY <1>5, QuietStepsKeepLimits
<1> QED BY <1>1, <1>2, <1>3, <1>4, <1>5 DEF Next, Quiesce

(***************************************************************************)
(* The inductive invariant of the limit.                                   *)
(***************************************************************************)
THEOREM LimitsAlways == Spec => []Limits
BY BooksAlways, ReferralsAlways, LimitsInit, LimitsStep, PTL DEF Spec

(***************************************************************************)
(* More friends of one referrer are rewarded than the program allows only  *)
(* if two of their receipts overlapped or a reversed referral was revived: *)
(* the count that no lock protects is sound for receipts one after         *)
(* another, however many there are.                                        *)
(***************************************************************************)
THEOREM LimitHoldsApart == Spec => []LimitExceededOnlyByOverlap
<1>1. Books /\ Limits => LimitExceededOnlyByOverlap
  <2>1. SUFFICES ASSUME Books, Limits, RewardLimit # NoLimit, Cardinality(Counted) > RewardLimit,
                        \A f \in Counted : attribution[f].reversed = Never,
                        ~ \E f, g \in Counted : /\ f # g
                                                /\ attribution[f].at <= attribution[g].committed
                                                /\ attribution[g].at <= attribution[f].committed
                 PROVE  FALSE
    BY DEF LimitExceededOnlyByOverlap
  <2>2. Standing = Counted
    BY <2>1 DEF Standing
  <2>3. ASSUME NEW f \in Counted, NEW g \in Counted, f # g PROVE Apart(f, g)
    <3>1. /\ attribution[f].at \in Int /\ attribution[g].at \in Int
          /\ attribution[f].committed \in Int /\ attribution[g].committed \in Int
      BY <2>1, StandingFinite, AttributionTyped
    <3> QED BY <2>1, <2>3, <3>1 DEF Apart
  <2>4. Counted \in SUBSET Standing
    BY <2>2
  <2>5. Cardinality(Counted) <= RewardLimit
    BY <2>1, <2>3, <2>4 DEF Limits
  <2> QED BY <2>1, <2>5, CountedNat, ReceiptsAssumption
<1> QED BY <1>1, BooksAlways, LimitsAlways, PTL

-----------------------------------------------------------------------------
(* The points of a sale. *)

Sources == {"receipt", "refund", "referral", "referral_reversal"}

(***************************************************************************)
(* The rows of one operation and of these handlers that name one of these  *)
(* sales, and the points the rows in a set moved in a ledger and in all.   *)
(***************************************************************************)
Entries(op, srcs, ids) == {r \in RowType : r.op = op /\ r.src \in srcs /\ r.ref \in ids}

Picked(l, M) == {i \in 1..Len(l) : l[i] \in M}

Marked(l, M) == Total([i \in Picked(l, M) |-> l[i].amount])

Weight(accounts, M) == Total([c \in Customers |-> Marked(accounts[c].ledger, M)])

Ledgers(accounts) == \A c \in Customers : accounts[c].ledger \in Seq(RowType)

(***************************************************************************)
(* The points of the picked rows as a plain sum.                           *)
(***************************************************************************)
LEMMA MarkedSum ==
  ASSUME NEW l \in Seq(RowType), NEW M, NEW g, g = [i \in 1..Len(l) |-> l[i].amount]
  PROVE  /\ IsFiniteSet(Picked(l, M)) /\ Picked(l, M) \subseteq 1..Len(l)
         /\ \A i \in 1..Len(l) : g[i] \in Nat
         /\ Marked(l, M) = SumOver(g, Picked(l, M)) /\ Marked(l, M) \in Nat
<1>1. PICK n \in Nat : n = Len(l)
  OBVIOUS
<1>2. PICK S \in SUBSET (1..n) : S = Picked(l, M)
  BY <1>1 DEF Picked
<1>3. IsFiniteSet(S)
  <2>1. IsFiniteSet(1..n)
    BY FS_Interval
  <2> QED BY <2>1, FS_Subset
<1>4. \A i \in 1..n : g[i] = l[i].amount /\ g[i] \in Nat
  <2>1. \A i \in 1..n : l[i] \in RowType
    BY <1>1
  <2> QED BY <1>1, <2>1 DEF RowType
<1>5. PICK f : f = [i \in S |-> l[i].amount]
  OBVIOUS
<1>6. DOMAIN f = S /\ \A i \in S : f[i] = g[i]
  BY <1>4, <1>5
<1>7. SumOver(f, S) = SumOver(g, S) /\ SumOver(g, S) \in Nat
  <2>1. SumOver(f, S) = SumOver(g, S)
    BY <1>3, <1>6, SumSame
  <2>2. SumOver(g, S) \in Nat
    BY <1>3, <1>4, SumNat
  <2> QED BY <2>1, <2>2
<1>8. Marked(l, M) = SumOver(f, S)
  BY <1>2, <1>5, <1>6 DEF Marked, Total
<1> QED BY <1>1, <1>2, <1>3, <1>4, <1>7, <1>8

(***************************************************************************)
(* m is the ledger l with rows behind it.                                  *)
(***************************************************************************)
Longer(l, m) ==
  /\ l \in Seq(RowType) /\ m \in Seq(RowType)
  /\ Len(l) <= Len(m)
  /\ \A i \in 1..Len(l) : m[i] = l[i]

(***************************************************************************)
(* Rows that are not picked move nothing.                                  *)
(***************************************************************************)
LEMMA MarkedSame ==
  ASSUME NEW l, NEW m, Longer(l, m), NEW M, NEW N,
         \A i \in 1..Len(l) : l[i] \in M <=> l[i] \in N,
         \A i \in 1..Len(m) : i > Len(l) => m[i] \notin N
  PROVE  Marked(m, N) = Marked(l, M)
<1>1. PICK n \in Nat, k \in Nat : n = Len(l) /\ k = Len(m)
  BY DEF Longer
<1>2. l \in Seq(RowType) /\ m \in Seq(RowType) /\ n <= k /\ \A i \in 1..n : m[i] = l[i]
  BY <1>1 DEF Longer
<1>3. PICK g, h : g = [i \in 1..Len(l) |-> l[i].amount] /\ h = [i \in 1..Len(m) |-> m[i].amount]
  OBVIOUS
<1>4. Picked(m, N) = Picked(l, M)
  <2>1. \A i \in 1..k : i \notin 1..n => m[i] \notin N
    BY <1>1
  <2>2. \A i \in 1..n : i \in 1..k
    BY <1>2
  <2> QED BY <1>1, <1>2, <2>1, <2>2 DEF Picked
<1>5. /\ IsFiniteSet(Picked(l, M)) /\ Picked(l, M) \subseteq 1..n
      /\ Marked(l, M) = SumOver(g, Picked(l, M))
  BY <1>1, <1>2, <1>3, MarkedSum
<1>6. Marked(m, N) = SumOver(h, Picked(l, M))
  BY <1>2, <1>3, <1>4, MarkedSum
<1>7. \A i \in Picked(l, M) : g[i] = h[i]
  <2>1. \A i \in 1..n : i \in 1..k
    BY <1>2
  <2> QED BY <1>1, <1>2, <1>3, <1>5, <2>1
<1>8. PICK S : S = Picked(l, M)
  OBVIOUS
<1>9. SumOver(g, S) = SumOver(h, S)
  BY <1>5, <1>7, <1>8, SumSame
<1> QED BY <1>5, <1>6, <1>8, <1>9

(***************************************************************************)
(* One more picked row adds its amount.                                    *)
(***************************************************************************)
LEMMA MarkedAdds ==
  ASSUME NEW l, NEW m, Longer(l, m), NEW M, NEW N,
         \A i \in 1..Len(l) : l[i] \in M <=> l[i] \in N,
         NEW x \in 1..Len(m), x > Len(l), m[x] \in N,
         \A i \in 1..Len(m) : i > Len(l) /\ m[i] \in N => i = x
  PROVE  Marked(m, N) = Marked(l, M) + m[x].amount /\ m[x].amount \in Nat
<1>1. PICK n \in Nat, k \in Nat : n = Len(l) /\ k = Len(m)
  BY DEF Longer
<1>2. l \in Seq(RowType) /\ m \in Seq(RowType) /\ n <= k /\ \A i \in 1..n : m[i] = l[i]
  BY <1>1 DEF Longer
<1>3. PICK g, h : g = [i \in 1..Len(l) |-> l[i].amount] /\ h = [i \in 1..Len(m) |-> m[i].amount]
  OBVIOUS
<1>4. PICK S : S = Picked(l, M)
  OBVIOUS
<1>5. Picked(m, N) = S \cup {x} /\ x \notin S
  <2>1. \A i \in 1..k : i \in 1..n \/ i > n
    BY <1>1
  <2>2. \A i \in 1..n : i \in 1..k /\ ~(i > n)
    BY <1>2
  <2> QED BY <1>1, <1>2, <1>4, <2>1, <2>2 DEF Picked
<1>6. /\ IsFiniteSet(S) /\ S \subseteq 1..n
      /\ Marked(l, M) = SumOver(g, S) /\ Marked(l, M) \in Nat
  BY <1>1, <1>2, <1>3, <1>4, MarkedSum
<1>7. Marked(m, N) = SumOver(h, S \cup {x}) /\ \A i \in 1..k : h[i] \in Nat
  <2>1. Marked(m, N) = SumOver(h, Picked(m, N)) /\ \A i \in 1..Len(m) : h[i] \in Nat
    BY <1>2, <1>3, MarkedSum
  <2> QED BY <1>1, <1>5, <2>1
<1>8. \A i \in S : g[i] = h[i] /\ h[i] \in Nat
  <2>1. \A i \in 1..n : i \in 1..k
    BY <1>2
  <2> QED BY <1>1, <1>2, <1>3, <1>6, <1>7, <2>1
<1>9. SumOver(g, S) = SumOver(h, S)
  BY <1>6, <1>8, SumSame
<1>10. h[x] = m[x].amount /\ h[x] \in Nat
  BY <1>1, <1>3, <1>7
<1>11. SumOver(h, S \cup {x}) = h[x] + SumOver(h, S)
  BY <1>5, <1>6, <1>8, <1>10, OneMoreNet
<1> QED BY <1>6, <1>7, <1>9, <1>10, <1>11

(***************************************************************************)
(* A longer ledger and a wider choice of rows move no less.                *)
(***************************************************************************)
LEMMA MarkedMore ==
  ASSUME NEW l, NEW m, Longer(l, m), NEW M, NEW N,
         \A i \in 1..Len(l) : l[i] \in M => l[i] \in N
  PROVE  Marked(l, M) <= Marked(m, N)
<1>1. PICK n \in Nat, k \in Nat : n = Len(l) /\ k = Len(m)
  BY DEF Longer
<1>2. l \in Seq(RowType) /\ m \in Seq(RowType) /\ n <= k /\ \A i \in 1..n : m[i] = l[i]
  BY <1>1 DEF Longer
<1>3. PICK g, h : g = [i \in 1..Len(l) |-> l[i].amount] /\ h = [i \in 1..Len(m) |-> m[i].amount]
  OBVIOUS
<1>4. PICK S, T : S = Picked(l, M) /\ T = Picked(m, N)
  OBVIOUS
<1>5. S \subseteq T
  <2>1. \A i \in 1..n : i \in 1..k
    BY <1>2
  <2> QED BY <1>1, <1>2, <1>4, <2>1 DEF Picked
<1>6. IsFiniteSet(S) /\ S \subseteq 1..n /\ Marked(l, M) = SumOver(g, S)
  BY <1>1, <1>2, <1>3, <1>4, MarkedSum
<1>7. IsFiniteSet(T) /\ T \subseteq 1..k /\ Marked(m, N) = SumOver(h, T) /\ \A i \in 1..k : h[i] \in Nat
  BY <1>1, <1>2, <1>3, <1>4, MarkedSum
<1>8. SumOver(g, S) = SumOver(h, S)
  <2>1. \A i \in 1..n : i \in 1..k
    BY <1>2
  <2>2. \A i \in S : g[i] = h[i]
    BY <1>1, <1>2, <1>3, <1>6, <2>1
  <2> QED BY <1>6, <2>2, SumSame
<1>9. SumOver(h, S) <= SumOver(h, T)
  <2>1. (\A i \in T : h[i] \in Nat) /\ S \in SUBSET T
    BY <1>5, <1>7
  <2> QED BY <1>7, <2>1, PartOfSum
<1> QED BY <1>6, <1>7, <1>8, <1>9

(***************************************************************************)
(* The customers are finitely many, and their points add up to a number.   *)
(***************************************************************************)
LEMMA WeightSum ==
  ASSUME NEW accounts, Ledgers(accounts), NEW M,
         NEW f, f = [c \in Customers |-> Marked(accounts[c].ledger, M)]
  PROVE  /\ IsFiniteSet(Customers)
         /\ \A c \in Customers : f[c] \in Nat
         /\ Weight(accounts, M) = SumOver(f, Customers) /\ Weight(accounts, M) \in Nat
<1>1. IsFiniteSet(Customers)
  BY ReceiptsAssumption, FS_AddElement DEF Customers
<1>2. ASSUME NEW c \in Customers PROVE f[c] \in Nat
  <2>1. PICK l \in Seq(RowType) : l = accounts[c].ledger
    BY DEF Ledgers
  <2>2. PICK g : g = [i \in 1..Len(l) |-> l[i].amount]
    OBVIOUS
  <2>3. Marked(l, M) \in Nat
    BY <2>2, MarkedSum
  <2> QED BY <2>1, <2>3
<1>3. DOMAIN f = Customers
  OBVIOUS
<1>4. SumOver(f, Customers) \in Nat
  BY <1>1, <1>2, SumNat
<1> QED BY <1>1, <1>2, <1>3, <1>4 DEF Weight, Total

(***************************************************************************)
(* The same three facts for all the accounts together.                     *)
(***************************************************************************)
LEMMA WeightSame ==
  ASSUME NEW before, NEW after, NEW M, NEW N,
         \A c \in Customers : Marked(after[c].ledger, N) = Marked(before[c].ledger, M)
  PROVE  Weight(after, N) = Weight(before, M)
BY DEF Weight

LEMMA WeightAdds ==
  ASSUME NEW before, NEW after, Ledgers(before), Ledgers(after), NEW M, NEW N, NEW n \in Nat,
         NEW d \in Customers,
         Marked(after[d].ledger, N) = Marked(before[d].ledger, M) + n,
         \A c \in Customers : c # d => Marked(after[c].ledger, N) = Marked(before[c].ledger, M)
  PROVE  Weight(after, N) = Weight(before, M) + n
<1>1. PICK f, g : /\ f = [c \in Customers |-> Marked(before[c].ledger, M)]
                  /\ g = [c \in Customers |-> Marked(after[c].ledger, N)]
  OBVIOUS
<1>2. /\ IsFiniteSet(Customers) /\ \A c \in Customers : f[c] \in Nat
      /\ Weight(before, M) = SumOver(f, Customers)
  BY ZenonT(30), <1>1, WeightSum
<1>3. (\A c \in Customers : g[c] \in Nat) /\ Weight(after, N) = SumOver(g, Customers)
  BY ZenonT(30), <1>1, WeightSum
<1>4. PICK T : T = Customers \ {d}
  OBVIOUS
<1>5. SumOver(f, Customers) = f[d] + SumOver(f, T) /\ SumOver(f, T) \in Int
  <2>1. \A c \in Customers : f[c] \in Int
    BY <1>2
  <2> QED BY <1>2, <1>4, <2>1, SumTake
<1>6. SumOver(g, Customers) = g[d] + SumOver(g, T)
  <2>1. \A c \in Customers : g[c] \in Int
    BY <1>3
  <2> QED BY <1>2, <1>4, <2>1, SumTake
<1>7. SumOver(f, T) = SumOver(g, T)
  <2>1. IsFiniteSet(T) /\ \A c \in T : f[c] = g[c]
    BY <1>1, <1>2, <1>4, FS_Difference
  <2> QED BY <2>1, SumSame
<1>8. g[d] = f[d] + n /\ f[d] \in Nat
  BY <1>1, <1>2
<1> QED BY <1>2, <1>3, <1>5, <1>6, <1>7, <1>8

LEMMA WeightMore ==
  ASSUME NEW before, NEW after, Ledgers(before), Ledgers(after), NEW M, NEW N,
         \A c \in Customers : Marked(before[c].ledger, M) <= Marked(after[c].ledger, N)
  PROVE  Weight(before, M) <= Weight(after, N)
<1>1. PICK f, g : /\ f = [c \in Customers |-> Marked(before[c].ledger, M)]
                  /\ g = [c \in Customers |-> Marked(after[c].ledger, N)]
  OBVIOUS
<1>2. /\ IsFiniteSet(Customers) /\ \A c \in Customers : f[c] \in Nat
      /\ Weight(before, M) = SumOver(f, Customers)
  BY <1>1, WeightSum
<1>3. (\A c \in Customers : g[c] \in Nat) /\ Weight(after, N) = SumOver(g, Customers)
  BY <1>1, WeightSum
<1>4. \A c \in Customers : f[c] <= g[c]
  BY <1>1
<1>5. SumOver(f, Customers) <= SumOver(g, Customers)
  <2>1. (\A c \in Customers : f[c] \in Int) /\ \A c \in Customers : g[c] \in Int
    BY <1>2, <1>3
  <2> QED BY <1>2, <1>4, <2>1, SumMonotone
<1> QED BY <1>2, <1>3, <1>5

(***************************************************************************)
(* Where only one customer has picked rows, the sum is its.                *)
(***************************************************************************)
LEMMA WeightOfOne ==
  ASSUME NEW accounts, Ledgers(accounts), NEW M, NEW d \in Customers,
         \A c \in Customers : c # d => Marked(accounts[c].ledger, M) = 0
  PROVE  Weight(accounts, M) = Marked(accounts[d].ledger, M)
<1>1. PICK f : f = [c \in Customers |-> Marked(accounts[c].ledger, M)]
  OBVIOUS
<1>2. /\ IsFiniteSet(Customers) /\ \A c \in Customers : f[c] \in Nat
      /\ Weight(accounts, M) = SumOver(f, Customers)
  BY <1>1, WeightSum
<1>3. {d} \in SUBSET Customers /\ (\A c \in {d} : f[c] \in Int)
      /\ \A c \in Customers : c \notin {d} => f[c] = 0
  BY <1>1, <1>2
<1>4. PICK D : D = {d}
  OBVIOUS
<1>5. SumOver(f, Customers) = SumOver(f, D)
  BY <1>2, <1>3, <1>4, SumSupport
<1>6. SumOver(f, D) = f[d]
  <2>1. IsFiniteSet(D) /\ d \in D /\ {} = D \ {d} /\ \A c \in D : f[c] \in Int
    BY <1>3, <1>4, FS_Singleton
  <2>2. SumOver(f, D) = f[d] + SumOver(f, {})
    BY <2>1, SumTake
  <2>3. SumOver(f, {}) = 0 /\ f[d] \in Nat
    BY <1>2, SumEmpty
  <2> QED BY <2>2, <2>3
<1> QED BY <1>1, <1>2, <1>5, <1>6

(***************************************************************************)
(* The sums of the model are weights.                                      *)
(***************************************************************************)
LEMMA LedgerSumIsWeight ==
  ASSUME Ledgers(account), NEW op, NEW ids
  PROVE  LedgerSum(op, ids) = Weight(account, Entries(op, Sources, ids))
<1>1. ASSUME NEW c \in Customers, NEW l, l = account[c].ledger
      PROVE  Total([i \in {j \in 1..Len(l) : l[j].op = op /\ l[j].ref \in ids} |-> l[i].amount])
               = Marked(l, Entries(op, Sources, ids))
  <2>1. \A j \in 1..Len(l) : l[j] \in RowType
    BY <1>1 DEF Ledgers
  <2>2. \A j \in 1..Len(l) : l[j].src \in Sources
    BY <2>1 DEF RowType, Sources
  <2>3. {j \in 1..Len(l) : l[j].op = op /\ l[j].ref \in ids} = Picked(l, Entries(op, Sources, ids))
    BY <2>1, <2>2 DEF Picked, Entries
  <2> QED BY <2>3 DEF Marked
<1> QED BY <1>1 DEF Weight, LedgerSum

LEMMA MovedIsWeight ==
  ASSUME Ledgers(account), NEW op, NEW src, NEW ids
  PROVE  Moved(op, src, ids) = Weight(account, Entries(op, {src}, ids))
<1>1. ASSUME NEW c \in Customers, NEW l, l = account[c].ledger
      PROVE  Total([i \in {j \in 1..Len(l) : l[j].op = op /\ l[j].src = src /\ l[j].ref \in ids} |->
                      l[i].amount]) = Marked(l, Entries(op, {src}, ids))
  <2>1. \A j \in 1..Len(l) : l[j] \in RowType
    BY <1>1 DEF Ledgers
  <2>2. {j \in 1..Len(l) : l[j].op = op /\ l[j].src = src /\ l[j].ref \in ids}
          = Picked(l, Entries(op, {src}, ids))
    BY <2>1 DEF Picked, Entries
  <2> QED BY <2>2 DEF Marked
<1> QED BY <1>1 DEF Weight, Moved

-----------------------------------------------------------------------------
(* What is still redeemed for a sale. *)

(***************************************************************************)
(* The part of what an account spent on a sale that was not given back.    *)
(***************************************************************************)
OutstandingRows(a, id) == {p \in DOMAIN a.redemptions : a.ledger[p[2]].ref = id}

Outstanding(a, id) == SumOver(a.redemptions, OutstandingRows(a, id))

(***************************************************************************)
(* b's ledger is a's and this row.                                         *)
(***************************************************************************)
Wrote(a, b, op, amount, row) ==
  \E r \in RowType :
    /\ b.ledger = Append(a.ledger, r)
    /\ r.op = op /\ r.amount = amount
    /\ r.src = row.src /\ r.ref = row.ref /\ r.by = row.by /\ r.at = row.at

(***************************************************************************)
(* What the proofs below use of an account, unfolded once.                 *)
(***************************************************************************)
LEMMA AccountFacts ==
  ASSUME NEW a, AccountOK(a)
  PROVE  /\ a.points \in Nat /\ a.ledger \in Seq(RowType) /\ Len(a.ledger) \in Nat
         /\ IsFiniteSet(DOMAIN a.redemptions) /\ IsFiniteSet(DOMAIN a.lots)
         /\ \A Q \in SUBSET (DOMAIN a.redemptions) : IsFiniteSet(Q)
         /\ \A p \in DOMAIN a.redemptions : p[2] \in 1..Len(a.ledger) /\ a.redemptions[p] \in Nat
         /\ Linked(a) /\ Kept(a) /\ IsAccount(a, RowType, Time)
         /\ \A id : Outstanding(a, id) \in Nat
<1>1. IsAccount(a, RowType, Time) /\ Kept(a) /\ Linked(a)
  BY DEF AccountOK, Kept
<1>2. a.points \in Nat /\ a.ledger \in Seq(RowType) /\ Len(a.ledger) \in Nat
  BY <1>1 DEF IsAccount
<1>3. IsFiniteSet(DOMAIN a.lots) /\ \A Q \in SUBSET (DOMAIN a.redemptions) : IsFiniteSet(Q)
  BY <1>1, TimeFinite, RedemptionsFinite
<1>4. \A p \in DOMAIN a.redemptions : p[2] \in 1..Len(a.ledger) /\ a.redemptions[p] \in Nat
  BY <1>1 DEF Linked
<1>5. ASSUME NEW id PROVE Outstanding(a, id) \in Nat
  <2>1. PICK Q \in SUBSET (DOMAIN a.redemptions) : Q = OutstandingRows(a, id)
    BY DEF OutstandingRows
  <2>2. IsFiniteSet(Q) /\ \A p \in Q : a.redemptions[p] \in Nat
    BY <1>3, <1>4
  <2>3. SumOver(a.redemptions, Q) \in Nat
    BY <2>2, SumNat
  <2> QED BY <2>1, <2>3 DEF Outstanding
<1> QED BY <1>1, <1>2, <1>3, <1>4, <1>5

(***************************************************************************)
(* A row without redemptions leaves what is outstanding.                   *)
(***************************************************************************)
LEMMA OutstandingSame ==
  ASSUME NEW a, AccountOK(a), NEW b, NEW r \in RowType, b.ledger = Append(a.ledger, r),
         b.redemptions = a.redemptions, NEW id
  PROVE  Outstanding(b, id) = Outstanding(a, id)
<1>1. PICK n \in Nat : n = Len(a.ledger)
  BY AccountFacts
<1>2. a.ledger \in Seq(RowType) /\ \A p \in DOMAIN a.redemptions : p[2] \in 1..n
  BY <1>1, AccountFacts
<1>3. \A i \in 1..n : b.ledger[i] = a.ledger[i]
  BY <1>1, <1>2, AppendFacts
<1>4. OutstandingRows(b, id) = OutstandingRows(a, id)
  BY <1>2, <1>3 DEF OutstandingRows
<1> QED BY <1>4 DEF Outstanding

(***************************************************************************)
(* The redemptions a debit adds are under its row and make its amount.     *)
(***************************************************************************)
LEMMA DebitRedeems ==
  ASSUME NEW a, AccountOK(a), NEW amount \in Nat \ {0}, NEW row,
         LotsSuffice(a.lots, row.at, amount), NEW b, b = Debit(a, amount, row)
  PROVE  \E T : /\ IsFiniteSet(T) /\ SumOver(b.redemptions, T) = amount
                /\ DOMAIN b.redemptions = DOMAIN a.redemptions \cup T
                /\ \A p \in T : p[2] = Len(a.ledger) + 1 /\ b.redemptions[p] \in Nat
                /\ \A p \in DOMAIN a.redemptions : b.redemptions[p] = a.redemptions[p]
<1>1. PICK n \in Nat : n = Len(a.ledger)
  BY AccountFacts
<1>2. PICK R, V : R = a.redemptions /\ V = b.redemptions
  OBVIOUS
<1>3. PICK used : used \in FifoSplits(a.lots, row.at, amount) /\ V = Redeem(R, used, n + 1)
  BY <1>1, <1>2 DEF Debit, LotsSuffice
<1>4. PICK L, lots, now : L = DOMAIN a.lots /\ lots = a.lots /\ now = row.at
  OBVIOUS
<1>5. PICK z : z = [t \in L |-> IF t \in DOMAIN used THEN used[t] ELSE 0]
  OBVIOUS
<1>6. /\ \A t \in DOMAIN used : t \in L /\ used[t] \in Nat
      /\ SumOver(used, {t \in DOMAIN used : used[t] > 0}) = amount
  <2>1. L = DOMAIN lots /\ IsFiniteSet(L) /\ used \in FifoSplits(lots, now, amount)
    BY <1>3, <1>4, AccountFacts
  <2> QED BY <1>5, <2>1, SplitFacts
<1>7. PICK U \in SUBSET L : U = {t \in DOMAIN used : used[t] > 0}
  BY <1>6
<1>8. IsFiniteSet(U)
  <2>1. IsFiniteSet(L)
    BY <1>4, AccountFacts
  <2> QED BY <2>1, FS_Subset
<1>9. PICK h : h = [t \in L |-> <<t, n + 1>>]
  OBVIOUS
<1>10. PICK T : T = {h[t] : t \in U}
  OBVIOUS
<1>11. T = {<<t, n + 1>> : t \in {u \in DOMAIN used : used[u] > 0}}
  BY <1>7, <1>9, <1>10
<1>12. V = [p \in DOMAIN R \cup T |-> IF p \in T THEN used[p[1]] ELSE R[p]]
  BY <1>3, <1>11 DEF Redeem
<1>13. \A p \in T : p[2] = n + 1 /\ p[1] \in U
  BY <1>7, <1>9, <1>10
<1>14. \A p \in DOMAIN R : p \notin T
  <2>1. \A p \in DOMAIN R : p[2] \in 1..n
    BY <1>1, <1>2, AccountFacts
  <2> QED BY <1>13, <2>1
<1>15. DOMAIN V = DOMAIN R \cup T /\ \A p \in DOMAIN R : V[p] = R[p]
  BY <1>12, <1>14
<1>16. \A t \in U : V[h[t]] = used[t] /\ used[t] \in Nat /\ used[t] \in Int
  <2>1. \A t \in U : h[t] \in T /\ h[t][1] = t
    BY <1>9, <1>10
  <2> QED BY <1>6, <1>7, <1>12, <2>1
<1>17. SumOver(V, T) = amount
  <2>1. \A x, y \in U : h[x] = h[y] => x = y
    BY <1>9
  <2>2. SumOver(V, {h[t] : t \in U}) = SumOver(used, U)
    BY <1>8, <1>16, <2>1, SumReindexed
  <2> QED BY <1>6, <1>7, <1>10, <2>2
<1>18. IsFiniteSet(T) /\ \A p \in T : V[p] \in Nat
  <2>1. PICK e : e = [t \in U |-> h[t]]
    OBVIOUS
  <2>2. e \in Surjection(U, T)
    BY <1>10, <2>1 DEF Surjection
  <2>3. IsFiniteSet(T)
    BY <1>8, <2>2, FS_Surjection
  <2> QED BY <1>10, <1>16, <2>3
<1> QED BY <1>1, <1>2, <1>13, <1>15, <1>17, <1>18

(***************************************************************************)
(* A credit: its row, its lot, and nothing redeemed.                       *)
(***************************************************************************)
LEMMA CreditWrites ==
  ASSUME NEW a, AccountOK(a), NEW amount \in Nat \ {0}, NEW row, RowFields(row),
         NEW b, b = Credit(a, amount, row)
  PROVE  /\ Wrote(a, b, "credit", amount, row)
         /\ DOMAIN b.lots = DOMAIN a.lots \cup {row.at}
         /\ \A id : Outstanding(b, id) = Outstanding(a, id)
<1>1. PICK r : r = LedgerRow("credit", amount, a.points + amount, row)
  OBVIOUS
<1>2. r.op = "credit" /\ r.amount = amount /\ r.src = row.src /\ r.ref = row.ref
      /\ r.by = row.by /\ r.at = row.at
  BY <1>1 DEF LedgerRow
<1>3. r \in RowType
  <2>1. PICK after \in Nat : after = a.points + amount
    BY AccountFacts
  <2> QED BY <1>1, <2>1, RowTyped
<1>4. b.ledger = Append(a.ledger, r) /\ b.redemptions = a.redemptions
      /\ b.lots = IssueBonusLot(a.lots, row.at, amount)
  BY <1>1 DEF Credit
<1>5. \A id : Outstanding(b, id) = Outstanding(a, id)
  BY <1>3, <1>4, OutstandingSame
<1>6. Wrote(a, b, "credit", amount, row)
  BY <1>2, <1>3, <1>4 DEF Wrote
<1> QED BY <1>4, <1>5, <1>6 DEF IssueBonusLot

(***************************************************************************)
(* A debit: its row, and its amount redeemed for the sale it names.        *)
(***************************************************************************)
LEMMA DebitWrites ==
  ASSUME NEW a, AccountOK(a), NEW amount \in Nat \ {0}, NEW row, RowFields(row),
         amount <= a.points, LotsSuffice(a.lots, row.at, amount), NEW b, b = Debit(a, amount, row)
  PROVE  /\ Wrote(a, b, "debit", amount, row)
         /\ DOMAIN b.lots = DOMAIN a.lots
         /\ \A id : Outstanding(b, id) = Outstanding(a, id) + (IF row.ref = id THEN amount ELSE 0)
<1>1. PICK r : r = LedgerRow("debit", amount, a.points - amount, row)
  OBVIOUS
<1>2. r.op = "debit" /\ r.amount = amount /\ r.src = row.src /\ r.ref = row.ref
      /\ r.by = row.by /\ r.at = row.at
  BY <1>1 DEF LedgerRow
<1>3. r \in RowType
  <2>1. PICK after \in Nat : after = a.points - amount
    BY AccountFacts
  <2> QED BY <1>1, <2>1, RowTyped
<1>4. b.ledger = Append(a.ledger, r) /\ DOMAIN b.lots = DOMAIN a.lots
  BY <1>1 DEF Debit, Consume
<1>5. PICK n \in Nat : n = Len(a.ledger)
  BY AccountFacts
<1>6. b.ledger[n + 1] = r /\ \A i \in 1..n : b.ledger[i] = a.ledger[i]
  <2>1. a.ledger \in Seq(RowType)
    BY AccountFacts
  <2> QED BY <1>3, <1>4, <1>5, <2>1, AppendFacts
<1>7. PICK R, V : R = a.redemptions /\ V = b.redemptions
  OBVIOUS
<1>8. PICK T : /\ IsFiniteSet(T) /\ SumOver(V, T) = amount
               /\ DOMAIN V = DOMAIN R \cup T
               /\ \A p \in T : p[2] = n + 1 /\ V[p] \in Nat
               /\ \A p \in DOMAIN R : V[p] = R[p]
  BY <1>5, <1>7, DebitRedeems
<1>9. \A p \in DOMAIN R : p[2] \in 1..n /\ R[p] \in Nat
  BY <1>5, <1>7, AccountFacts
<1>10. ASSUME NEW id
       PROVE  Outstanding(b, id) = Outstanding(a, id) + (IF row.ref = id THEN amount ELSE 0)
  <2>1. PICK Q \in SUBSET (DOMAIN R) : Q = OutstandingRows(a, id)
    BY <1>7 DEF OutstandingRows
  <2>2. IsFiniteSet(Q) /\ SumOver(V, Q) = SumOver(R, Q)
    <3>1. IsFiniteSet(Q)
      BY <1>7, AccountFacts
    <3>2. \A p \in Q : V[p] = R[p]
      BY <1>8
    <3> QED BY <3>1, <3>2, SumSame
  <2>3. Outstanding(a, id) = SumOver(R, Q) /\ SumOver(R, Q) \in Nat
    <3>1. Outstanding(a, id) = SumOver(R, Q)
      BY <1>7, <2>1 DEF Outstanding
    <3> QED BY <3>1, AccountFacts
  <2>4. PICK P : P = OutstandingRows(b, id)
    OBVIOUS
  <2>5. \A p \in DOMAIN R : p \in P <=> p \in Q
    BY <1>6, <1>7, <1>8, <1>9, <2>1, <2>4 DEF OutstandingRows
  <2>6. P \subseteq DOMAIN R \cup T
    BY <1>7, <1>8, <2>4 DEF OutstandingRows
  <2>7. \A p \in T : p \notin DOMAIN R /\ (p \in P <=> row.ref = id)
    <3>1. \A p \in T : p \notin DOMAIN R
      BY <1>8, <1>9
    <3>2. \A p \in T : p \in P <=> row.ref = id
      BY <1>2, <1>6, <1>7, <1>8, <2>4 DEF OutstandingRows
    <3> QED BY <3>1, <3>2
  <2>8. Outstanding(b, id) = SumOver(V, P)
    BY <1>7, <2>4 DEF Outstanding
  <2>9. CASE row.ref # id
    <3>1. P = Q
      BY <2>1, <2>5, <2>6, <2>7, <2>9
    <3> QED BY <2>2, <2>3, <2>8, <2>9, <3>1
  <2>10. CASE row.ref = id
    <3>1. P \cap T = T /\ P \ T = Q
      BY <2>1, <2>5, <2>6, <2>7, <2>10
    <3>2. P = Q \cup T
      BY <3>1
    <3>3. IsFiniteSet(P) /\ \A p \in P : V[p] \in Int
      <4>1. IsFiniteSet(P)
        BY <1>8, <2>2, <3>2, FS_Union
      <4>2. \A p \in P : V[p] \in Int
        BY <1>8, <1>9, <2>1, <3>2
      <4> QED BY <4>1, <4>2
    <3>4. SumOver(V, P) = SumOver(V, P \cap T) + SumOver(V, P \ T)
      BY <3>3, SumSplits
    <3>5. SumOver(V, P) = amount + SumOver(V, Q)
      BY <1>8, <3>1, <3>4
    <3> QED BY <2>2, <2>3, <2>8, <2>10, <3>5
  <2> QED BY <2>9, <2>10
<1>11. Wrote(a, b, "debit", amount, row)
  BY <1>2, <1>3, <1>4 DEF Wrote
<1> QED BY <1>4, <1>10, <1>11

(***************************************************************************)
(* A restoration: its row, and as much as is outstanding of the sale given *)
(* back; it makes no lot if that is all it restores.                       *)
(***************************************************************************)
LEMMA RestoreWrites ==
  ASSUME NEW a, AccountOK(a), NEW amount \in Nat \ {0}, NEW sale,
         NEW back \in RestoreSplits(a, sale, amount), NEW row, RowFields(row),
         NEW b, b = Restore(a, amount, row, back)
  PROVE  /\ Wrote(a, b, "credit", amount, row)
         /\ amount <= Outstanding(a, sale) => DOMAIN b.lots = DOMAIN a.lots
         /\ \A id : Outstanding(b, id) =
              IF id = sale /\ amount <= Outstanding(a, sale) THEN Outstanding(a, id) - amount
              ELSE IF id = sale THEN 0
              ELSE Outstanding(a, id)
<1>1. PICK r : r = LedgerRow("credit", amount, a.points + amount, row)
  OBVIOUS
<1>2. r.op = "credit" /\ r.amount = amount /\ r.src = row.src /\ r.ref = row.ref
      /\ r.by = row.by /\ r.at = row.at
  BY <1>1 DEF LedgerRow
<1>3. r \in RowType
  <2>1. PICK after \in Nat : after = a.points + amount
    BY AccountFacts
  <2> QED BY <1>1, <2>1, RowTyped
<1>4. PICK D, R, V : D = DOMAIN a.redemptions /\ R = a.redemptions /\ V = b.redemptions
  OBVIOUS
<1>5. /\ b.ledger = Append(a.ledger, r)
      /\ V = [p \in D |-> IF p \in DOMAIN back THEN R[p] - back[p] ELSE R[p]]
  BY <1>1, <1>4 DEF Restore
<1>6. PICK n \in Nat : n = Len(a.ledger)
  BY AccountFacts
<1>7. (\A Q \in SUBSET D : IsFiniteSet(Q)) /\ \A p \in D : p[2] \in 1..n /\ R[p] \in Nat
  BY <1>4, <1>6, AccountFacts
<1>8. \A i \in 1..n : b.ledger[i] = a.ledger[i]
  <2>1. a.ledger \in Seq(RowType)
    BY AccountFacts
  <2> QED BY <1>3, <1>5, <1>6, <2>1, AppendFacts
<1>9. \A id : OutstandingRows(b, id) = OutstandingRows(a, id)
  BY <1>4, <1>5, <1>7, <1>8 DEF OutstandingRows
<1>10. PICK Q \in SUBSET D : Q = OutstandingRows(a, sale)
  BY <1>4 DEF OutstandingRows
<1>11. PICK S \in SUBSET Q : S = Redeemed(a, sale)
  BY <1>4, <1>10 DEF Redeemed, OutstandingRows
<1>12. PICK o \in Nat : o = Outstanding(a, sale)
  BY AccountFacts
<1>13. SumOver(R, S) = o
  <2>1. IsFiniteSet(Q) /\ (\A p \in S : R[p] \in Int)
    BY <1>7
  <2>2. \A p \in Q : p \notin S => R[p] = 0
    <3>1. \A p \in Q : p \notin S => ~(R[p] > 0)
      BY <1>4, <1>10, <1>11 DEF Redeemed, OutstandingRows
    <3> QED BY <1>7, <3>1
  <2>3. SumOver(R, Q) = SumOver(R, S)
    BY <2>1, <2>2, SumSupport
  <2> QED BY <1>4, <1>10, <1>12, <2>3 DEF Outstanding
<1>14. /\ DOMAIN back = S
       /\ \A p \in S : back[p] \in Nat /\ back[p] <= R[p]
       /\ Total(back) = Min({amount, o})
  <2>1. /\ back \in [S -> 0..amount]
        /\ \A p \in S : back[p] <= R[p]
        /\ Total(back) = Min({amount, SumOver(R, S)})
    BY <1>4, <1>11 DEF RestoreSplits
  <2> QED BY <1>13, <2>1
<1>15. PICK g \in Nat : g = Total(back)
  BY <1>12, <1>14, MinOfTwo
<1>16. g = IF amount <= o THEN amount ELSE o
  BY <1>12, <1>14, <1>15, MinOfTwo
<1>17. Outstanding(b, sale) = o - g
  <2>1. PICK z : z = [p \in D |-> IF p \in S THEN back[p] ELSE 0]
    OBVIOUS
  <2>2. \A p \in Q : z[p] \in Int /\ V[p] \in Int /\ R[p] = V[p] + z[p]
    <3>1. ASSUME NEW p \in Q PROVE z[p] \in Int /\ V[p] \in Int /\ R[p] = V[p] + z[p]
      <4>1. R[p] \in Nat /\ p \in D
        BY <1>7, <3>1
      <4>2. CASE p \in S
        <5>1. z[p] = back[p] /\ V[p] = R[p] - back[p] /\ back[p] \in Nat
          BY <1>5, <1>14, <2>1, <4>1, <4>2
        <5> QED BY <4>1, <5>1
      <4>3. CASE p \notin S
        <5>1. z[p] = 0 /\ V[p] = R[p]
          BY <1>5, <1>14, <2>1, <4>1, <4>3
        <5> QED BY <4>1, <5>1
      <4> QED BY <4>2, <4>3
    <3> QED BY <3>1
  <2>3. IsFiniteSet(Q) /\ IsFiniteSet(S)
    BY <1>7
  <2>4. SumOver(R, Q) = SumOver(V, Q) + SumOver(z, Q)
    BY <2>2, <2>3, SumAdded
  <2>5. SumOver(z, Q) = SumOver(z, S)
    <3>1. (\A p \in S : z[p] \in Int) /\ \A p \in Q : p \notin S => z[p] = 0
      BY <2>1, <2>2
    <3> QED BY <2>3, <3>1, SumSupport
  <2>6. SumOver(z, S) = SumOver(back, S)
    <3>1. \A p \in S : z[p] = back[p]
      BY <2>1
    <3> QED BY <2>3, <3>1, SumSame
  <2>7. SumOver(z, Q) = g
    BY <1>14, <1>15, <2>5, <2>6 DEF Total
  <2>8. SumOver(R, Q) = o /\ Outstanding(b, sale) = SumOver(V, Q)
    BY <1>4, <1>9, <1>10, <1>12 DEF Outstanding
  <2>9. SumOver(V, Q) \in Int
    BY <2>2, <2>3, SumFacts
  <2> QED BY <2>4, <2>7, <2>8, <2>9
<1>18. ASSUME NEW id, id # sale PROVE Outstanding(b, id) = Outstanding(a, id)
  <2>1. PICK P \in SUBSET D : P = OutstandingRows(a, id)
    BY <1>4 DEF OutstandingRows
  <2>2. \A p \in P : p \notin S
    BY <1>10, <1>11, <1>18, <2>1 DEF OutstandingRows
  <2>3. \A p \in P : V[p] = R[p]
    BY <1>5, <1>14, <2>2
  <2>4. SumOver(V, P) = SumOver(R, P)
    BY <1>7, <2>3, SumSame
  <2> QED BY <1>4, <1>9, <2>1, <2>4 DEF Outstanding
<1>19. Wrote(a, b, "credit", amount, row)
  BY <1>2, <1>3, <1>5 DEF Wrote
<1>20. ASSUME amount <= o PROVE DOMAIN b.lots = DOMAIN a.lots
  <2>1. amount - Total(back) = 0
    BY <1>15, <1>16, <1>20
  <2>2. b.lots = ReturnToLots(a.lots, back)
    BY <2>1 DEF Restore
  <2> QED BY <2>2 DEF ReturnToLots
<1>21. \A id : Outstanding(b, id) =
              IF id = sale /\ amount <= o THEN o - amount
              ELSE IF id = sale THEN 0
              ELSE Outstanding(a, id)
  BY <1>16, <1>17, <1>18
<1> QED BY <1>12, <1>19, <1>20, <1>21

-----------------------------------------------------------------------------
(* The shares of a refund. *)

(***************************************************************************)
(* Multiplication by a positive number keeps and reflects the order.       *)
(***************************************************************************)
LEMMA TimesKeeps ==
  ASSUME NEW x \in Nat, NEW y \in Nat, x <= y, NEW n \in Nat
  PROVE  x * n <= y * n
<1>1. PICK d \in Nat : y = x + d
  <2>1. y - x \in Nat
    OBVIOUS
  <2> QED BY <2>1
<1>2. PICK p \in Nat, q \in Nat : p = x * n /\ q = d * n
  OBVIOUS
<1>3. y * n = p + q
  BY <1>1, <1>2
<1> QED BY <1>2, <1>3

LEMMA TimesReflects ==
  ASSUME NEW x \in Nat, NEW y \in Nat, NEW n \in Nat \ {0}, x * n <= y * n
  PROVE  x <= y
<1> SUFFICES ASSUME ~(x <= y) PROVE FALSE
  OBVIOUS
<1>1. PICK z \in Nat : z = y + 1
  OBVIOUS
<1>2. z <= x
  BY <1>1
<1>3. z * n <= x * n
  BY <1>2, TimesKeeps
<1>4. PICK p \in Nat : p = y * n
  OBVIOUS
<1>5. z * n = p + n
  BY <1>1, <1>4
<1>6. x * n \in Nat
  OBVIOUS
<1> QED BY <1>3, <1>4, <1>5, <1>6

(***************************************************************************)
(* No more of the points of a sale than the refunded part of its amount.   *)
(***************************************************************************)
WithinPart(given, points, refunded, net) == given * net <= points * refunded

(***************************************************************************)
(* What one more refund gives back, w, together with what the earlier ones *)
(* gave: no more than the points of the sale, all that is left if it is    *)
(* the last, and otherwise no more than the refunded part of the sale.     *)
(***************************************************************************)
ShareFits(points, done, given, refunded, amount, net, full, w) ==
  /\ given + w <= points
  /\ full => done + w >= points
  /\ ~full => WithinPart(given + w, points, refunded + amount, net)

(***************************************************************************)
(* Every share fits, however it is rounded.                                *)
(***************************************************************************)
LEMMA ShareBounds ==
  ASSUME NEW points \in Nat, NEW done \in Nat, NEW amount \in Nat, NEW net \in Nat \ {0},
         NEW full \in BOOLEAN, NEW w \in Share(points, done, amount, net, full),
         NEW given \in Nat, given <= done, NEW refunded \in Nat,
         WithinPart(given, points, refunded, net), refunded + amount <= net
  PROVE  w \in Nat /\ ShareFits(points, done, given, refunded, amount, net, full, w)
<1>0. given * net <= points * refunded
  BY DEF WithinPart
<1>1. w \in Nat
  BY ShareNat
<1>2. given <= points
  <2>1. PICK p \in Nat, q \in Nat, g \in Nat : p = points * refunded /\ q = points * net /\ g = given * net
    OBVIOUS
  <2>2. refunded * points <= net * points
    BY TimesKeeps
  <2>3. refunded * points = p /\ net * points = q
    BY <2>1
  <2>4. g <= q
    BY <1>0, <2>1, <2>2, <2>3
  <2>5. given * net <= points * net
    BY <2>1, <2>4
  <2> QED BY <2>5, TimesReflects
<1>3. CASE full
  <2>1. PICK d \in Int : d = points - done
    OBVIOUS
  <2>2. w = Max({0, d})
    BY <1>3, <2>1 DEF Share
  <2>3. w = IF d <= 0 THEN 0 ELSE d
    BY <2>1, <2>2, MaxOfTwo
  <2> QED BY <1>1, <1>2, <1>3, <2>1, <2>3 DEF ShareFits
<1>4. CASE ~full
  <2>1. PICK p \in Nat : p = points * amount
    OBVIOUS
  <2>2. PICK q \in Nat : q = p \div net
    OBVIOUS
  <2>3. w <= q
    <3>1. w \in IF p % net = 0 /\ q > 0 THEN {q - 1, q} ELSE {q}
      BY <1>4, <2>1, <2>2 DEF Share, ProRata
    <3> QED BY <3>1
  <2>4. q * net <= p
    BY <2>2
  <2>5. w * net <= q * net
    BY <1>1, <2>3, TimesKeeps
  <2>6. PICK t \in Nat, g \in Nat, v \in Nat, u \in Nat :
          t = points * refunded /\ g = given * net /\ v = w * net /\ u = q * net
    BY <1>1
  <2>7. (given + w) * net = g + v
    BY <1>1, <2>6
  <2>8. points * (refunded + amount) = t + p
    BY <2>1, <2>6
  <2>9. g + v <= t + p
    BY <1>0, <2>4, <2>5, <2>6
  <2>10. (given + w) * net <= points * (refunded + amount)
    BY <2>7, <2>8, <2>9
  <2>11. points * (refunded + amount) <= points * net
    <3>1. PICK s \in Nat : s = refunded + amount
      OBVIOUS
    <3>2. s * points <= net * points
      BY <3>1, TimesKeeps
    <3>3. s * points = points * s /\ net * points = points * net
      OBVIOUS
    <3> QED BY <3>1, <3>2, <3>3
  <2>12. given + w <= points
    <3>1. PICK s \in Nat : s = given + w
      BY <1>1
    <3>2. PICK m \in Nat, l \in Nat, k \in Nat : m = s * net /\ l = points * net /\ k = points * (refunded + amount)
      OBVIOUS
    <3>3. m <= l
      BY <2>10, <2>11, <3>1, <3>2
    <3>4. s <= points
      BY <3>2, <3>3, TimesReflects
    <3> QED BY <3>1, <3>4
  <2> QED BY <1>1, <1>4, <2>10, <2>12 DEF WithinPart, ShareFits
<1> QED BY <1>3, <1>4

-----------------------------------------------------------------------------
(* What the handlers write about a sale. *)

(***************************************************************************)
(* b's ledger is a's with rows of these sources behind it that name x.     *)
(***************************************************************************)
NamedRows(a, b, srcs, x) ==
  /\ Longer(a.ledger, b.ledger)
  /\ \A i \in 1..Len(b.ledger) : i > Len(a.ledger) => b.ledger[i].src \in srcs /\ b.ledger[i].ref = x

(***************************************************************************)
(* A lot that a receipt or the referral program credited.                  *)
(***************************************************************************)
LotCredited(a, t) ==
  \E i \in 1..Len(a.ledger) :
    LET r == a.ledger[i]
    IN  r.at = t /\ r.op = "credit" /\ r.src \in {"receipt", "referral"}

(***************************************************************************)
(* One row written is one row behind the ledger.                           *)
(***************************************************************************)
LEMMA WroteNamed ==
  ASSUME NEW a, a.ledger \in Seq(RowType), NEW b, NEW op, NEW amount, NEW row,
         Wrote(a, b, op, amount, row)
  PROVE  /\ b.ledger \in Seq(RowType) /\ Len(b.ledger) = Len(a.ledger) + 1
         /\ NamedRows(a, b, {row.src}, row.ref)
         /\ b.ledger[Len(a.ledger) + 1] \in RowType
         /\ b.ledger[Len(a.ledger) + 1].op = op /\ b.ledger[Len(a.ledger) + 1].amount = amount
         /\ b.ledger[Len(a.ledger) + 1].src = row.src /\ b.ledger[Len(a.ledger) + 1].ref = row.ref
         /\ b.ledger[Len(a.ledger) + 1].at = row.at
<1>1. PICK r \in RowType : /\ b.ledger = Append(a.ledger, r)
                           /\ r.op = op /\ r.amount = amount
                           /\ r.src = row.src /\ r.ref = row.ref /\ r.at = row.at
  BY DEF Wrote
<1>2. PICK n \in Nat : n = Len(a.ledger)
  OBVIOUS
<1>3. /\ Len(b.ledger) = n + 1 /\ b.ledger[n + 1] = r /\ \A i \in 1..n : b.ledger[i] = a.ledger[i]
      /\ b.ledger \in Seq(RowType)
  BY <1>1, <1>2, AppendFacts
<1>4. Longer(a.ledger, b.ledger)
  BY <1>2, <1>3 DEF Longer
<1>5. \A i \in 1..(n + 1) : i > n => i = n + 1
  BY <1>2
<1>6. NamedRows(a, b, {row.src}, row.ref)
  BY <1>1, <1>2, <1>3, <1>4, <1>5 DEF NamedRows
<1> QED BY <1>1, <1>2, <1>3, <1>6

(***************************************************************************)
(* Rows behind one another; and none.                                      *)
(***************************************************************************)
LEMMA NamedNone ==
  ASSUME NEW a, a.ledger \in Seq(RowType), NEW srcs, NEW x
  PROVE  NamedRows(a, a, srcs, x)
<1>1. PICK n \in Nat : n = Len(a.ledger)
  OBVIOUS
<1>2. \A i \in 1..n : ~(i > n)
  BY <1>1
<1> QED BY <1>1, <1>2 DEF NamedRows, Longer

LEMMA NamedTwice ==
  ASSUME NEW a, NEW m, NEW b, NEW srcs, NEW more, NEW all, NEW x,
         NamedRows(a, m, srcs, x), NamedRows(m, b, more, x), srcs \subseteq all, more \subseteq all
  PROVE  NamedRows(a, b, all, x)
<1>1. PICK n \in Nat, k \in Nat, h \in Nat :
        n = Len(a.ledger) /\ k = Len(m.ledger) /\ h = Len(b.ledger)
  BY DEF NamedRows, Longer
<1>2. /\ a.ledger \in Seq(RowType) /\ b.ledger \in Seq(RowType)
      /\ n <= k /\ k <= h
      /\ \A i \in 1..n : m.ledger[i] = a.ledger[i]
      /\ \A i \in 1..k : b.ledger[i] = m.ledger[i]
  BY <1>1 DEF NamedRows, Longer
<1>3. Longer(a.ledger, b.ledger)
  <2>1. \A i \in 1..n : i \in 1..k
    BY <1>2
  <2>2. n <= h
    BY <1>2
  <2> QED BY <1>1, <1>2, <2>1, <2>2 DEF Longer
<1>4. ASSUME NEW i \in 1..h, i > n PROVE b.ledger[i].src \in all /\ b.ledger[i].ref = x
  <2>1. CASE i \in 1..k
    <3>1. m.ledger[i].src \in srcs /\ m.ledger[i].ref = x
      BY <1>1, <1>4, <2>1 DEF NamedRows
    <3> QED BY <1>2, <2>1, <3>1
  <2>2. CASE i \notin 1..k
    <3>1. i > k
      BY <1>4, <2>2
    <3> QED BY <1>1, <3>1 DEF NamedRows
  <2> QED BY <2>1, <2>2
<1> QED BY <1>1, <1>3, <1>4 DEF NamedRows

(***************************************************************************)
(* Rows of other sources, or that name another sale, move nothing.         *)
(***************************************************************************)
LEMMA OthersStay ==
  ASSUME NEW a, NEW b, NEW srcs, NEW x, NamedRows(a, b, srcs, x), NEW op, NEW kinds,
         NEW ids, NEW later, x \notin later \/ \A k \in kinds : k \notin srcs,
         \A i \in 1..Len(a.ledger) : a.ledger[i].src \in kinds =>
           (a.ledger[i].ref \in ids <=> a.ledger[i].ref \in later)
  PROVE  Marked(b.ledger, Entries(op, kinds, later)) = Marked(a.ledger, Entries(op, kinds, ids))
<1>1. PICK l, m : l = a.ledger /\ m = b.ledger
  OBVIOUS
<1>2. PICK M, N : M = Entries(op, kinds, ids) /\ N = Entries(op, kinds, later)
  OBVIOUS
<1>3. Longer(l, m)
  BY <1>1 DEF NamedRows
<1>4. \A i \in 1..Len(l) : l[i] \in M <=> l[i] \in N
  BY <1>1, <1>2 DEF Entries
<1>5. ASSUME NEW i \in 1..Len(m), i > Len(l) PROVE m[i] \notin N
  <2>1. m[i].src \in srcs /\ m[i].ref = x
    BY <1>1, <1>5 DEF NamedRows
  <2> QED BY <1>2, <2>1 DEF Entries
<1>6. Marked(m, N) = Marked(l, M)
  BY <1>3, <1>4, <1>5, MarkedSame
<1> QED BY <1>1, <1>2, <1>6

(***************************************************************************)
(* More rows and more sales move no less.                                  *)
(***************************************************************************)
LEMMA MoreStay ==
  ASSUME NEW a, NEW b, NEW srcs, NEW x, NamedRows(a, b, srcs, x), NEW op, NEW kinds, NEW more,
         kinds \subseteq more, NEW ids, NEW later, ids \subseteq later
  PROVE  Marked(a.ledger, Entries(op, kinds, ids)) <= Marked(b.ledger, Entries(op, more, later))
<1>1. PICK l, m : l = a.ledger /\ m = b.ledger
  OBVIOUS
<1>2. PICK M, N : M = Entries(op, kinds, ids) /\ N = Entries(op, more, later)
  OBVIOUS
<1>3. Longer(l, m)
  BY <1>1 DEF NamedRows
<1>4. \A i \in 1..Len(l) : l[i] \in M => l[i] \in N
  BY <1>2 DEF Entries
<1>5. Marked(l, M) <= Marked(m, N)
  BY <1>3, <1>4, MarkedMore
<1> QED BY <1>1, <1>2, <1>5

(***************************************************************************)
(* The points of an account's rows are a number.                           *)
(***************************************************************************)
LEMMA MarkedNat ==
  ASSUME NEW a, a.ledger \in Seq(RowType), NEW M
  PROVE  Marked(a.ledger, M) \in Nat
<1>1. PICK l \in Seq(RowType) : l = a.ledger
  OBVIOUS
<1>2. PICK g : g = [i \in 1..Len(l) |-> l[i].amount]
  OBVIOUS
<1>3. Marked(l, M) \in Nat
  BY <1>2, MarkedSum
<1> QED BY <1>1, <1>3

(***************************************************************************)
(* What one row moves.                                                     *)
(***************************************************************************)
LEMMA WroteMoves ==
  ASSUME NEW a, a.ledger \in Seq(RowType), NEW b, NEW op, NEW amount, NEW row,
         Wrote(a, b, op, amount, row), NEW how, NEW kinds, NEW ids
  PROVE  Marked(b.ledger, Entries(how, kinds, ids)) =
           Marked(a.ledger, Entries(how, kinds, ids)) +
             (IF how = op /\ row.src \in kinds /\ row.ref \in ids THEN amount ELSE 0)
<1>1. PICK l, m : l = a.ledger /\ m = b.ledger
  OBVIOUS
<1>2. PICK M : M = Entries(how, kinds, ids)
  OBVIOUS
<1>3. PICK n \in Nat : n = Len(l)
  BY <1>1
<1>4. /\ Longer(l, m) /\ m \in Seq(RowType) /\ Len(m) = n + 1
      /\ m[n + 1] \in RowType /\ m[n + 1].op = op /\ m[n + 1].amount = amount
      /\ m[n + 1].src = row.src /\ m[n + 1].ref = row.ref
  BY <1>1, <1>3, WroteNamed DEF NamedRows
<1>5. m[n + 1] \in M <=> how = op /\ row.src \in kinds /\ row.ref \in ids
  BY <1>2, <1>4 DEF Entries
<1>6. \A i \in 1..Len(m) : i > Len(l) => i = n + 1
  BY <1>3, <1>4
<1>7. Marked(l, M) \in Nat
  BY <1>1, MarkedNat
<1>8. CASE m[n + 1] \in M
  <2>1. PICK x \in 1..Len(m) : x = n + 1
    BY <1>4
  <2>2. x > Len(l) /\ m[x] \in M
    BY <1>3, <1>8, <2>1
  <2>3. Marked(m, M) = Marked(l, M) + m[x].amount
    BY <1>4, <1>6, <2>1, <2>2, MarkedAdds
  <2> QED BY <1>1, <1>2, <1>4, <1>5, <1>8, <2>1, <2>3
<1>9. CASE m[n + 1] \notin M
  <2>1. Marked(m, M) = Marked(l, M)
    BY <1>4, <1>6, <1>9, MarkedSame
  <2> QED BY <1>1, <1>2, <1>5, <1>7, <1>9, <2>1
<1> QED BY <1>8, <1>9

(***************************************************************************)
(* applyLoyalty: receipt rows that name the receipt, the points spent      *)
(* redeemed for it, and a lot only for points it credited.                 *)
(***************************************************************************)
LEMMA PurchaseWrites ==
  ASSUME clock \in Time, NEW a, AccountOK(a), NEW r \in PosReceipts, NEW at \in Time,
         PurchaseAllowed(a, r, at), NEW b, b = Purchase(a, r, at)
  PROVE  /\ NamedRows(a, b, {"receipt"}, r.ext)
         /\ \A ids : Marked(b.ledger, Entries("debit", {"receipt"}, ids)) =
                       Marked(a.ledger, Entries("debit", {"receipt"}, ids))
                         + (IF r.ext \in ids THEN r.spent ELSE 0)
         /\ \A id : Outstanding(b, id) = Outstanding(a, id) + (IF r.ext = id THEN r.spent ELSE 0)
         /\ \A t \in DOMAIN b.lots : t \in DOMAIN a.lots \/ LotCredited(b, t)
<1>1. PICK row : row = Row("receipt", r.ext, Nobody, at)
  OBVIOUS
<1>2. RowFields(row) /\ row.at = at /\ row.src = "receipt" /\ row.ref = r.ext
  BY <1>1, ReceiptTyped DEF Row, RowFields
<1>3. r.earned \in Nat /\ r.spent \in Nat
  BY ReceiptTyped
<1>4. PICK m : m = IF r.spent > 0 THEN Debit(a, r.spent, row) ELSE a
  OBVIOUS
<1>5. /\ a.ledger \in Seq(RowType) /\ (\A id : Outstanding(a, id) \in Nat)
      /\ \A M : Marked(a.ledger, M) \in Nat
  BY AccountFacts, MarkedNat
<1>6. /\ AccountOK(m) /\ NamedRows(a, m, {"receipt"}, r.ext) /\ DOMAIN m.lots = DOMAIN a.lots
      /\ \A ids : Marked(m.ledger, Entries("debit", {"receipt"}, ids)) =
                    Marked(a.ledger, Entries("debit", {"receipt"}, ids))
                      + (IF r.ext \in ids THEN r.spent ELSE 0)
      /\ \A id : Outstanding(m, id) = Outstanding(a, id) + (IF r.ext = id THEN r.spent ELSE 0)
  <2>1. CASE r.spent > 0
    <3>1. r.spent \in Nat \ {0}
      BY <1>3, <2>1
    <3>2. a.points >= r.spent /\ LotsSuffice(a.lots, row.at, r.spent)
      BY <1>2, <2>1 DEF PurchaseAllowed, CanDebit
    <3>3. r.spent <= a.points
      BY <3>1, <3>2, AccountFacts
    <3>4. m = Debit(a, r.spent, row)
      BY <1>4, <2>1
    <3>5. AccountOK(m)
      BY <1>2, <3>1, <3>2, <3>3, <3>4, DebitedOK
    <3>6. /\ Wrote(a, m, "debit", r.spent, row) /\ DOMAIN m.lots = DOMAIN a.lots
          /\ \A id : Outstanding(m, id) = Outstanding(a, id) + (IF row.ref = id THEN r.spent ELSE 0)
      BY <1>2, <3>1, <3>2, <3>3, <3>4, DebitWrites
    <3>7. NamedRows(a, m, {"receipt"}, r.ext)
      <4>1. NamedRows(a, m, {row.src}, row.ref)
        BY <1>5, <3>6, WroteNamed
      <4> QED BY <1>2, <4>1
    <3>8. ASSUME NEW ids
          PROVE  Marked(m.ledger, Entries("debit", {"receipt"}, ids)) =
                    Marked(a.ledger, Entries("debit", {"receipt"}, ids))
                      + (IF r.ext \in ids THEN r.spent ELSE 0)
      <4>1. Marked(m.ledger, Entries("debit", {"receipt"}, ids)) =
              Marked(a.ledger, Entries("debit", {"receipt"}, ids))
                + (IF "debit" = "debit" /\ row.src \in {"receipt"} /\ row.ref \in ids
                   THEN r.spent ELSE 0)
        BY <1>5, <3>6, WroteMoves
      <4> QED BY <1>2, <4>1
    <3> QED BY <1>2, <3>5, <3>6, <3>7, <3>8
  <2>2. CASE ~(r.spent > 0)
    <3>1. m = a /\ r.spent = 0
      BY <1>3, <1>4, <2>2
    <3>2. NamedRows(a, m, {"receipt"}, r.ext)
      BY <1>5, <3>1, NamedNone
    <3> QED BY <1>5, <3>1, <3>2
  <2> QED BY <2>1, <2>2
<1>7. b = IF r.earned > 0 THEN Credit(m, r.earned, row) ELSE m
  BY <1>1, <1>4 DEF Purchase
<1>8. CASE r.earned > 0
  <2>1. r.earned \in Nat \ {0} /\ b = Credit(m, r.earned, row)
    BY <1>3, <1>7, <1>8
  <2>2. /\ Wrote(m, b, "credit", r.earned, row) /\ DOMAIN b.lots = DOMAIN m.lots \cup {row.at}
        /\ \A id : Outstanding(b, id) = Outstanding(m, id)
    BY <1>2, <1>6, <2>1, CreditWrites
  <2>3. m.ledger \in Seq(RowType)
    BY <1>6, AccountFacts
  <2>4. PICK n \in Nat : n = Len(m.ledger)
    BY <2>3
  <2>5. /\ NamedRows(m, b, {"receipt"}, r.ext) /\ Len(b.ledger) = n + 1
        /\ b.ledger[n + 1].op = "credit" /\ b.ledger[n + 1].src = "receipt"
        /\ b.ledger[n + 1].at = row.at
    <3>1. NamedRows(m, b, {row.src}, row.ref)
      BY <2>2, <2>3, WroteNamed
    <3>2. /\ Len(b.ledger) = n + 1 /\ b.ledger[n + 1].op = "credit"
          /\ b.ledger[n + 1].src = row.src /\ b.ledger[n + 1].at = row.at
      <4>1. PICK e \in RowType : /\ b.ledger = Append(m.ledger, e) /\ e.op = "credit"
                                 /\ e.src = row.src /\ e.at = row.at
        BY <2>2 DEF Wrote
      <4>2. Len(b.ledger) = n + 1 /\ b.ledger[n + 1] = e
        BY <2>3, <2>4, <4>1, AppendFacts
      <4> QED BY <4>1, <4>2
    <3> QED BY <1>2, <3>1, <3>2
  <2>6. LotCredited(b, row.at)
    <3>1. n + 1 \in 1..Len(b.ledger)
      BY <2>5
    <3> QED BY <2>5, <3>1 DEF LotCredited
  <2>7. NamedRows(a, b, {"receipt"}, r.ext)
    BY <1>6, <2>5, NamedTwice
  <2>8. ASSUME NEW ids
        PROVE  Marked(b.ledger, Entries("debit", {"receipt"}, ids)) =
                 Marked(m.ledger, Entries("debit", {"receipt"}, ids))
    <3>1. Marked(b.ledger, Entries("debit", {"receipt"}, ids)) =
            Marked(m.ledger, Entries("debit", {"receipt"}, ids))
              + (IF "debit" = "credit" /\ row.src \in {"receipt"} /\ row.ref \in ids
                 THEN r.earned ELSE 0)
      BY <2>2, <2>3, WroteMoves
    <3>2. Marked(m.ledger, Entries("debit", {"receipt"}, ids)) \in Nat
      BY <2>3, MarkedNat
    <3> QED BY <3>1, <3>2
  <2> QED BY <1>6, <2>2, <2>6, <2>7, <2>8
<1>9. CASE ~(r.earned > 0)
  BY <1>6, <1>7, <1>9
<1> QED BY <1>8, <1>9

(***************************************************************************)
(* A refund: rows that name it, the points taken and given back; of the    *)
(* points spent on its original so many are no longer outstanding, and no  *)
(* lot is made when there were as many.                                    *)
(***************************************************************************)
LEMMA RefundWrites ==
  ASSUME clock \in Time, NEW a, AccountOK(a), NEW reversed \in Nat, reversed <= a.points,
         NEW ext \in RefundIds, NEW at \in Time,
         reversed > 0 => LotsSuffice(a.lots, at, reversed),
         NEW restored \in Nat, NEW original, original # ext,
         NEW b \in RefundedAccount(a, reversed, restored, original, Row("refund", ext, Nobody, at)),
         at \notin DOMAIN a.lots
  PROVE  /\ NamedRows(a, b, {"refund"}, ext)
         /\ \A kinds, ids : "refund" \in kinds =>
              /\ Marked(b.ledger, Entries("debit", kinds, ids)) =
                   Marked(a.ledger, Entries("debit", kinds, ids)) + (IF ext \in ids THEN reversed ELSE 0)
              /\ Marked(b.ledger, Entries("credit", kinds, ids)) =
                   Marked(a.ledger, Entries("credit", kinds, ids)) + (IF ext \in ids THEN restored ELSE 0)
         /\ \A id : id # ext /\ id # original => Outstanding(b, id) = Outstanding(a, id)
         /\ restored <= Outstanding(a, original) =>
              /\ DOMAIN b.lots = DOMAIN a.lots
              /\ Outstanding(b, original) = Outstanding(a, original) - restored
<1>1. PICK row : row = Row("refund", ext, Nobody, at)
  OBVIOUS
<1>2. RowFields(row) /\ row.at = at /\ row.src = "refund" /\ row.ref = ext
  <2>1. ext \in SaleIds \cup {NoSale}
    BY DEF SaleIds
  <2> QED BY <1>1, <2>1 DEF Row, RowFields
<1>3. PICK m : m = IF reversed > 0 THEN Debit(a, reversed, row) ELSE a
  OBVIOUS
<1>4. /\ a.ledger \in Seq(RowType) /\ (\A id : Outstanding(a, id) \in Nat)
      /\ \A M : Marked(a.ledger, M) \in Nat
  BY AccountFacts, MarkedNat
<1>5. /\ AccountOK(m) /\ NamedRows(a, m, {"refund"}, ext) /\ DOMAIN m.lots = DOMAIN a.lots
      /\ \A kinds, ids : "refund" \in kinds =>
           /\ Marked(m.ledger, Entries("debit", kinds, ids)) =
                Marked(a.ledger, Entries("debit", kinds, ids)) + (IF ext \in ids THEN reversed ELSE 0)
           /\ Marked(m.ledger, Entries("credit", kinds, ids)) =
                Marked(a.ledger, Entries("credit", kinds, ids))
      /\ \A id : id # ext => Outstanding(m, id) = Outstanding(a, id)
  <2>1. CASE reversed > 0
    <3>1. reversed \in Nat \ {0} /\ m = Debit(a, reversed, row)
      BY <1>3, <2>1
    <3>2. AccountOK(m)
      BY <1>2, <2>1, <3>1, DebitedOK
    <3>3. /\ Wrote(a, m, "debit", reversed, row) /\ DOMAIN m.lots = DOMAIN a.lots
          /\ \A id : Outstanding(m, id) = Outstanding(a, id) + (IF row.ref = id THEN reversed ELSE 0)
      BY <1>2, <2>1, <3>1, DebitWrites
    <3>4. NamedRows(a, m, {"refund"}, ext)
      BY <1>2, <1>4, <3>3, WroteNamed
    <3>5. ASSUME NEW kinds, NEW ids, "refund" \in kinds
          PROVE  /\ Marked(m.ledger, Entries("debit", kinds, ids)) =
                      Marked(a.ledger, Entries("debit", kinds, ids)) + (IF ext \in ids THEN reversed ELSE 0)
                 /\ Marked(m.ledger, Entries("credit", kinds, ids)) =
                      Marked(a.ledger, Entries("credit", kinds, ids))
      <4>1. Marked(m.ledger, Entries("debit", kinds, ids)) =
              Marked(a.ledger, Entries("debit", kinds, ids))
                + (IF "debit" = "debit" /\ row.src \in kinds /\ row.ref \in ids THEN reversed ELSE 0)
        BY <1>4, <3>3, WroteMoves
      <4>2. Marked(m.ledger, Entries("credit", kinds, ids)) =
              Marked(a.ledger, Entries("credit", kinds, ids))
                + (IF "credit" = "debit" /\ row.src \in kinds /\ row.ref \in ids THEN reversed ELSE 0)
        BY <1>4, <3>3, WroteMoves
      <4>3. Marked(a.ledger, Entries("credit", kinds, ids)) \in Nat
        BY <1>4
      <4> QED BY <1>2, <3>5, <4>1, <4>2, <4>3
    <3>6. ASSUME NEW id, id # ext PROVE Outstanding(m, id) = Outstanding(a, id)
      <4>1. Outstanding(m, id) = Outstanding(a, id) + 0
        BY <1>2, <3>3, <3>6
      <4>2. Outstanding(a, id) \in Nat
        BY <1>4
      <4> QED BY <4>1, <4>2
    <3> QED BY <3>2, <3>3, <3>4, <3>5, <3>6
  <2>2. CASE ~(reversed > 0)
    <3>1. m = a /\ reversed = 0
      BY <1>3, <2>2
    <3>2. NamedRows(a, m, {"refund"}, ext)
      BY <1>4, <3>1, NamedNone
    <3>3. \A M : Marked(a.ledger, M) + 0 = Marked(a.ledger, M)
      BY <1>4
    <3> QED BY <3>1, <3>2, <3>3
  <2> QED BY <2>1, <2>2
<1>6. b \in IF restored = 0
            THEN {m}
            ELSE {Restore(m, restored, row, back) : back \in RestoreSplits(m, original, restored)}
  BY <1>1, <1>3 DEF RefundedAccount
<1>7. m.ledger \in Seq(RowType) /\ (\A id : Outstanding(m, id) \in Nat) /\ \A M : Marked(m.ledger, M) \in Nat
  BY <1>5, AccountFacts, MarkedNat
<1>8. Outstanding(m, original) = Outstanding(a, original)
  BY <1>5
<1>9. /\ NamedRows(m, b, {"refund"}, ext)
      /\ \A kinds, ids : "refund" \in kinds =>
           /\ Marked(b.ledger, Entries("debit", kinds, ids)) =
                Marked(m.ledger, Entries("debit", kinds, ids))
           /\ Marked(b.ledger, Entries("credit", kinds, ids)) =
                Marked(m.ledger, Entries("credit", kinds, ids)) + (IF ext \in ids THEN restored ELSE 0)
      /\ \A id : id # original => Outstanding(b, id) = Outstanding(m, id)
      /\ restored <= Outstanding(m, original) =>
           /\ DOMAIN b.lots = DOMAIN m.lots
           /\ Outstanding(b, original) = Outstanding(m, original) - restored
  <2>1. CASE restored = 0
    <3>1. b = m
      BY <1>6, <2>1
    <3>2. NamedRows(m, b, {"refund"}, ext)
      BY <1>7, <3>1, NamedNone
    <3>3. \A M : Marked(m.ledger, M) + 0 = Marked(m.ledger, M)
      BY <1>7
    <3>4. Outstanding(m, original) - 0 = Outstanding(m, original)
      BY <1>7
    <3> QED BY <2>1, <3>1, <3>2, <3>3, <3>4
  <2>2. CASE restored # 0
    <3>1. PICK back \in RestoreSplits(m, original, restored) : b = Restore(m, restored, row, back)
      BY <1>6, <2>2
    <3>2. restored \in Nat \ {0}
      BY <2>2
    <3>3. /\ Wrote(m, b, "credit", restored, row)
          /\ restored <= Outstanding(m, original) => DOMAIN b.lots = DOMAIN m.lots
          /\ \A id : Outstanding(b, id) =
               IF id = original /\ restored <= Outstanding(m, original)
               THEN Outstanding(m, id) - restored
               ELSE IF id = original THEN 0
               ELSE Outstanding(m, id)
      BY <1>2, <1>5, <3>1, <3>2, RestoreWrites
    <3>4. NamedRows(m, b, {"refund"}, ext)
      BY <1>2, <1>7, <3>3, WroteNamed
    <3>5. ASSUME NEW kinds, NEW ids, "refund" \in kinds
          PROVE  /\ Marked(b.ledger, Entries("debit", kinds, ids)) =
                      Marked(m.ledger, Entries("debit", kinds, ids))
                 /\ Marked(b.ledger, Entries("credit", kinds, ids)) =
                      Marked(m.ledger, Entries("credit", kinds, ids)) + (IF ext \in ids THEN restored ELSE 0)
      <4>1. Marked(b.ledger, Entries("debit", kinds, ids)) =
              Marked(m.ledger, Entries("debit", kinds, ids))
                + (IF "debit" = "credit" /\ row.src \in kinds /\ row.ref \in ids THEN restored ELSE 0)
        BY <1>7, <3>3, WroteMoves
      <4>2. Marked(b.ledger, Entries("credit", kinds, ids)) =
              Marked(m.ledger, Entries("credit", kinds, ids))
                + (IF "credit" = "credit" /\ row.src \in kinds /\ row.ref \in ids THEN restored ELSE 0)
        BY <1>7, <3>3, WroteMoves
      <4>3. Marked(m.ledger, Entries("debit", kinds, ids)) \in Nat
        BY <1>7
      <4> QED BY <1>2, <3>5, <4>1, <4>2, <4>3
    <3> QED BY <3>3, <3>4, <3>5
  <2> QED BY <2>1, <2>2
<1>10. NamedRows(a, b, {"refund"}, ext)
  BY <1>5, <1>9, NamedTwice
<1>11. ASSUME NEW kinds, NEW ids, "refund" \in kinds
       PROVE  /\ Marked(b.ledger, Entries("debit", kinds, ids)) =
                   Marked(a.ledger, Entries("debit", kinds, ids)) + (IF ext \in ids THEN reversed ELSE 0)
              /\ Marked(b.ledger, Entries("credit", kinds, ids)) =
                   Marked(a.ledger, Entries("credit", kinds, ids)) + (IF ext \in ids THEN restored ELSE 0)
  BY <1>5, <1>9, <1>11
<1>12. \A id : id # ext /\ id # original => Outstanding(b, id) = Outstanding(a, id)
  BY <1>5, <1>9
<1> QED BY <1>5, <1>8, <1>9, <1>10, <1>11, <1>12

(***************************************************************************)
(* Recovering a reward: at most a row that names the refund.               *)
(***************************************************************************)
LEMMA RecoverWrites ==
  ASSUME clock \in Time, NEW a, AccountOK(a), NEW k, k[1] \in Friends, NEW refund \in RefundIds,
         NEW at \in Time, Due(a, k) > 0 => LotsSuffice(a.lots, at, Due(a, k)),
         NEW b, b = Recover(a, k, refund, at)
  PROVE  /\ NamedRows(a, b, {"referral_reversal"}, refund)
         /\ \A id : id # refund => Outstanding(b, id) = Outstanding(a, id)
<1>1. PICK due \in Nat : due = Due(a, k)
  BY DueBounded
<1>2. due <= a.points
  BY <1>1, DueBounded
<1>3. PICK row : row = Row("referral_reversal", refund, k[1], at)
  OBVIOUS
<1>4. RowFields(row) /\ row.at = at /\ row.src = "referral_reversal" /\ row.ref = refund
  <2>1. refund \in SaleIds \cup {NoSale}
    BY DEF SaleIds
  <2> QED BY <1>3, <2>1 DEF Row, RowFields
<1>5. a.ledger \in Seq(RowType) /\ \A id : Outstanding(a, id) \in Nat
  BY AccountFacts
<1>6. CASE due > 0
  <2>1. b = Debit(a, due, row) /\ due \in Nat \ {0}
    BY <1>1, <1>3, <1>6 DEF Recover
  <2>2. LotsSuffice(a.lots, row.at, due)
    BY <1>1, <1>4, <1>6
  <2>3. /\ Wrote(a, b, "debit", due, row)
        /\ \A id : Outstanding(b, id) = Outstanding(a, id) + (IF row.ref = id THEN due ELSE 0)
    BY <1>2, <1>4, <2>1, <2>2, DebitWrites
  <2>4. NamedRows(a, b, {"referral_reversal"}, refund)
    BY <1>4, <1>5, <2>3, WroteNamed
  <2> QED BY <1>4, <1>5, <2>3, <2>4
<1>7. CASE ~(due > 0)
  <2>1. b = a
    BY <1>1, <1>7 DEF Recover
  <2> QED BY <1>5, <2>1, NamedNone
<1> QED BY <1>6, <1>7

-----------------------------------------------------------------------------
(* The invariant of the points of the sales. *)

Refers(table, id) == {x \in DOMAIN table : table[x].original = id}

RefundsIn(table, id) == {x \in Refers(table, id) : table[x].source = "refund"}

Spent(accounts, id) == Weight(accounts, Entries("debit", {"receipt"}, {id}))
Earned(accounts, id) == Weight(accounts, Entries("credit", {"receipt"}, {id}))

GivenBack(accounts, ids) == Weight(accounts, Entries("credit", {"refund"}, ids))
TakenBack(accounts, ids) == Weight(accounts, Entries("debit", {"refund"}, ids))

Redone(accounts, ids) == Weight(accounts, Entries("credit", Sources, ids))
Undone(accounts, ids) == Weight(accounts, Entries("debit", Sources, ids))

NetOfRefunds(table, id) == Total([x \in RefundsIn(table, id) |-> table[x].net])
ShortOfRefunds(table, id) == Total([x \in RefundsIn(table, id) |-> table[x].short])

(***************************************************************************)
(* A row of a receipt names a sale of its account, and a row of another    *)
(* source names no receipt.                                                *)
(***************************************************************************)
RowNamed(c, r, table) ==
  /\ r.ref \in DOMAIN table \cup {NoSale}
  /\ r.src = "receipt" =>
       r.ref \in DOMAIN table /\ table[r.ref].source = "pos" /\ table[r.ref].customer = c
  /\ r.src # "receipt" /\ r.ref \in DOMAIN table => table[r.ref].source = "refund"

RowsNamed(accounts, table) ==
  \A c \in Customers : \A i \in 1..Len(accounts[c].ledger) :
    RowNamed(c, accounts[c].ledger[i], table)

(***************************************************************************)
(* While a sale is not fully refunded, its refunds gave back and took back *)
(* no more than their part of its amount; they never exceed its points,    *)
(* and the last one gave and took what was left.                           *)
(***************************************************************************)
SaleBalanced(accounts, table, id) ==
  LET sale   == table[id]
      ids    == Refers(table, id)
      spent  == Spent(accounts, id)
      earned == Earned(accounts, id)
      given  == GivenBack(accounts, ids)
      taken  == TakenBack(accounts, ids)
  IN  /\ sale.status # "refunded" =>
           /\ WithinPart(given, spent, NetOfRefunds(table, id), sale.net)
           /\ WithinPart(taken, earned, NetOfRefunds(table, id), sale.net)
      /\ RefundsIn(table, id) # {} => given <= spent /\ taken <= earned
      /\ RefundsIn(table, id) # {} /\ sale.status = "refunded" =>
           /\ Redone(accounts, ids) >= spent
           /\ Undone(accounts, ids) + ShortOfRefunds(table, id) >= earned

(***************************************************************************)
(* What an account spent on a sale is still redeemed for it or was given   *)
(* back.                                                                   *)
(***************************************************************************)
SpentStands(accounts, table, id) ==
  \A c \in Customers :
    Outstanding(accounts[c], id)
      + Marked(accounts[c].ledger, Entries("credit", {"refund"}, Refers(table, id)))
      = Marked(accounts[c].ledger, Entries("debit", {"receipt"}, {id}))

SaleSettled(accounts, table, id) ==
  SaleBalanced(accounts, table, id) /\ SpentStands(accounts, table, id)

Settled(accounts, table) ==
  /\ RowsNamed(accounts, table)
  /\ \A id \in DOMAIN table : table[id].source = "pos" => SaleSettled(accounts, table, id)

(***************************************************************************)
(* Every lot but the opening one was credited by a receipt or the referral *)
(* program.                                                                *)
(***************************************************************************)
LotsCredited(accounts) ==
  \A c \in Customers : \A t \in DOMAIN accounts[c].lots \ {0} : LotCredited(accounts[c], t)

(***************************************************************************)
(* No request refunds a refund.                                            *)
(***************************************************************************)
RefundsOfReceipts ==
  \A s \in Slots : req[s].kind = "refund" => sales[req[s].what.original].source = "pos"

(***************************************************************************)
(* The inductive invariant of the points: every receipt is settled so far; *)
(* and where no refund is refunded, no lot is a refund's.                  *)
(***************************************************************************)
Points ==
  /\ Settled(account, sales)
  /\ ~RefundReversals => LotsCredited(account) /\ RefundsOfReceipts

(***************************************************************************)
(* Sums over accounts are numbers, and a part is no more than the whole.   *)
(***************************************************************************)
LEMMA WeightNat ==
  ASSUME NEW accounts, Ledgers(accounts), NEW M
  PROVE  /\ Weight(accounts, M) \in Nat
         /\ \A c \in Customers : /\ Marked(accounts[c].ledger, M) \in Nat
                                 /\ Marked(accounts[c].ledger, M) <= Weight(accounts, M)
<1>1. PICK f : f = [c \in Customers |-> Marked(accounts[c].ledger, M)]
  OBVIOUS
<1>2. /\ IsFiniteSet(Customers) /\ \A c \in Customers : f[c] \in Nat
      /\ Weight(accounts, M) = SumOver(f, Customers) /\ Weight(accounts, M) \in Nat
  BY <1>1, WeightSum
<1>3. ASSUME NEW c \in Customers PROVE f[c] <= SumOver(f, Customers)
  <2>1. PICK T : T = Customers \ {c}
    OBVIOUS
  <2>2. SumOver(f, Customers) = f[c] + SumOver(f, T)
    <3>1. \A d \in Customers : f[d] \in Int
      BY <1>2
    <3> QED BY <1>2, <2>1, <3>1, SumTake
  <2>3. SumOver(f, T) \in Nat
    <3>1. T \in SUBSET Customers
      BY <2>1
    <3> QED BY <1>2, <3>1, PartOfSum
  <2> QED BY <1>2, <2>2, <2>3
<1> QED BY <1>1, <1>2, <1>3

(***************************************************************************)
(* An account without picked rows moved nothing.                           *)
(***************************************************************************)
LEMMA MarkedNone ==
  ASSUME NEW a, a.ledger \in Seq(RowType), NEW M, \A i \in 1..Len(a.ledger) : a.ledger[i] \notin M
  PROVE  Marked(a.ledger, M) = 0
<1>1. PICK l \in Seq(RowType) : l = a.ledger
  OBVIOUS
<1>2. PICK g : g = [i \in 1..Len(l) |-> l[i].amount]
  OBVIOUS
<1>3. Marked(l, M) = SumOver(g, Picked(l, M))
  BY <1>2, MarkedSum
<1>4. Picked(l, M) = {}
  BY <1>1 DEF Picked
<1> QED BY <1>1, <1>3, <1>4, SumEmpty

(***************************************************************************)
(* Nothing named an unknown sale: nothing was moved for it.                *)
(***************************************************************************)
LEMMA NoRows ==
  ASSUME NEW accounts, Ledgers(accounts), NEW op, NEW kinds, NEW ids,
         \A c \in Customers : \A i \in 1..Len(accounts[c].ledger) :
           accounts[c].ledger[i].src \in kinds => accounts[c].ledger[i].ref \notin ids
  PROVE  /\ Weight(accounts, Entries(op, kinds, ids)) = 0
         /\ \A c \in Customers : Marked(accounts[c].ledger, Entries(op, kinds, ids)) = 0
<1>1. PICK M : M = Entries(op, kinds, ids)
  OBVIOUS
<1>2. ASSUME NEW c \in Customers PROVE Marked(accounts[c].ledger, M) = 0
  <2>1. PICK a : a = accounts[c]
    OBVIOUS
  <2>2. a.ledger \in Seq(RowType)
    BY <2>1 DEF Ledgers
  <2>3. \A i \in 1..Len(a.ledger) : a.ledger[i] \notin M
    BY <1>1, <2>1 DEF Entries
  <2> QED BY <2>1, <2>2, <2>3, MarkedNone
<1>3. Weight(accounts, M) = 0
  <2>1. Marked(accounts[Referrer].ledger, M) = 0 /\ Referrer \in Customers
    BY <1>2 DEF Customers
  <2>2. Weight(accounts, M) = Marked(accounts[Referrer].ledger, M)
    BY <1>2, <2>1, WeightOfOne
  <2> QED BY <2>1, <2>2
<1> QED BY <1>1, <1>2, <1>3

(***************************************************************************)
(* All that names a receipt are its own rows: what Refund sums up as       *)
(* credited and debited by it is what it earned and spent.                 *)
(***************************************************************************)
LEMMA OwnRows ==
  ASSUME NEW accounts, Ledgers(accounts), NEW table, RowsNamed(accounts, table),
         NEW id \in DOMAIN table, table[id].source = "pos", NEW op
  PROVE  Weight(accounts, Entries(op, Sources, {id})) = Weight(accounts, Entries(op, {"receipt"}, {id}))
<1>1. PICK M, N : M = Entries(op, {"receipt"}, {id}) /\ N = Entries(op, Sources, {id})
  OBVIOUS
<1>2. ASSUME NEW c \in Customers PROVE Marked(accounts[c].ledger, N) = Marked(accounts[c].ledger, M)
  <2>1. PICK l \in Seq(RowType) : l = accounts[c].ledger
    BY DEF Ledgers
  <2>2. PICK n \in Nat : n = Len(l)
    BY <2>1
  <2>3. Longer(l, l) /\ \A i \in 1..n : ~(i > n)
    BY <2>2 DEF Longer
  <2>4. \A i \in 1..Len(l) : l[i].ref = id => l[i].src = "receipt"
    BY <2>1 DEF RowsNamed, RowNamed
  <2>5. \A i \in 1..Len(l) : l[i] \in M <=> l[i] \in N
    BY <1>1, <2>4 DEF Entries, Sources
  <2>6. Marked(l, N) = Marked(l, M)
    BY <2>2, <2>3, <2>5, MarkedSame
  <2> QED BY <2>1, <2>6
<1> QED BY <1>1, <1>2, WeightSame

(***************************************************************************)
(* What an account moved for a sale is all that moved for it, if nobody    *)
(* else has receipts of it; what it was given back is no more than all.    *)
(***************************************************************************)
LEMMA OnlyTheBuyer ==
  ASSUME NEW accounts, Ledgers(accounts), NEW table, RowsNamed(accounts, table),
         NEW id \in DOMAIN table, table[id].source = "pos",
         NEW d \in Customers, d = table[id].customer, NEW op
  PROVE  Weight(accounts, Entries(op, {"receipt"}, {id}))
           = Marked(accounts[d].ledger, Entries(op, {"receipt"}, {id}))
<1>1. PICK M : M = Entries(op, {"receipt"}, {id})
  OBVIOUS
<1>2. ASSUME NEW c \in Customers, c # d PROVE Marked(accounts[c].ledger, M) = 0
  <2>1. PICK a : a = accounts[c]
    OBVIOUS
  <2>2. a.ledger \in Seq(RowType)
    BY <2>1 DEF Ledgers
  <2>3. \A i \in 1..Len(a.ledger) : a.ledger[i] \notin M
    <3>1. \A i \in 1..Len(a.ledger) : ~(a.ledger[i].src = "receipt" /\ a.ledger[i].ref = id)
      BY <1>2, <2>1 DEF RowsNamed, RowNamed
    <3> QED BY <1>1, <3>1 DEF Entries
  <2> QED BY <2>1, <2>2, <2>3, MarkedNone
<1>3. Weight(accounts, M) = Marked(accounts[d].ledger, M)
  BY <1>2, WeightOfOne
<1> QED BY <1>1, <1>3

(***************************************************************************)
(* The rows stay named when the new ones are and the sales only grow.      *)
(***************************************************************************)
LEMMA RowsStayNamed ==
  ASSUME NEW before, NEW after, NEW table, NEW later, RowsNamed(before, table),
         DOMAIN table \subseteq DOMAIN later, NoSale \notin DOMAIN later,
         \A id \in DOMAIN table : /\ later[id].source = table[id].source
                                  /\ later[id].customer = table[id].customer,
         \A c \in Customers : Longer(before[c].ledger, after[c].ledger),
         \A c \in Customers : \A i \in 1..Len(after[c].ledger) :
           i > Len(before[c].ledger) => RowNamed(c, after[c].ledger[i], later)
  PROVE  RowsNamed(after, later)
<1>1. ASSUME NEW c \in Customers, NEW i \in 1..Len(after[c].ledger)
      PROVE  RowNamed(c, after[c].ledger[i], later)
  <2>1. PICK n \in Nat, m \in Nat : n = Len(before[c].ledger) /\ m = Len(after[c].ledger)
    BY DEF Longer
  <2>2. CASE i > n
    BY <1>1, <2>1, <2>2
  <2>3. CASE ~(i > n)
    <3>1. i \in 1..n
      BY <2>1, <2>3
    <3>2. PICK r : r = before[c].ledger[i]
      OBVIOUS
    <3>3. after[c].ledger[i] = r
      BY <2>1, <3>1, <3>2 DEF Longer
    <3>4. RowNamed(c, r, table)
      BY <2>1, <3>1, <3>2 DEF RowsNamed
    <3>5. RowNamed(c, r, later)
      BY <3>4 DEF RowNamed
    <3> QED BY <3>3, <3>5
  <2> QED BY <2>2, <2>3
<1> QED BY <1>1 DEF RowsNamed

-----------------------------------------------------------------------------
(* How a step changes what is said of one sale. *)

(***************************************************************************)
(* Rows that name another sale, and a sale that names this one but is no   *)
(* refund, leave it settled.                                               *)
(***************************************************************************)
LEMMA SaleUntouched ==
  ASSUME NEW before, NEW after, Ledgers(before), Ledgers(after),
         NEW table, NEW later, RowsNamed(before, table),
         NEW x, NEW srcs, \A c \in Customers : NamedRows(before[c], after[c], srcs, x),
         NEW id, x # id,
         \A c \in Customers : Outstanding(after[c], id) = Outstanding(before[c], id),
         x \notin Refers(later, id) \/ "refund" \notin srcs,
         Refers(table, id) \subseteq Refers(later, id),
         \A y \in Refers(later, id) : y \in Refers(table, id) \/ y \notin DOMAIN table \cup {NoSale},
         RefundsIn(later, id) = RefundsIn(table, id),
         \A y \in RefundsIn(table, id) : later[y].net = table[y].net /\ later[y].short = table[y].short,
         later[id].status = table[id].status, later[id].net = table[id].net,
         ShortOfRefunds(table, id) \in Nat, SaleSettled(before, table, id)
  PROVE  SaleSettled(after, later, id)
<1>1. PICK ids, more : ids = Refers(table, id) /\ more = Refers(later, id)
  OBVIOUS
<1>2. ASSUME NEW c \in Customers, NEW op
      PROVE  /\ Marked(after[c].ledger, Entries(op, {"receipt"}, {id}))
                  = Marked(before[c].ledger, Entries(op, {"receipt"}, {id}))
             /\ Marked(after[c].ledger, Entries(op, {"refund"}, more))
                  = Marked(before[c].ledger, Entries(op, {"refund"}, ids))
             /\ Marked(before[c].ledger, Entries(op, Sources, ids))
                  <= Marked(after[c].ledger, Entries(op, Sources, more))
  <2>1. PICK a, b : a = before[c] /\ b = after[c]
    OBVIOUS
  <2>2. NamedRows(a, b, srcs, x)
    BY <2>1
  <2>3. \A i \in 1..Len(a.ledger) : a.ledger[i].ref \in DOMAIN table \cup {NoSale}
    BY <2>1 DEF RowsNamed, RowNamed
  <2>4. Marked(b.ledger, Entries(op, {"receipt"}, {id})) = Marked(a.ledger, Entries(op, {"receipt"}, {id}))
    <3>1. PICK one : one = {id}
      OBVIOUS
    <3>2. x \notin one
      BY <3>1
    <3>3. Marked(b.ledger, Entries(op, {"receipt"}, one)) = Marked(a.ledger, Entries(op, {"receipt"}, one))
      BY <2>2, <3>2, OthersStay
    <3> QED BY <3>1, <3>3
  <2>5. Marked(b.ledger, Entries(op, {"refund"}, more)) = Marked(a.ledger, Entries(op, {"refund"}, ids))
    <3>1. \A i \in 1..Len(a.ledger) : a.ledger[i].ref \in ids <=> a.ledger[i].ref \in more
      BY <1>1, <2>3
    <3>2. x \notin more \/ \A k \in {"refund"} : k \notin srcs
      BY <1>1
    <3> QED BY <2>2, <3>1, <3>2, OthersStay
  <2>6. Marked(a.ledger, Entries(op, Sources, ids)) <= Marked(b.ledger, Entries(op, Sources, more))
    <3>1. ids \subseteq more
      BY <1>1
    <3>2. PICK all : all = Sources
      OBVIOUS
    <3>3. all \subseteq all
      OBVIOUS
    <3>4. Marked(a.ledger, Entries(op, all, ids)) <= Marked(b.ledger, Entries(op, all, more))
      BY <2>2, <3>1, <3>3, MoreStay
    <3> QED BY <3>2, <3>4
  <2> QED BY <2>1, <2>4, <2>5, <2>6
<1>3. /\ Spent(after, id) = Spent(before, id) /\ Earned(after, id) = Earned(before, id)
      /\ GivenBack(after, more) = GivenBack(before, ids) /\ TakenBack(after, more) = TakenBack(before, ids)
  <2>1. ASSUME NEW op
        PROVE  Weight(after, Entries(op, {"receipt"}, {id})) = Weight(before, Entries(op, {"receipt"}, {id}))
    <3>1. PICK M : M = Entries(op, {"receipt"}, {id})
      OBVIOUS
    <3>2. \A c \in Customers : Marked(after[c].ledger, M) = Marked(before[c].ledger, M)
      BY <1>2, <3>1
    <3>3. Weight(after, M) = Weight(before, M)
      BY <3>2, WeightSame
    <3> QED BY <3>1, <3>3
  <2>2. ASSUME NEW op
        PROVE  Weight(after, Entries(op, {"refund"}, more)) = Weight(before, Entries(op, {"refund"}, ids))
    <3>1. PICK M, N : M = Entries(op, {"refund"}, ids) /\ N = Entries(op, {"refund"}, more)
      OBVIOUS
    <3>2. \A c \in Customers : Marked(after[c].ledger, N) = Marked(before[c].ledger, M)
      BY <1>2, <3>1
    <3>3. Weight(after, N) = Weight(before, M)
      BY <3>2, WeightSame
    <3> QED BY <3>1, <3>3
  <2> QED BY <2>1, <2>2 DEF Spent, Earned, GivenBack, TakenBack
<1>4. /\ Redone(before, ids) <= Redone(after, more) /\ Undone(before, ids) <= Undone(after, more)
      /\ Redone(before, ids) \in Nat /\ Redone(after, more) \in Nat
      /\ Undone(before, ids) \in Nat /\ Undone(after, more) \in Nat
  <2>1. ASSUME NEW op
        PROVE  /\ Weight(before, Entries(op, Sources, ids)) <= Weight(after, Entries(op, Sources, more))
               /\ Weight(before, Entries(op, Sources, ids)) \in Nat
               /\ Weight(after, Entries(op, Sources, more)) \in Nat
    <3>1. PICK M, N : M = Entries(op, Sources, ids) /\ N = Entries(op, Sources, more)
      OBVIOUS
    <3>2. \A c \in Customers : Marked(before[c].ledger, M) <= Marked(after[c].ledger, N)
      BY <1>2, <3>1
    <3>3. Weight(before, M) <= Weight(after, N)
      BY <3>2, WeightMore
    <3>4. Weight(before, M) \in Nat /\ Weight(after, N) \in Nat
      BY WeightNat
    <3> QED BY <3>1, <3>3, <3>4
  <2> QED BY <2>1 DEF Redone, Undone
<1>5. /\ NetOfRefunds(later, id) = NetOfRefunds(table, id)
      /\ ShortOfRefunds(later, id) = ShortOfRefunds(table, id)
  <2>1. PICK S : S = RefundsIn(table, id)
    OBVIOUS
  <2>2. /\ [y \in S |-> later[y].net] = [y \in S |-> table[y].net]
        /\ [y \in S |-> later[y].short] = [y \in S |-> table[y].short]
    BY <2>1
  <2> QED BY <2>1, <2>2 DEF NetOfRefunds, ShortOfRefunds
<1>6. Spent(before, id) \in Nat /\ Earned(before, id) \in Nat
  BY WeightNat DEF Spent, Earned
<1>7. SaleBalanced(after, later, id)
  <2>1. SaleBalanced(before, table, id)
    BY DEF SaleSettled
  <2> QED BY <1>1, <1>3, <1>4, <1>5, <1>6, <2>1 DEF SaleBalanced
<1>8. SpentStands(after, later, id)
  <2>1. SpentStands(before, table, id)
    BY DEF SaleSettled
  <2> QED BY <1>1, <1>2, <2>1 DEF SpentStands
<1> QED BY <1>7, <1>8 DEF SaleSettled

(***************************************************************************)
(* A receipt nothing names yet is settled: what was spent on it is         *)
(* redeemed for it.                                                        *)
(***************************************************************************)
LEMMA SaleFresh ==
  ASSUME NEW before, NEW after, Ledgers(before), Ledgers(after),
         NEW table, NEW later, RowsNamed(before, table),
         NEW x, x \notin DOMAIN table, x # NoSale, Refers(later, x) = {},
         NEW buyer \in Customers, NEW spent \in Nat,
         \A c \in Customers : Outstanding(before[c], x) = 0,
         \A c \in Customers : Outstanding(after[c], x)
           = Outstanding(before[c], x) + (IF c = buyer THEN spent ELSE 0),
         \A c \in Customers : Marked(after[c].ledger, Entries("debit", {"receipt"}, {x}))
           = Marked(before[c].ledger, Entries("debit", {"receipt"}, {x}))
               + (IF c = buyer THEN spent ELSE 0),
         later[x].net \in Nat
  PROVE  SaleSettled(after, later, x)
<1>1. \A c \in Customers : Marked(before[c].ledger, Entries("debit", {"receipt"}, {x})) = 0
  <2>1. PICK one : one = {x}
    OBVIOUS
  <2>2. \A c \in Customers : \A i \in 1..Len(before[c].ledger) :
          before[c].ledger[i].ref \in DOMAIN table \cup {NoSale}
    BY DEF RowsNamed, RowNamed
  <2>3. \A c \in Customers : \A i \in 1..Len(before[c].ledger) :
          before[c].ledger[i].src \in {"receipt"} => before[c].ledger[i].ref \notin one
    BY <2>1, <2>2
  <2>4. \A c \in Customers : Marked(before[c].ledger, Entries("debit", {"receipt"}, one)) = 0
    BY <2>3, NoRows
  <2> QED BY <2>1, <2>4
<1>2. ASSUME NEW op
      PROVE  /\ Weight(after, Entries(op, {"refund"}, {})) = 0
             /\ \A c \in Customers : Marked(after[c].ledger, Entries(op, {"refund"}, {})) = 0
  <2>1. PICK none : none = {}
    OBVIOUS
  <2>2. \A c \in Customers : \A i \in 1..Len(after[c].ledger) :
          after[c].ledger[i].src \in {"refund"} => after[c].ledger[i].ref \notin none
    BY <2>1
  <2>3. /\ Weight(after, Entries(op, {"refund"}, none)) = 0
        /\ \A c \in Customers : Marked(after[c].ledger, Entries(op, {"refund"}, none)) = 0
    BY <2>2, NoRows
  <2> QED BY <2>1, <2>3
<1>3. GivenBack(after, {}) = 0 /\ TakenBack(after, {}) = 0
  BY <1>2 DEF GivenBack, TakenBack
<1>4. RefundsIn(later, x) = {}
  BY DEF RefundsIn
<1>5. NetOfRefunds(later, x) = 0
  <2>1. PICK f : f = [y \in RefundsIn(later, x) |-> later[y].net]
    OBVIOUS
  <2>2. DOMAIN f = {}
    BY <1>4, <2>1
  <2>3. SumOver(f, {}) = 0
    BY SumEmpty
  <2> QED BY <2>1, <2>2, <2>3 DEF NetOfRefunds, Total
<1>6. Spent(after, x) \in Nat /\ Earned(after, x) \in Nat
  BY WeightNat DEF Spent, Earned
<1>7. SaleBalanced(after, later, x)
  BY <1>3, <1>4, <1>5, <1>6 DEF SaleBalanced, WithinPart
<1>8. SpentStands(after, later, x)
  <2>1. ASSUME NEW c \in Customers
        PROVE  Outstanding(after[c], x) + Marked(after[c].ledger, Entries("credit", {"refund"}, {}))
                 = Marked(after[c].ledger, Entries("debit", {"receipt"}, {x}))
    <3>1. PICK n \in Nat : n = IF c = buyer THEN spent ELSE 0
      OBVIOUS
    <3>2. Outstanding(after[c], x) = 0 + n
      BY <3>1
    <3>3. Marked(after[c].ledger, Entries("debit", {"receipt"}, {x})) = 0 + n
      BY <1>1, <3>1
    <3>4. Marked(after[c].ledger, Entries("credit", {"refund"}, {})) = 0
      BY <1>2
    <3> QED BY <3>2, <3>3, <3>4
  <2> QED BY <2>1 DEF SpentStands
<1> QED BY <1>7, <1>8 DEF SaleSettled

(***************************************************************************)
(* The shares of the next refund of a sale that is not fully refunded:     *)
(* what is given back is still outstanding on the buyer's account.         *)
(***************************************************************************)
LEMMA SharesOfSale ==
  ASSUME NEW before, Ledgers(before), NEW table, RowsNamed(before, table),
         NEW o \in DOMAIN table, table[o].source = "pos", table[o].status # "refunded",
         SaleSettled(before, table, o), NEW ids, ids = Refers(table, o),
         NEW buyer \in Customers, buyer = table[o].customer,
         Outstanding(before[buyer], o) \in Nat,
         NEW net \in Nat \ {0}, net = table[o].net, NEW amount \in Nat,
         NEW refunded \in Nat, refunded = NetOfRefunds(table, o), refunded + amount <= net,
         NEW full \in BOOLEAN,
         NEW wanted \in Share(Earned(before, o), Undone(before, ids), amount, net, full),
         NEW restored \in Share(Spent(before, o), Redone(before, ids), amount, net, full)
  PROVE  /\ wanted \in Nat /\ restored \in Nat
         /\ ShareFits(Earned(before, o), Undone(before, ids), TakenBack(before, ids),
                      refunded, amount, net, full, wanted)
         /\ ShareFits(Spent(before, o), Redone(before, ids), GivenBack(before, ids),
                      refunded, amount, net, full, restored)
         /\ restored <= Outstanding(before[buyer], o)
<1>1. PICK spent \in Nat, earned \in Nat, given \in Nat, taken \in Nat, redone \in Nat, undone \in Nat :
        /\ spent = Spent(before, o) /\ earned = Earned(before, o)
        /\ given = GivenBack(before, ids) /\ taken = TakenBack(before, ids)
        /\ redone = Redone(before, ids) /\ undone = Undone(before, ids)
  BY WeightNat DEF Spent, Earned, GivenBack, TakenBack, Redone, Undone
<1>2. WithinPart(given, spent, refunded, net) /\ WithinPart(taken, earned, refunded, net)
  BY <1>1 DEF SaleSettled, SaleBalanced
<1>3. given <= redone /\ taken <= undone
  <2>1. ASSUME NEW op
        PROVE  Weight(before, Entries(op, {"refund"}, ids)) <= Weight(before, Entries(op, Sources, ids))
    <3>1. PICK M, N : M = Entries(op, {"refund"}, ids) /\ N = Entries(op, Sources, ids)
      OBVIOUS
    <3>2. ASSUME NEW c \in Customers
          PROVE  Marked(before[c].ledger, M) <= Marked(before[c].ledger, N)
      <4>1. PICK l \in Seq(RowType) : l = before[c].ledger
        BY DEF Ledgers
      <4>2. PICK n \in Nat : n = Len(l)
        BY <4>1
      <4>3. Longer(l, l)
        BY <4>2 DEF Longer
      <4>4. \A i \in 1..Len(l) : l[i] \in M => l[i] \in N
        BY <3>1 DEF Entries, Sources
      <4>5. Marked(l, M) <= Marked(l, N)
        BY <4>3, <4>4, MarkedMore
      <4> QED BY <4>1, <4>5
    <3>3. Weight(before, M) <= Weight(before, N)
      BY <3>2, WeightMore
    <3> QED BY <3>1, <3>3
  <2> QED BY <1>1, <2>1 DEF GivenBack, TakenBack, Redone, Undone
<1>4. wanted \in Nat /\ ShareFits(earned, undone, taken, refunded, amount, net, full, wanted)
  <2>1. wanted \in Share(earned, undone, amount, net, full)
    BY <1>1
  <2>2. taken <= undone /\ WithinPart(taken, earned, refunded, net)
    BY <1>2, <1>3
  <2> QED BY <2>1, <2>2, ShareBounds, SMTT(60)
<1>5. restored \in Nat /\ ShareFits(spent, redone, given, refunded, amount, net, full, restored)
  <2>1. restored \in Share(spent, redone, amount, net, full)
    BY <1>1
  <2>2. given <= redone /\ WithinPart(given, spent, refunded, net)
    BY <1>2, <1>3
  <2> QED BY <2>1, <2>2, ShareBounds, SMTT(60)
<1>6. restored <= Outstanding(before[buyer], o)
  <2>1. spent = Marked(before[buyer].ledger, Entries("debit", {"receipt"}, {o}))
    <3>1. Weight(before, Entries("debit", {"receipt"}, {o}))
            = Marked(before[buyer].ledger, Entries("debit", {"receipt"}, {o}))
      BY OnlyTheBuyer
    <3> QED BY <1>1, <3>1 DEF Spent
  <2>2. PICK back \in Nat : /\ back = Marked(before[buyer].ledger, Entries("credit", {"refund"}, ids))
                            /\ back <= given
    <3>1. PICK M : M = Entries("credit", {"refund"}, ids)
      OBVIOUS
    <3>2. Marked(before[buyer].ledger, M) \in Nat /\ Marked(before[buyer].ledger, M) <= Weight(before, M)
      BY WeightNat
    <3> QED BY <1>1, <3>1, <3>2 DEF GivenBack
  <2>3. Outstanding(before[buyer], o) + back = spent
    BY <2>1, <2>2 DEF SaleSettled, SpentStands
  <2>4. PICK rest \in Nat : rest = Outstanding(before[buyer], o)
    OBVIOUS
  <2> QED BY <1>5, <2>2, <2>3, <2>4 DEF ShareFits
<1> QED BY <1>1, <1>4, <1>5, <1>6

(***************************************************************************)
(* Less than a part is within it.                                          *)
(***************************************************************************)
LEMMA LessIsWithin ==
  ASSUME NEW q \in Nat, NEW p \in Nat, p <= q, NEW points \in Nat, NEW refunded \in Nat,
         NEW net \in Nat, WithinPart(q, points, refunded, net)
  PROVE  WithinPart(p, points, refunded, net)
<1>1. p * net <= q * net
  BY TimesKeeps
<1>2. q * net <= points * refunded
  BY DEF WithinPart
<1>3. PICK f \in Nat, g \in Nat, h \in Nat : f = p * net /\ g = q * net /\ h = points * refunded
  OBVIOUS
<1>4. f <= h
  BY <1>1, <1>2, <1>3
<1> QED BY <1>3, <1>4 DEF WithinPart

(***************************************************************************)
(* Two sets of sales that the same rows name give the same sum.            *)
(***************************************************************************)
NamedAlike(l, ids, more) == \A i \in 1..Len(l) : l[i].ref \in ids <=> l[i].ref \in more

LEMMA SameNames ==
  ASSUME NEW l \in Seq(RowType), NEW op, NEW kinds, NEW ids, NEW more, NamedAlike(l, ids, more)
  PROVE  Marked(l, Entries(op, kinds, more)) = Marked(l, Entries(op, kinds, ids))
<1>1. PICK M, N : M = Entries(op, kinds, ids) /\ N = Entries(op, kinds, more)
  OBVIOUS
<1>2. PICK n \in Nat : n = Len(l)
  OBVIOUS
<1>3. Longer(l, l)
  BY <1>2 DEF Longer
<1>4. \A i \in 1..n : ~(i > n)
  BY <1>2
<1>5. \A i \in 1..Len(l) : l[i] \in M <=> l[i] \in N
  BY <1>1 DEF Entries, NamedAlike
<1>6. Marked(l, N) = Marked(l, M)
  BY <1>2, <1>3, <1>4, <1>5, MarkedSame
<1> QED BY <1>1, <1>6

(***************************************************************************)
(* A refund x of the sale o: its rows on the buyer's account, those of the *)
(* recovery after it, and the two shares that fit what is left to refund.  *)
(***************************************************************************)
RefundOfSale(before, mid, after, table, later, o, x, buyer, reversed, restored, full) ==
  /\ Ledgers(before) /\ Ledgers(mid) /\ Ledgers(after)
  /\ x # o /\ Refers(later, o) = Refers(table, o) \cup {x}
  /\ \A c \in Customers : \A i \in 1..Len(before[c].ledger) : before[c].ledger[i].ref # x
  /\ buyer \in Customers /\ reversed \in Nat /\ restored \in Nat /\ full \in BOOLEAN
  /\ \A c \in Customers : c # buyer => mid[c] = before[c]
  /\ NamedRows(before[buyer], mid[buyer], {"refund"}, x)
  /\ \A kinds : "refund" \in kinds =>
       /\ Marked(mid[buyer].ledger, Entries("debit", kinds, Refers(later, o))) =
            Marked(before[buyer].ledger, Entries("debit", kinds, Refers(later, o))) + reversed
       /\ Marked(mid[buyer].ledger, Entries("credit", kinds, Refers(later, o))) =
            Marked(before[buyer].ledger, Entries("credit", kinds, Refers(later, o))) + restored
  /\ \A c \in Customers : NamedRows(mid[c], after[c], {"referral_reversal"}, x)
  /\ \A c \in Customers : Outstanding(before[c], o) \in Nat
  /\ \A c \in Customers : Outstanding(after[c], o)
       = Outstanding(before[c], o) - (IF c = buyer THEN restored ELSE 0)
  /\ later[o].net \in Nat \ {0} /\ later[x].net \in Nat /\ later[x].short \in Nat
  /\ NetOfRefunds(table, o) \in Nat /\ ShortOfRefunds(table, o) \in Nat
  /\ NetOfRefunds(later, o) = NetOfRefunds(table, o) + later[x].net
  /\ ShortOfRefunds(later, o) = ShortOfRefunds(table, o) + later[x].short
  /\ later[o].status = IF full THEN "refunded" ELSE "partially_refunded"
  /\ ShareFits(Earned(before, o), Undone(before, Refers(table, o)), TakenBack(before, Refers(table, o)),
               NetOfRefunds(table, o), later[x].net, later[o].net, full, reversed + later[x].short)
  /\ ShareFits(Spent(before, o), Redone(before, Refers(table, o)), GivenBack(before, Refers(table, o)),
               NetOfRefunds(table, o), later[x].net, later[o].net, full, restored)
  /\ SpentStands(before, table, o)

(***************************************************************************)
(* A refund leaves its sale settled: it gives back and takes back its      *)
(* shares, as far as the balance reaches, whatever it recovers besides.    *)
(***************************************************************************)
LEMMA SaleRefunds ==
  ASSUME NEW before, NEW mid, NEW after, NEW table, NEW later, NEW o, NEW x, NEW buyer,
         NEW reversed, NEW restored, NEW full,
         RefundOfSale(before, mid, after, table, later, o, x, buyer, reversed, restored, full)
  PROVE  SaleSettled(after, later, o)
<1>a. PICK ids, more : ids = Refers(table, o) /\ more = Refers(later, o) /\ more = ids \cup {x}
  BY DEF RefundOfSale
<1>n. PICK net \in Nat \ {0}, amount \in Nat, short \in Nat, refunded \in Nat, missing \in Nat :
        /\ net = later[o].net /\ amount = later[x].net /\ short = later[x].short
        /\ refunded = NetOfRefunds(table, o) /\ missing = ShortOfRefunds(table, o)
  BY DEF RefundOfSale
<1>v. reversed \in Nat
  BY DEF RefundOfSale
<1>r. restored \in Nat
  BY DEF RefundOfSale
<1>w. PICK wanted : wanted = reversed + short
  OBVIOUS
<1>b. /\ Ledgers(before) /\ Ledgers(mid) /\ Ledgers(after) /\ x # o /\ buyer \in Customers
      /\ later[o].status = IF full THEN "refunded" ELSE "partially_refunded"
      /\ NetOfRefunds(later, o) = refunded + amount /\ ShortOfRefunds(later, o) = missing + short
  BY <1>n DEF RefundOfSale
<1>f. full \in BOOLEAN
  BY DEF RefundOfSale
<1>c. /\ \A c \in Customers : \A i \in 1..Len(before[c].ledger) : before[c].ledger[i].ref # x
      /\ \A c \in Customers : c # buyer => mid[c] = before[c]
      /\ NamedRows(before[buyer], mid[buyer], {"refund"}, x)
      /\ \A kinds : "refund" \in kinds =>
           /\ Marked(mid[buyer].ledger, Entries("debit", kinds, more)) =
                Marked(before[buyer].ledger, Entries("debit", kinds, more)) + reversed
           /\ Marked(mid[buyer].ledger, Entries("credit", kinds, more)) =
                Marked(before[buyer].ledger, Entries("credit", kinds, more)) + restored
      /\ \A c \in Customers : NamedRows(mid[c], after[c], {"referral_reversal"}, x)
      /\ \A c \in Customers : Outstanding(before[c], o) \in Nat
      /\ \A c \in Customers : Outstanding(after[c], o)
           = Outstanding(before[c], o) - (IF c = buyer THEN restored ELSE 0)
      /\ SpentStands(before, table, o)
  BY <1>a DEF RefundOfSale
<1>d. /\ ShareFits(Earned(before, o), Undone(before, ids), TakenBack(before, ids),
                   refunded, amount, net, full, wanted)
      /\ ShareFits(Spent(before, o), Redone(before, ids), GivenBack(before, ids),
                   refunded, amount, net, full, restored)
  BY <1>a, <1>n, <1>w DEF RefundOfSale
<1> USE <1>a, <1>n, <1>v, <1>r, <1>w, <1>b, <1>f, <1>c, <1>d
<1>1. \A c \in Customers : before[c].ledger \in Seq(RowType)
  BY DEF Ledgers
<1>2. \A c \in Customers : NamedRows(before[c], mid[c], {"refund"}, x)
  <2>1. ASSUME NEW c \in Customers PROVE NamedRows(before[c], mid[c], {"refund"}, x)
    <3>1. CASE c = buyer
      BY <3>1
    <3>2. CASE c # buyer
      <4>1. PICK a : a = before[c]
        OBVIOUS
      <4>2. NamedRows(a, a, {"refund"}, x)
        BY <1>1, <4>1, NamedNone
      <4> QED BY <3>2, <4>1, <4>2
    <3> QED BY <3>1, <3>2
  <2> QED BY <2>1
<1>3. ASSUME NEW c \in Customers, NEW op
      PROVE  Marked(after[c].ledger, Entries(op, {"receipt"}, {o}))
               = Marked(before[c].ledger, Entries(op, {"receipt"}, {o}))
  <2>1. PICK a, m, b, one : a = before[c] /\ m = mid[c] /\ b = after[c] /\ one = {o}
    OBVIOUS
  <2>2. NamedRows(a, m, {"refund"}, x) /\ NamedRows(m, b, {"referral_reversal"}, x) /\ x \notin one
    BY <1>2, <2>1
  <2>3. Marked(m.ledger, Entries(op, {"receipt"}, one)) = Marked(a.ledger, Entries(op, {"receipt"}, one))
    BY <2>2, OthersStay
  <2>4. Marked(b.ledger, Entries(op, {"receipt"}, one)) = Marked(m.ledger, Entries(op, {"receipt"}, one))
    BY <2>2, OthersStay
  <2> QED BY <2>1, <2>3, <2>4
<1>4. ASSUME NEW c \in Customers, NEW op, NEW kinds
      PROVE  Marked(before[c].ledger, Entries(op, kinds, more))
               = Marked(before[c].ledger, Entries(op, kinds, ids))
  <2>1. PICK l \in Seq(RowType) : l = before[c].ledger
    BY <1>1
  <2>2. \A i \in 1..Len(l) : l[i].ref # x
    BY <2>1
  <2>3. NamedAlike(l, ids, more)
    BY <2>2 DEF NamedAlike
  <2> HIDE <1>a, <1>b, <1>c, <1>d
  <2>4. Marked(l, Entries(op, kinds, more)) = Marked(l, Entries(op, kinds, ids))
    BY <2>1, <2>3, SameNames
  <2> QED BY <2>1, <2>4
<1>5. ASSUME NEW c \in Customers, NEW kinds, "refund" \in kinds
      PROVE  /\ Marked(mid[c].ledger, Entries("debit", kinds, more))
                  = Marked(before[c].ledger, Entries("debit", kinds, ids))
                      + (IF c = buyer THEN reversed ELSE 0)
             /\ Marked(mid[c].ledger, Entries("credit", kinds, more))
                  = Marked(before[c].ledger, Entries("credit", kinds, ids))
                      + (IF c = buyer THEN restored ELSE 0)
  <2>1. CASE c = buyer
    BY ZenonT(30), <1>4, <1>5, <2>1
  <2>2. CASE c # buyer
    <3>1. ASSUME NEW op
          PROVE  /\ Marked(mid[c].ledger, Entries(op, kinds, more))
                      = Marked(before[c].ledger, Entries(op, kinds, ids))
                 /\ Marked(before[c].ledger, Entries(op, kinds, ids)) \in Nat
      <4>1. mid[c] = before[c]
        BY <2>2
      <4>2. Marked(before[c].ledger, Entries(op, kinds, ids)) \in Nat
        BY WeightNat
      <4> QED BY ZenonT(30), <1>4, <4>1, <4>2
    <3>2. /\ Marked(mid[c].ledger, Entries("debit", kinds, more))
               = Marked(before[c].ledger, Entries("debit", kinds, ids))
          /\ Marked(before[c].ledger, Entries("debit", kinds, ids)) \in Nat
      BY <3>1
    <3>3. /\ Marked(mid[c].ledger, Entries("credit", kinds, more))
               = Marked(before[c].ledger, Entries("credit", kinds, ids))
          /\ Marked(before[c].ledger, Entries("credit", kinds, ids)) \in Nat
      BY <3>1
    <3>4. \A n \in Nat : n + (IF c = buyer THEN reversed ELSE 0) = n
      BY <2>2
    <3>5. \A n \in Nat : n + (IF c = buyer THEN restored ELSE 0) = n
      BY <2>2
    <3> QED BY <3>2, <3>3, <3>4, <3>5, Zenon
  <2> QED BY <2>1, <2>2
<1>6. ASSUME NEW c \in Customers, NEW op
      PROVE  /\ Marked(after[c].ledger, Entries(op, {"refund"}, more))
                  = Marked(mid[c].ledger, Entries(op, {"refund"}, more))
             /\ Marked(mid[c].ledger, Entries(op, Sources, more))
                  <= Marked(after[c].ledger, Entries(op, Sources, more))
  <2>1. PICK m, b, all : m = mid[c] /\ b = after[c] /\ all = Sources
    OBVIOUS
  <2>2. NamedRows(m, b, {"referral_reversal"}, x)
    BY <2>1
  <2>3. Marked(b.ledger, Entries(op, {"refund"}, more)) = Marked(m.ledger, Entries(op, {"refund"}, more))
    <3>1. \A k \in {"refund"} : k \notin {"referral_reversal"}
      OBVIOUS
    <3> QED BY <2>2, <3>1, OthersStay
  <2>4. Marked(m.ledger, Entries(op, all, more)) <= Marked(b.ledger, Entries(op, all, more))
    <3>1. all \subseteq all /\ more \subseteq more
      OBVIOUS
    <3> QED BY <2>2, <3>1, MoreStay
  <2> QED BY <2>1, <2>3, <2>4
<1>7. Spent(after, o) = Spent(before, o) /\ Earned(after, o) = Earned(before, o)
  <2>1. ASSUME NEW op
        PROVE  Weight(after, Entries(op, {"receipt"}, {o})) = Weight(before, Entries(op, {"receipt"}, {o}))
    <3>1. PICK M : M = Entries(op, {"receipt"}, {o})
      OBVIOUS
    <3>2. \A c \in Customers : Marked(after[c].ledger, M) = Marked(before[c].ledger, M)
      BY <1>3, <3>1
    <3>3. Weight(after, M) = Weight(before, M)
      BY <3>2, WeightSame
    <3> QED BY <3>1, <3>3
  <2> QED BY <2>1 DEF Spent, Earned
<1>8. ASSUME NEW kinds, "refund" \in kinds
      PROVE  /\ Weight(mid, Entries("debit", kinds, more))
                  = Weight(before, Entries("debit", kinds, ids)) + reversed
             /\ Weight(mid, Entries("credit", kinds, more))
                  = Weight(before, Entries("credit", kinds, ids)) + restored
  <2>1. ASSUME NEW M, NEW N, NEW n \in Nat,
               \A c \in Customers : Marked(mid[c].ledger, N)
                 = Marked(before[c].ledger, M) + (IF c = buyer THEN n ELSE 0)
        PROVE  Weight(mid, N) = Weight(before, M) + n
    <3>1. \A c \in Customers : Marked(before[c].ledger, M) \in Nat
      BY WeightNat
    <3>2. Marked(mid[buyer].ledger, N) = Marked(before[buyer].ledger, M) + n
      BY <2>1
    <3>3. \A c \in Customers : c # buyer => Marked(mid[c].ledger, N) = Marked(before[c].ledger, M)
      BY <2>1, <3>1
    <3> QED BY <3>2, <3>3, WeightAdds
  <2>2. PICK M, N : M = Entries("debit", kinds, ids) /\ N = Entries("debit", kinds, more)
    OBVIOUS
  <2>3. Weight(mid, N) = Weight(before, M) + reversed
    <3>1. \A c \in Customers : Marked(mid[c].ledger, N)
            = Marked(before[c].ledger, M) + (IF c = buyer THEN reversed ELSE 0)
      BY <1>5, <1>8, <2>2
    <3> QED BY <2>1, <3>1
  <2>4. PICK P, Q : P = Entries("credit", kinds, ids) /\ Q = Entries("credit", kinds, more)
    OBVIOUS
  <2>5. Weight(mid, Q) = Weight(before, P) + restored
    <3>1. \A c \in Customers : Marked(mid[c].ledger, Q)
            = Marked(before[c].ledger, P) + (IF c = buyer THEN restored ELSE 0)
      BY <1>5, <1>8, <2>4
    <3> QED BY <2>1, <3>1
  <2> QED BY <2>2, <2>3, <2>4, <2>5
<1>9. /\ GivenBack(after, more) = GivenBack(before, ids) + restored
      /\ TakenBack(after, more) = TakenBack(before, ids) + reversed
  <2>1. ASSUME NEW op
        PROVE  Weight(after, Entries(op, {"refund"}, more)) = Weight(mid, Entries(op, {"refund"}, more))
    <3>1. PICK M : M = Entries(op, {"refund"}, more)
      OBVIOUS
    <3>2. \A c \in Customers : Marked(after[c].ledger, M) = Marked(mid[c].ledger, M)
      BY <1>6, <3>1
    <3>3. Weight(after, M) = Weight(mid, M)
      BY <3>2, WeightSame
    <3> QED BY <3>1, <3>3
  <2>2. PICK kinds : kinds = {"refund"}
    OBVIOUS
  <2>3. /\ Weight(mid, Entries("debit", kinds, more)) = Weight(before, Entries("debit", kinds, ids)) + reversed
        /\ Weight(mid, Entries("credit", kinds, more)) = Weight(before, Entries("credit", kinds, ids)) + restored
    BY <1>8, <2>2
  <2> QED BY <2>1, <2>2, <2>3 DEF GivenBack, TakenBack
<1>10. /\ Redone(before, ids) + restored <= Redone(after, more)
       /\ Undone(before, ids) + reversed <= Undone(after, more)
       /\ Redone(after, more) \in Nat /\ Undone(after, more) \in Nat
  <2>1. ASSUME NEW op
        PROVE  /\ Weight(mid, Entries(op, Sources, more)) <= Weight(after, Entries(op, Sources, more))
               /\ Weight(after, Entries(op, Sources, more)) \in Nat
    <3>1. PICK M : M = Entries(op, Sources, more)
      OBVIOUS
    <3>2. \A c \in Customers : Marked(mid[c].ledger, M) <= Marked(after[c].ledger, M)
      BY <1>6, <3>1
    <3>3. Weight(mid, M) <= Weight(after, M)
      BY <3>2, WeightMore
    <3>4. Weight(after, M) \in Nat
      BY WeightNat
    <3> QED BY <3>1, <3>3, <3>4
  <2>2. "refund" \in Sources
    BY DEF Sources
  <2>3. /\ Weight(mid, Entries("debit", Sources, more)) = Weight(before, Entries("debit", Sources, ids)) + reversed
        /\ Weight(mid, Entries("credit", Sources, more)) = Weight(before, Entries("credit", Sources, ids)) + restored
    BY <1>8, <2>2
  <2> QED BY <2>1, <2>3 DEF Redone, Undone
<1>11. PICK spent \in Nat, earned \in Nat, given \in Nat, taken \in Nat, redone \in Nat, undone \in Nat :
         /\ spent = Spent(before, o) /\ earned = Earned(before, o)
         /\ given = GivenBack(before, ids) /\ taken = TakenBack(before, ids)
         /\ redone = Redone(before, ids) /\ undone = Undone(before, ids)
  BY WeightNat DEF Spent, Earned, GivenBack, TakenBack, Redone, Undone
<1>12. /\ given + restored <= spent /\ taken + wanted <= earned
       /\ full => redone + restored >= spent /\ undone + wanted >= earned
       /\ ~full => /\ WithinPart(given + restored, spent, refunded + amount, net)
                   /\ WithinPart(taken + wanted, earned, refunded + amount, net)
  BY <1>11 DEF ShareFits
<1>13. taken + reversed <= earned /\ (~full => WithinPart(taken + reversed, earned, refunded + amount, net))
  <2> HIDE <1>a, <1>b, <1>c, <1>d
  <2>0. PICK w \in Nat : w = wanted /\ reversed <= w
    <3>1. reversed + short \in Nat /\ reversed <= reversed + short
      OBVIOUS
    <3> QED BY <3>1
  <2>1. PICK p \in Nat, q \in Nat, s \in Nat : p = taken + reversed /\ q = taken + w /\ s = refunded + amount
    OBVIOUS
  <2>2. p <= q /\ q <= earned
    <3>1. q <= earned
      BY <1>12, <2>0, <2>1
    <3> QED BY <2>0, <2>1, <3>1
  <2>3. p <= earned
    BY <2>2
  <2>4. ASSUME ~full PROVE WithinPart(p, earned, s, net)
    <3>1. WithinPart(q, earned, s, net)
      BY <1>12, <2>0, <2>1, <2>4
    <3> QED BY <2>2, <3>1, LessIsWithin
  <2> QED BY <2>1, <2>3, <2>4
<1>14. ASSUME full
       PROVE  /\ Redone(after, more) >= spent
              /\ Undone(after, more) + (missing + short) >= earned
  <2> HIDE <1>a, <1>b, <1>c, <1>d
  <2>1. PICK r \in Nat, u \in Nat : r = Redone(after, more) /\ u = Undone(after, more)
    BY <1>10
  <2>2. redone + restored <= r /\ undone + reversed <= u
    BY <1>10, <1>11, <2>1
  <2>3. redone + restored >= spent /\ undone + (reversed + short) >= earned
    BY <1>12, <1>14
  <2>4. r >= spent
    BY <2>2, <2>3
  <2>5. u + (missing + short) >= earned
    BY <2>2, <2>3
  <2> QED BY <2>1, <2>4, <2>5
<1>15. SaleBalanced(after, later, o)
  BY <1>7, <1>9, <1>11, <1>12, <1>13, <1>14 DEF SaleBalanced
<1>16. SpentStands(after, later, o)
  <2>1. ASSUME NEW c \in Customers
        PROVE  Outstanding(after[c], o) + Marked(after[c].ledger, Entries("credit", {"refund"}, more))
                 = Marked(after[c].ledger, Entries("debit", {"receipt"}, {o}))
    <3>1. PICK n \in Nat : n = IF c = buyer THEN restored ELSE 0
      OBVIOUS
    <3>2. PICK rest \in Nat, back \in Nat :
            /\ rest = Outstanding(before[c], o)
            /\ back = Marked(before[c].ledger, Entries("credit", {"refund"}, ids))
      BY WeightNat
    <3>3. Outstanding(after[c], o) = rest - n
      BY <3>1, <3>2
    <3>4. Marked(after[c].ledger, Entries("credit", {"refund"}, more)) = back + n
      <4>1. PICK kinds : kinds = {"refund"}
        OBVIOUS
      <4>2. Marked(mid[c].ledger, Entries("credit", kinds, more))
              = Marked(before[c].ledger, Entries("credit", kinds, ids)) + n
        BY <1>5, <3>1, <4>1
      <4> QED BY <1>6, <3>2, <4>1, <4>2
    <3>5. rest + back = Marked(before[c].ledger, Entries("debit", {"receipt"}, {o}))
      BY <3>2 DEF SpentStands
    <3>6. (rest - n) + (back + n) = rest + back
      OBVIOUS
    <3> QED BY <1>3, <3>3, <3>4, <3>5, <3>6
  <2> QED BY <2>1 DEF SpentStands
<1> QED BY <1>15, <1>16 DEF SaleSettled

-----------------------------------------------------------------------------
(* The steps of the points. *)

(***************************************************************************)
(* The sums over the refunds of a sale are numbers.                        *)
(***************************************************************************)
LEMMA RefundSums ==
  ASSUME Books, NEW id
  PROVE  /\ Refers(sales, id) = Reversals(id) /\ RefundsIn(sales, id) = Refunds(id)
         /\ IsFiniteSet(RefundsIn(sales, id)) /\ RefundsIn(sales, id) \subseteq DOMAIN sales
         /\ \A x \in DOMAIN sales : sales[x].net \in Nat /\ sales[x].short \in Nat
         /\ NetOfRefunds(sales, id) \in Nat /\ ShortOfRefunds(sales, id) \in Nat
<1>1. Refers(sales, id) = Reversals(id) /\ RefundsIn(sales, id) = Refunds(id)
  BY DEF Refers, Reversals, RefundsIn, Refunds
<1>2. \A x \in DOMAIN sales : sales[x].net \in Nat /\ sales[x].short \in Nat
  BY SaleTyped DEF SaleType
<1>3. PICK S \in SUBSET (DOMAIN sales) : S = RefundsIn(sales, id)
  BY DEF RefundsIn, Refers
<1>4. IsFiniteSet(S)
  BY FS_Subset DEF Books, SalesOK
<1>5. ASSUME NEW f, DOMAIN f = S, \A x \in S : f[x] \in Nat PROVE Total(f) \in Nat
  BY <1>4, <1>5, SumNat DEF Total
<1>6. NetOfRefunds(sales, id) \in Nat
  <2>1. PICK f : f = [x \in S |-> sales[x].net]
    OBVIOUS
  <2>2. Total(f) \in Nat
    BY <1>2, <1>5, <2>1
  <2> QED BY <1>3, <2>1, <2>2 DEF NetOfRefunds
<1>7. ShortOfRefunds(sales, id) \in Nat
  <2>1. PICK f : f = [x \in S |-> sales[x].short]
    OBVIOUS
  <2>2. Total(f) \in Nat
    BY <1>2, <1>5, <2>1
  <2> QED BY <1>3, <2>1, <2>2 DEF ShortOfRefunds
<1> QED BY <1>1, <1>2, <1>3, <1>4, <1>6, <1>7

(***************************************************************************)
(* One more refund adds its amount, and what it left short, to the sums.   *)
(***************************************************************************)
LEMMA OneMoreRefund ==
  ASSUME NEW table, NEW later, NEW o, NEW S, S = RefundsIn(table, o), IsFiniteSet(S),
         NEW x, x \notin S, RefundsIn(later, o) = S \cup {x},
         \A y \in S : /\ table[y].net \in Nat /\ table[y].short \in Nat
                      /\ later[y].net = table[y].net /\ later[y].short = table[y].short,
         later[x].net \in Nat, later[x].short \in Nat
  PROVE  /\ NetOfRefunds(later, o) = NetOfRefunds(table, o) + later[x].net
         /\ ShortOfRefunds(later, o) = ShortOfRefunds(table, o) + later[x].short
<1>1. ASSUME NEW f, NEW g, DOMAIN f = S, DOMAIN g = S \cup {x}, g[x] \in Nat,
             \A y \in S : f[y] \in Nat /\ g[y] = f[y]
      PROVE  Total(g) = Total(f) + g[x]
  <2>1. SumOver(g, S) = SumOver(f, S)
    BY <1>1, SumSame
  <2>2. \A y \in S : g[y] \in Nat
    BY <1>1
  <2>3. SumOver(g, S \cup {x}) = g[x] + SumOver(g, S)
    BY <1>1, <2>2, OneMoreNet
  <2>4. SumOver(g, S) \in Nat
    BY <2>2, SumNat
  <2> QED BY <1>1, <2>1, <2>3, <2>4 DEF Total
<1>2. NetOfRefunds(later, o) = NetOfRefunds(table, o) + later[x].net
  <2>1. PICK f, g : f = [y \in S |-> table[y].net] /\ g = [y \in S \cup {x} |-> later[y].net]
    OBVIOUS
  <2>2. /\ DOMAIN f = S /\ DOMAIN g = S \cup {x} /\ g[x] = later[x].net
        /\ \A y \in S : f[y] \in Nat /\ g[y] = f[y]
    BY <2>1
  <2>3. Total(g) = Total(f) + later[x].net
    BY <1>1, <2>2
  <2> QED BY <2>1, <2>3 DEF NetOfRefunds
<1>3. ShortOfRefunds(later, o) = ShortOfRefunds(table, o) + later[x].short
  <2>1. PICK f, g : f = [y \in S |-> table[y].short] /\ g = [y \in S \cup {x} |-> later[y].short]
    OBVIOUS
  <2>2. /\ DOMAIN f = S /\ DOMAIN g = S \cup {x} /\ g[x] = later[x].short
        /\ \A y \in S : f[y] \in Nat /\ g[y] = f[y]
    BY <2>1
  <2>3. Total(g) = Total(f) + later[x].short
    BY <1>1, <2>2
  <2> QED BY <2>1, <2>3 DEF ShortOfRefunds
<1> QED BY <1>2, <1>3

(***************************************************************************)
(* What the points' steps use of the accounts and the sales.               *)
(***************************************************************************)
LEMMA PointsFacts ==
  ASSUME Books, Points
  PROVE  /\ Ledgers(account) /\ RowsNamed(account, sales) /\ NoSale \notin DOMAIN sales
         /\ \A id \in DOMAIN sales : sales[id].source = "pos" => SaleSettled(account, sales, id)
<1>1. Ledgers(account)
  BY BooksFacts DEF Ledgers, AccountOK, IsAccount
<1>2. NoSale \notin DOMAIN sales
  BY SaleTyped
<1> QED BY <1>1, <1>2 DEF Points, Settled

(***************************************************************************)
(* A lot stays credited while its account's ledger grows.                  *)
(***************************************************************************)
LEMMA StillCredited ==
  ASSUME NEW a, NEW b, Longer(a.ledger, b.ledger), NEW t, LotCredited(a, t)
  PROVE  LotCredited(b, t)
<1>1. PICK i \in 1..Len(a.ledger) :
        LET r == a.ledger[i] IN r.at = t /\ r.op = "credit" /\ r.src \in {"receipt", "referral"}
  BY DEF LotCredited
<1>2. Len(a.ledger) \in Nat /\ Len(b.ledger) \in Nat /\ Len(a.ledger) <= Len(b.ledger)
  BY DEF Longer
<1>3. i \in 1..Len(b.ledger) /\ b.ledger[i] = a.ledger[i]
  BY <1>2 DEF Longer
<1> QED BY <1>1, <1>3 DEF LotCredited

LEMMA LotsStayCredited ==
  ASSUME NEW before, NEW after, LotsCredited(before),
         \A c \in Customers : /\ Longer(before[c].ledger, after[c].ledger)
                              /\ \A t \in DOMAIN after[c].lots :
                                   t \in DOMAIN before[c].lots \/ LotCredited(after[c], t)
  PROVE  LotsCredited(after)
<1>1. ASSUME NEW c \in Customers, NEW t \in DOMAIN after[c].lots \ {0} PROVE LotCredited(after[c], t)
  <2>1. CASE t \in DOMAIN before[c].lots
    <3>1. PICK a, b : a = before[c] /\ b = after[c]
      OBVIOUS
    <3>2. Longer(a.ledger, b.ledger) /\ LotCredited(a, t)
      BY <1>1, <2>1, <3>1 DEF LotsCredited
    <3>3. LotCredited(b, t)
      BY <3>2, StillCredited
    <3> QED BY <3>1, <3>3
  <2>2. CASE t \notin DOMAIN before[c].lots
    BY <1>1, <2>2
  <2> QED BY <2>1, <2>2
<1> QED BY <1>1 DEF LotsCredited

(***************************************************************************)
(* The end of a request leaves the others refunding receipts.              *)
(***************************************************************************)
LEMMA OthersRefundReceipts ==
  ASSUME Books, RefundsOfReceipts, NEW s \in Slots, Finish(s),
         \A id \in DOMAIN sales : sales'[id].source = sales[id].source
  PROVE  RefundsOfReceipts'
<1>1. ASSUME NEW u \in Slots, req'[u].kind = "refund" PROVE sales'[req'[u].what.original].source = "pos"
  <2>1. u # s /\ req'[u] = req[u]
    BY <1>1, BooksFacts DEF Finish, Idle
  <2>2. req[u].what.original \in DOMAIN sales
    BY <1>1, <2>1, BooksFacts DEF RequestOK
  <2>3. sales[req[u].what.original].source = "pos"
    BY <1>1, <2>1 DEF RefundsOfReceipts
  <2> QED BY <2>1, <2>2, <2>3
<1> QED BY <1>1 DEF RefundsOfReceipts

(***************************************************************************)
(* The steps that touch neither accounts nor sales.                        *)
(***************************************************************************)
LEMMA QuietPoints ==
  ASSUME Points, UNCHANGED <<account, sales>>,
         \A u \in Slots : req'[u].kind = "refund" =>
           \/ req[u].kind = "refund" /\ req'[u].what = req[u].what
           \/ sales[req'[u].what.original].source = "pos"
           \/ RefundReversals
  PROVE  Points'
<1>1. Settled(account, sales)'
  <2>1. PICK a, t : a = account /\ t = sales
    OBVIOUS
  <2>2. account' = a /\ sales' = t /\ Settled(a, t)
    BY <2>1 DEF Points
  <2> QED BY <2>2
<1>2. ASSUME ~RefundReversals PROVE LotsCredited(account)' /\ RefundsOfReceipts'
  <2>1. LotsCredited(account) /\ RefundsOfReceipts
    BY <1>2 DEF Points
  <2>2. LotsCredited(account)'
    <3>1. PICK a : a = account
      OBVIOUS
    <3>2. account' = a /\ LotsCredited(a)
      BY <2>1, <3>1
    <3> QED BY <3>2
  <2>3. RefundsOfReceipts'
    BY <1>2, <2>1 DEF RefundsOfReceipts
  <2> QED BY <2>2, <2>3
<1> QED BY <1>1, <1>2 DEF Points

LEMMA QuietStepsKeepPoints ==
  ASSUME Books, Points,
         \/ \E s \in Slots, r \in PosReceipts : IngestBegin(s, r)
         \/ \E s \in Slots : IngestCount(s)
         \/ \E s \in Slots, id \in DOMAIN sales, ext \in RefundIds :
              \E amount \in 1..sales[id].net : RefundBegin(s, id, ext, amount)
         \/ \E s \in Slots, k \in DOMAIN rewards : PayBegin(s, k)
         \/ \E c \in Customers : DeleteCustomer(c)
         \/ \E s \in Slots : Abort(s)
         \/ Tick
         \/ UNCHANGED vars
  PROVE  Points'
<1>1. UNCHANGED <<account, sales>>
  BY DEF IngestBegin, IngestCount, RefundBegin, PayBegin, DeleteCustomer, Abort, Tick, vars
<1>2. DOMAIN req = Slots
  BY BooksFacts
<1> DEFINE Stay(u) == req'[u].kind = "refund" =>
                        \/ req[u].kind = "refund" /\ req'[u].what = req[u].what
                        \/ sales[req'[u].what.original].source = "pos"
                        \/ RefundReversals
<1>3. ASSUME NEW s \in Slots, NEW r \in PosReceipts, IngestBegin(s, r), NEW u \in Slots PROVE Stay(u)
  <2>1. req' = [req EXCEPT ![s] = [kind |-> "ingest", what |-> r, at |-> Now, saw |-> Never]]
    BY <1>3 DEF IngestBegin, Begin
  <2> QED BY <1>2, <2>1
<1>4. ASSUME NEW s \in Slots, IngestCount(s), NEW u \in Slots PROVE Stay(u)
  <2>1. /\ req[s].kind = "ingest" /\ DOMAIN req' = Slots
        /\ \A v \in Slots : req'[v].kind = req[v].kind /\ req'[v].what = req[v].what
    <3>1. PICK n : n = Cardinality(Counted)
      OBVIOUS
    <3>2. req[s].kind = "ingest" /\ req' = [req EXCEPT ![s].saw = n]
      BY <1>4, <3>1 DEF IngestCount
    <3>3. req'[s] = [req[s] EXCEPT !.saw = n] /\ \A v \in Slots : v # s => req'[v] = req[v]
      BY <1>2, <3>2
    <3>4. req'[s].kind = req[s].kind /\ req'[s].what = req[s].what
      BY <3>3
    <3> QED BY <1>2, <3>2, <3>3, <3>4
  <2> QED BY <2>1
<1>5. ASSUME NEW s \in Slots, NEW id \in DOMAIN sales, NEW ext \in RefundIds, NEW amount,
             RefundBegin(s, id, ext, amount), NEW u \in Slots
      PROVE  Stay(u)
  <2>1. PICK what : what = [original |-> id, ext |-> ext, amount |-> amount]
    OBVIOUS
  <2>2. req' = [req EXCEPT ![s] = [kind |-> "refund", what |-> what, at |-> Now, saw |-> Never]]
    BY <1>5, <2>1 DEF RefundBegin, Begin
  <2>3. what.original = id /\ (sales[id].source = "pos" \/ RefundReversals)
    <3>1. sales[id].source \in {"pos", "refund"}
      BY SaleTyped DEF SaleType
    <3> QED BY <1>5, <2>1, <3>1 DEF RefundBegin
  <2>4. CASE u = s
    BY <1>2, <2>2, <2>3, <2>4
  <2>5. CASE u # s
    BY <1>2, <2>2, <2>5
  <2> QED BY <2>4, <2>5
<1>6. ASSUME NEW s \in Slots, NEW k \in DOMAIN rewards, PayBegin(s, k), NEW u \in Slots PROVE Stay(u)
  <2>1. req' = [req EXCEPT ![s] = [kind |-> "pay", what |-> k, at |-> clock, saw |-> Never]]
    BY <1>6 DEF PayBegin
  <2> QED BY <1>2, <2>1
<1>7. ASSUME NEW s \in Slots, Abort(s), NEW u \in Slots PROVE Stay(u)
  <2>1. req' = [req EXCEPT ![s] = Idle] /\ Idle.kind = "idle"
    BY <1>7 DEF Abort, Finish, Idle
  <2> QED BY <1>2, <2>1
<1>8. ASSUME (\E c \in Customers : DeleteCustomer(c)) \/ Tick \/ UNCHANGED vars, NEW u \in Slots
      PROVE  Stay(u)
  BY <1>8 DEF DeleteCustomer, Tick, vars
<1>9. \A u \in Slots : Stay(u)
  <2> HIDE DEF Stay
  <2> QED BY <1>3, <1>4, <1>5, <1>6, <1>7, <1>8
<1> QED BY <1>1, <1>9, QuietPoints

-----------------------------------------------------------------------------
(* A payment and a receipt. *)

(***************************************************************************)
(* The account after a payment: at most a row that names no sale.          *)
(***************************************************************************)
LEMMA PaidWrites ==
  ASSUME clock \in Time, NEW a, AccountOK(a), NEW k, k[1] \in Friends, RewardValue(k[2]) > 0,
         NEW at \in Time, NEW b, b = Paid(a, k, at)
  PROVE  /\ NamedRows(a, b, {"referral"}, NoSale)
         /\ \A id : Outstanding(b, id) = Outstanding(a, id)
         /\ \A t \in DOMAIN b.lots : t \in DOMAIN a.lots \/ LotCredited(b, t)
<1>1. a.ledger \in Seq(RowType) /\ Len(a.ledger) \in Nat
  BY AccountFacts
<1>2. CASE HasRow(a, "referral", k[1])
  <2>1. b = a
    BY <1>2 DEF Paid
  <2> QED BY <1>1, <2>1, NamedNone
<1>3. CASE ~HasRow(a, "referral", k[1])
  <2>1. PICK amount \in Nat \ {0} : amount = RewardValue(k[2])
    BY ValueIsNat
  <2>2. PICK row : row = Row("referral", NoSale, k[1], at)
    OBVIOUS
  <2>3. RowFields(row) /\ row.at = at /\ row.src = "referral" /\ row.ref = NoSale
    BY <2>2 DEF Row, RowFields
  <2>4. b = Credit(a, amount, row)
    BY <1>3, <2>1, <2>2 DEF Paid
  <2>5. /\ Wrote(a, b, "credit", amount, row)
        /\ DOMAIN b.lots = DOMAIN a.lots \cup {row.at}
        /\ \A id : Outstanding(b, id) = Outstanding(a, id)
    BY <2>3, <2>4, CreditWrites
  <2>6. NamedRows(a, b, {"referral"}, NoSale)
    <3>1. NamedRows(a, b, {row.src}, row.ref)
      BY <1>1, <2>5, WroteNamed
    <3> QED BY <2>3, <3>1
  <2>7. LotCredited(b, at)
    <3>1. PICK n \in Nat : n = Len(a.ledger) + 1
      BY <1>1
    <3>2. b.ledger \in Seq(RowType) /\ Len(b.ledger) = n
      BY <1>1, <2>5, <3>1, WroteNamed
    <3>3. b.ledger[n].op = "credit" /\ b.ledger[n].src = "referral" /\ b.ledger[n].at = at
      <4>1. PICK l \in Seq(RowType), r \in RowType :
              /\ l = a.ledger /\ b.ledger = Append(l, r)
              /\ r.op = "credit" /\ r.src = row.src /\ r.at = row.at
        BY <1>1, <2>5 DEF Wrote
      <4>2. b.ledger[n] = r
        BY <3>1, <4>1
      <4> QED BY <2>3, <4>1, <4>2
    <3>4. n \in 1..Len(b.ledger)
      BY <1>1, <3>1, <3>2
    <3> QED BY <3>3, <3>4 DEF LotCredited
  <2> QED BY <2>3, <2>5, <2>6, <2>7
<1> QED BY <1>2, <1>3

(***************************************************************************)
(* A payment leaves every sale settled.                                    *)
(***************************************************************************)
LEMMA PayKeepsPoints ==
  ASSUME Books, Books', Points, NEW s \in Slots, PayCommit(s)
  PROVE  Points'
<1>1. PICK k, at, c : k = req[s].what /\ at = clock' /\ c = Beneficiary(k)
  OBVIOUS
<1>2. k \in DOMAIN rewards /\ k[1] \in Friends /\ c \in Customers /\ at \in Time
  BY <1>1, PayAccounts
<1>3. /\ account' = [account EXCEPT ![c] = Paid(@, k, at)]
      /\ Finish(s) /\ sales' = sales
  BY <1>1 DEF PayCommit
<1>4. /\ clock \in Time /\ DOMAIN account = Customers /\ RewardValue(k[2]) > 0
      /\ \A d \in Customers : AccountOK(account[d])
  BY <1>2, BooksFacts
<1>5. PICK before, after, table : before = account /\ after = account' /\ table = sales
  OBVIOUS
<1>6. /\ Ledgers(before) /\ RowsNamed(before, table) /\ NoSale \notin DOMAIN table
      /\ \A id \in DOMAIN table : table[id].source = "pos" => SaleSettled(before, table, id)
  BY <1>5, PointsFacts
<1>7. Ledgers(after)
  BY <1>5 DEF Books, Ledgers, AccountOK, IsAccount
<1>8. ASSUME NEW d \in Customers
      PROVE  /\ NamedRows(before[d], after[d], {"referral"}, NoSale)
             /\ \A id : Outstanding(after[d], id) = Outstanding(before[d], id)
             /\ \A t \in DOMAIN after[d].lots : t \in DOMAIN before[d].lots \/ LotCredited(after[d], t)
  <2>1. PICK a, b : a = before[d] /\ b = after[d]
    OBVIOUS
  <2>2. AccountOK(a) /\ a.ledger \in Seq(RowType)
    BY <1>4, <1>5, <2>1, AccountFacts
  <2>3. CASE d = c
    <3>1. b = Paid(a, k, at)
      BY <1>2, <1>3, <1>4, <1>5, <2>1, <2>3
    <3>2. /\ NamedRows(a, b, {"referral"}, NoSale)
          /\ \A id : Outstanding(b, id) = Outstanding(a, id)
          /\ \A t \in DOMAIN b.lots : t \in DOMAIN a.lots \/ LotCredited(b, t)
      BY <1>2, <1>4, <2>2, <3>1, PaidWrites
    <3> QED BY <2>1, <3>2
  <2>4. CASE d # c
    <3>1. b = a
      BY <1>3, <1>4, <1>5, <2>1, <2>4
    <3>2. NamedRows(a, b, {"referral"}, NoSale)
      BY <2>2, <3>1, NamedNone
    <3> QED BY <2>1, <3>1, <3>2
  <2> QED BY <2>3, <2>4
<1>9. RowsNamed(after, table)
  <2>1. \A d \in Customers : Longer(before[d].ledger, after[d].ledger)
    BY <1>8 DEF NamedRows
  <2>2. ASSUME NEW d \in Customers, NEW i \in 1..Len(after[d].ledger), i > Len(before[d].ledger)
        PROVE  RowNamed(d, after[d].ledger[i], table)
    <3>1. after[d].ledger[i].src = "referral" /\ after[d].ledger[i].ref = NoSale
      BY <1>8, <2>2 DEF NamedRows
    <3> QED BY <1>6, <3>1 DEF RowNamed
  <2> QED BY <1>6, <2>1, <2>2, RowsStayNamed
<1>10. ASSUME NEW id \in DOMAIN table, table[id].source = "pos" PROVE SaleSettled(after, table, id)
  <2>1. ShortOfRefunds(table, id) \in Nat
    BY <1>5, RefundSums
  <2>2. PICK x, srcs : x = NoSale /\ srcs = {"referral"}
    OBVIOUS
  <2>3. \A d \in Customers : NamedRows(before[d], after[d], srcs, x)
    BY <1>8, <2>2
  <2>4. \A d \in Customers : Outstanding(after[d], id) = Outstanding(before[d], id)
    BY <1>8
  <2>5. x # id /\ "refund" \notin srcs
    BY <1>6, <2>2
  <2>6. SaleSettled(before, table, id)
    BY <1>6, <1>10
  <2> QED BY <1>6, <1>7, <2>1, <2>3, <2>4, <2>5, <2>6, SaleUntouched
<1>11. Settled(after, table)
  BY <1>9, <1>10 DEF Settled
<1>12. ASSUME ~RefundReversals PROVE LotsCredited(after) /\ RefundsOfReceipts'
  <2>1. LotsCredited(before) /\ RefundsOfReceipts
    BY <1>5, <1>12 DEF Points
  <2>2. \A d \in Customers : /\ Longer(before[d].ledger, after[d].ledger)
                             /\ \A t \in DOMAIN after[d].lots :
                                  t \in DOMAIN before[d].lots \/ LotCredited(after[d], t)
    BY <1>8 DEF NamedRows
  <2>3. LotsCredited(after)
    BY <2>1, <2>2, LotsStayCredited
  <2>4. RefundsOfReceipts'
    BY <1>3, <2>1, OthersRefundReceipts
  <2> QED BY <2>3, <2>4
<1>13. Settled(account, sales)'
  BY <1>3, <1>5, <1>11
<1>14. ~RefundReversals => LotsCredited(account)' /\ RefundsOfReceipts'
  BY <1>5, <1>12
<1> QED BY <1>13, <1>14 DEF Points

(***************************************************************************)
(* A receipt is settled when it is written, and leaves the others so.      *)
(***************************************************************************)
LEMMA IngestKeepsPoints ==
  ASSUME Books, Books', Points, NEW s \in Slots, IngestCommit(s)
  PROVE  Points'
<1>1. PICK r, at, c, x : r = req[s].what /\ at = req[s].at /\ c = r.customer /\ x = r.ext
  OBVIOUS
<1>2. r \in PosReceipts
  BY <1>1, IngestAccounts
<1>3. /\ x \in SaleIds /\ x # NoSale /\ c \in Customers /\ r.net \in Nat /\ r.spent \in Nat
  BY <1>1, <1>2, ReceiptTyped
<1>4. PICK sale : sale = [customer |-> c, net |-> r.net, status |-> r.status, source |-> "pos",
                          original |-> IF r.original \in DOMAIN sales THEN r.original ELSE NoSale,
                          visit |-> IF Loyal(r) THEN "counted" ELSE "none", short |-> 0]
  OBVIOUS
<1>5. /\ x \notin DOMAIN sales /\ Finish(s)
      /\ Loyal(r) => PurchaseAllowed(account[c], r, at)
      /\ account' = IF Loyal(r) THEN [account EXCEPT ![c] = Purchase(@, r, at)] ELSE account
      /\ sales' = InsertSale(x, sale)
  BY <1>1, <1>4 DEF IngestCommit
<1>6. /\ sale.customer = c /\ sale.net = r.net /\ sale.source = "pos"
      /\ sale.original \in DOMAIN sales \cup {NoSale}
  BY <1>4
<1>7. /\ clock \in Time /\ at \in Time /\ DOMAIN account = Customers
      /\ \A d \in Customers : AccountOK(account[d])
  BY <1>1, BooksFacts
<1>8. PICK before, after, table, later :
        before = account /\ after = account' /\ table = sales /\ later = sales'
  OBVIOUS
<1>9. /\ Ledgers(before) /\ RowsNamed(before, table) /\ NoSale \notin DOMAIN table
      /\ \A id \in DOMAIN table : table[id].source = "pos" => SaleSettled(before, table, id)
  BY <1>8, PointsFacts
<1>10. Ledgers(after)
  BY <1>8 DEF Books, Ledgers, AccountOK, IsAccount
<1>11. /\ DOMAIN later = DOMAIN table \cup {x} /\ later[x] = sale /\ x \notin DOMAIN table
       /\ \A id \in DOMAIN table : later[id] = table[id]
  BY <1>5, <1>8 DEF InsertSale
<1>12. \A id \in DOMAIN table : table[id].original \in DOMAIN table \cup {NoSale}
  BY <1>8, SaleTyped
<1>13. PICK spent \in Nat : spent = IF Loyal(r) THEN r.spent ELSE 0
  BY <1>3
<1>14. ASSUME NEW d \in Customers
       PROVE  /\ NamedRows(before[d], after[d], {"receipt"}, x)
              /\ Marked(after[d].ledger, Entries("debit", {"receipt"}, {x})) =
                   Marked(before[d].ledger, Entries("debit", {"receipt"}, {x}))
                     + (IF d = c THEN spent ELSE 0)
              /\ \A id : Outstanding(after[d], id) =
                   Outstanding(before[d], id) + (IF d = c /\ x = id THEN spent ELSE 0)
              /\ \A t \in DOMAIN after[d].lots : t \in DOMAIN before[d].lots \/ LotCredited(after[d], t)
              /\ d # c => after[d] = before[d]
  <2>1. PICK a, b, one : a = before[d] /\ b = after[d] /\ one = {x}
    OBVIOUS
  <2>2. /\ AccountOK(a) /\ a.ledger \in Seq(RowType) /\ \A id : Outstanding(a, id) \in Nat
    BY <1>7, <1>8, <2>1, AccountFacts
  <2>3. CASE d = c /\ Loyal(r)
    <3>1. b = Purchase(a, r, at) /\ PurchaseAllowed(a, r, at)
      BY <1>3, <1>5, <1>7, <1>8, <2>1, <2>3
    <3>2. NamedRows(a, b, {"receipt"}, x)
      BY <1>1, <1>2, <1>7, <2>2, <3>1, PurchaseWrites
    <3>3. \A id : Outstanding(b, id) = Outstanding(a, id) + (IF x = id THEN r.spent ELSE 0)
      BY <1>1, <1>2, <1>7, <2>2, <3>1, PurchaseWrites
    <3>4. Marked(b.ledger, Entries("debit", {"receipt"}, one)) =
            Marked(a.ledger, Entries("debit", {"receipt"}, one)) + (IF x \in one THEN r.spent ELSE 0)
      BY <1>1, <1>2, <1>7, <2>2, <3>1, PurchaseWrites
    <3>5. \A t \in DOMAIN b.lots : t \in DOMAIN a.lots \/ LotCredited(b, t)
      BY <1>1, <1>2, <1>7, <2>2, <3>1, PurchaseWrites
    <3>6. Marked(b.ledger, Entries("debit", {"receipt"}, one)) =
            Marked(a.ledger, Entries("debit", {"receipt"}, one)) + spent
      BY <1>13, <2>1, <2>3, <3>4
    <3> QED BY <1>13, <2>1, <2>3, <3>2, <3>3, <3>5, <3>6
  <2>4. CASE ~(d = c /\ Loyal(r))
    <3>1. b = a
      BY <1>3, <1>5, <1>7, <1>8, <2>1, <2>4
    <3>2. NamedRows(a, b, {"receipt"}, x)
      BY <2>2, <3>1, NamedNone
    <3>3. d = c => spent = 0
      BY <1>13, <2>4
    <3>4. Marked(a.ledger, Entries("debit", {"receipt"}, one)) \in Nat
      BY <2>2, MarkedNat
    <3>5. Marked(b.ledger, Entries("debit", {"receipt"}, one)) =
            Marked(a.ledger, Entries("debit", {"receipt"}, one)) + (IF d = c THEN spent ELSE 0)
      BY <3>1, <3>3, <3>4
    <3>6. \A id : Outstanding(b, id) = Outstanding(a, id) + (IF d = c /\ x = id THEN spent ELSE 0)
      BY <2>2, <3>1, <3>3
    <3> QED BY <2>1, <3>1, <3>2, <3>5, <3>6
  <2> QED BY <2>3, <2>4
<1>15. RowsNamed(after, later)
  <2>1. \A d \in Customers : Longer(before[d].ledger, after[d].ledger)
    BY <1>14 DEF NamedRows
  <2>2. ASSUME NEW d \in Customers, NEW i \in 1..Len(after[d].ledger), i > Len(before[d].ledger)
        PROVE  RowNamed(d, after[d].ledger[i], later)
    <3>1. after[d].ledger[i].src = "receipt" /\ after[d].ledger[i].ref = x
      BY <1>14, <2>2 DEF NamedRows
    <3>2. d = c
      <4>1. CASE d # c
        <5>1. after[d] = before[d] /\ Len(before[d].ledger) \in Nat
          BY <1>9, <1>14, <4>1 DEF Ledgers
        <5> QED BY <2>2, <5>1
      <4> QED BY <4>1
    <3> QED BY <1>6, <1>11, <3>1, <3>2 DEF RowNamed
  <2>3. NoSale \notin DOMAIN later /\ DOMAIN table \subseteq DOMAIN later
    BY <1>3, <1>9, <1>11
  <2>4. \A id \in DOMAIN table : later[id].source = table[id].source /\ later[id].customer = table[id].customer
    BY <1>11
  <2> QED BY <1>9, <2>1, <2>2, <2>3, <2>4, RowsStayNamed
<1>16. ASSUME NEW id \in DOMAIN table, table[id].source = "pos" PROVE SaleSettled(after, later, id)
  <2>1. ShortOfRefunds(table, id) \in Nat
    BY <1>8, RefundSums
  <2>2. PICK srcs : srcs = {"receipt"}
    OBVIOUS
  <2>3. \A d \in Customers : NamedRows(before[d], after[d], srcs, x)
    BY <1>14, <2>2
  <2>4. x # id /\ "refund" \notin srcs
    BY <1>11, <2>2
  <2>5. \A d \in Customers : Outstanding(after[d], id) = Outstanding(before[d], id)
    <3>1. \A d \in Customers : Outstanding(before[d], id) \in Nat
      BY <1>7, <1>8, AccountFacts
    <3>2. \A d \in Customers : Outstanding(after[d], id) = Outstanding(before[d], id) + 0
      BY <1>14, <2>4
    <3> QED BY <3>1, <3>2
  <2>6. SaleSettled(before, table, id)
    BY <1>9, <1>16
  <2>7. /\ Refers(table, id) \subseteq Refers(later, id)
        /\ \A y \in Refers(later, id) : y \in Refers(table, id) \/ y \notin DOMAIN table \cup {NoSale}
    BY <1>3, <1>11 DEF Refers
  <2>8. RefundsIn(later, id) = RefundsIn(table, id)
    BY <1>6, <1>11 DEF Refers, RefundsIn
  <2>9. \A y \in RefundsIn(table, id) : later[y].net = table[y].net /\ later[y].short = table[y].short
    BY <1>11 DEF Refers, RefundsIn
  <2>10. later[id].status = table[id].status /\ later[id].net = table[id].net
    BY <1>11
  <2> QED BY <1>9, <1>10, <2>1, <2>3, <2>4, <2>5, <2>6, <2>7, <2>8, <2>9, <2>10, SaleUntouched
<1>17. SaleSettled(after, later, x)
  <2>1. Refers(later, x) = {}
    BY <1>3, <1>6, <1>8, <1>11, <1>12 DEF Refers
  <2>2. later[x].net \in Nat
    BY <1>3, <1>6, <1>11
  <2>3. \A d \in Customers : Outstanding(before[d], x) = 0
    <3>1. ASSUME NEW d \in Customers PROVE Outstanding(before[d], x) = 0
      <4>1. PICK a : a = before[d]
        OBVIOUS
      <4>2. /\ \A p \in DOMAIN a.redemptions : p[2] \in 1..Len(a.ledger)
        BY <1>7, <1>8, <4>1, AccountFacts
      <4>3. \A i \in 1..Len(a.ledger) : a.ledger[i].ref # x
        BY <1>3, <1>9, <1>11, <4>1 DEF RowsNamed, RowNamed
      <4>4. OutstandingRows(a, x) = {}
        BY <4>2, <4>3 DEF OutstandingRows
      <4> QED BY <4>1, <4>4, SumEmpty DEF Outstanding
    <3> QED BY <3>1
  <2>4. \A d \in Customers : Outstanding(after[d], x)
          = Outstanding(before[d], x) + (IF d = c THEN spent ELSE 0)
    BY <1>14
  <2>5. \A d \in Customers : Marked(after[d].ledger, Entries("debit", {"receipt"}, {x}))
          = Marked(before[d].ledger, Entries("debit", {"receipt"}, {x})) + (IF d = c THEN spent ELSE 0)
    BY <1>14
  <2> QED BY <1>3, <1>9, <1>10, <1>11, <2>1, <2>2, <2>3, <2>4, <2>5, SaleFresh
<1>18. Settled(after, later)
  BY <1>11, <1>15, <1>16, <1>17 DEF Settled
<1>19. ASSUME ~RefundReversals PROVE LotsCredited(after) /\ RefundsOfReceipts'
  <2>1. LotsCredited(before) /\ RefundsOfReceipts
    BY <1>8, <1>19 DEF Points
  <2>2. \A d \in Customers : /\ Longer(before[d].ledger, after[d].ledger)
                             /\ \A t \in DOMAIN after[d].lots :
                                  t \in DOMAIN before[d].lots \/ LotCredited(after[d], t)
    BY <1>14 DEF NamedRows
  <2>3. LotsCredited(after)
    BY <2>1, <2>2, LotsStayCredited
  <2>4. \A id \in DOMAIN sales : sales'[id].source = sales[id].source
    BY <1>8, <1>11
  <2>5. RefundsOfReceipts'
    BY <1>5, <2>1, <2>4, OthersRefundReceipts
  <2> QED BY <2>3, <2>5
<1>20. Settled(account, sales)'
  BY <1>8, <1>18
<1>21. ~RefundReversals => LotsCredited(account)' /\ RefundsOfReceipts'
  BY <1>8, <1>19
<1> QED BY <1>20, <1>21 DEF Points

-----------------------------------------------------------------------------
(* A refund. *)

(***************************************************************************)
(* An account owes every other sale what it did.                           *)
(***************************************************************************)
OthersStand(a, b, x) == \A id : id # x => Outstanding(b, id) = Outstanding(a, id)

(***************************************************************************)
(* Taking the rewards of a disqualified referral back writes rows that     *)
(* name the refund, and redeems nothing for a receipt.                     *)
(***************************************************************************)
LEMMA RecoverAllWrites ==
  ASSUME clock \in Time, NEW accounts, \A d \in Customers : AccountOK(accounts[d]),
         NEW out \in SUBSET Friends, NEW refund \in RefundIds, NEW at \in Time,
         \A f \in out : /\ CanRecover(accounts[f], <<f, "friend">>, f, at)
                        /\ CanRecover(accounts[Referrer], <<f, "referrer">>, Referrer, at),
         NEW d \in Customers, NEW b, b = RecoverAll(accounts, out, refund, at)[d]
  PROVE  /\ NamedRows(accounts[d], b, {"referral_reversal"}, refund)
         /\ OthersStand(accounts[d], b, refund)
<1>1. PICK m : m = accounts[d]
  OBVIOUS
<1>2. Referrer \notin Friends
  BY ReceiptsAssumption
<1>3. ASSUME NEW f \in out, d \in {f, Referrer}, b = Recover(m, RewardOf(d, f), refund, at)
      PROVE  /\ NamedRows(m, b, {"referral_reversal"}, refund)
             /\ OthersStand(m, b, refund)
  <2>1. PICK k : k = RewardOf(d, f)
    OBVIOUS
  <2>2. k[1] = f /\ f \in Friends
    BY <2>1 DEF RewardOf
  <2>3. CanRecover(m, k, d, at)
    <3>1. CASE d = Referrer
      BY <1>1, <2>1, <3>1 DEF RewardOf
    <3>2. CASE d # Referrer
      BY <1>1, <1>3, <2>1, <3>2 DEF RewardOf
    <3> QED BY <3>1, <3>2
  <2>4. AccountOK(m)
    BY <1>1
  <2>5. Due(m, k) > 0 => LotsSuffice(m.lots, at, Due(m, k))
    BY <2>3, <2>4, DueBounded DEF CanRecover
  <2>6. b = Recover(m, k, refund, at) /\ k[1] \in Friends
    BY <1>3, <2>1, <2>2
  <2> QED BY <2>4, <2>5, <2>6, RecoverWrites DEF OthersStand
<1>4. CASE d \in out
  <2>1. b = Recover(m, RewardOf(d, d), refund, at)
    BY <1>1, <1>2, <1>4 DEF RecoverAll, RewardOf
  <2> QED BY <1>1, <1>3, <1>4, <2>1
<1>5. CASE d \notin out /\ d = Referrer /\ out # {}
  <2>1. PICK f \in out : b = Recover(m, RewardOf(d, f), refund, at)
    <3>1. PICK f \in out : f = CHOOSE g \in out : TRUE
      BY <1>5
    <3> QED BY <1>1, <1>5, <3>1 DEF RecoverAll, RewardOf
  <2> QED BY <1>1, <1>3, <1>5, <2>1
<1>6. CASE d \notin out /\ ~(d = Referrer /\ out # {})
  <2>1. b = m
    BY <1>1, <1>6 DEF RecoverAll
  <2>2. m.ledger \in Seq(RowType)
    BY <1>1, AccountFacts
  <2> QED BY <1>1, <2>1, <2>2, NamedNone DEF OthersStand
<1> QED BY <1>4, <1>5, <1>6

(***************************************************************************)
(* What Refund sums up over the ledgers is what the sale spent and earned, *)
(* and what its reversals gave and took back.                              *)
(***************************************************************************)
LEMMA SumsOfSale ==
  ASSUME Books, Points, NEW o \in DOMAIN sales, sales[o].source = "pos"
  PROVE  /\ LedgerSum("credit", {o}) = Earned(account, o)
         /\ LedgerSum("debit", {o}) = Spent(account, o)
         /\ LedgerSum("credit", Reversals(o)) = Redone(account, Refers(sales, o))
         /\ LedgerSum("debit", Reversals(o)) = Undone(account, Refers(sales, o))
<1>1. PICK a, t : a = account /\ t = sales
  OBVIOUS
<1>2. Ledgers(a) /\ RowsNamed(a, t) /\ o \in DOMAIN t /\ t[o].source = "pos"
  BY <1>1, PointsFacts
<1>3. ASSUME NEW op, NEW ids PROVE LedgerSum(op, ids) = Weight(a, Entries(op, Sources, ids))
  <2>1. LedgerSum(op, ids) = Weight(account, Entries(op, Sources, ids))
    BY <1>1, <1>2, LedgerSumIsWeight
  <2> QED BY <1>1, <2>1
<1>4. ASSUME NEW op PROVE LedgerSum(op, {o}) = Weight(a, Entries(op, {"receipt"}, {o}))
  <2>1. Weight(a, Entries(op, Sources, {o})) = Weight(a, Entries(op, {"receipt"}, {o}))
    BY <1>2, OwnRows
  <2> QED BY <1>3, <2>1
<1>5. Refers(sales, o) = Reversals(o)
  BY RefundSums
<1> QED BY <1>1, <1>3, <1>4, <1>5 DEF Earned, Spent, Redone, Undone

(***************************************************************************)
(* A refund leaves its sale settled, and the others too.                   *)
(***************************************************************************)
LEMMA RefundKeepsPoints ==
  ASSUME Books, Books', Points, NEW s \in Slots, RefundCommit(s)
  PROVE  Points'
<1>1. PICK r, at, o, c, left :
        /\ r = req[s].what /\ at = req[s].at /\ o = r.original
        /\ c = sales[r.original].customer /\ left = Remaining(r.original) - r.amount
  OBVIOUS
<1>2. PICK full \in BOOLEAN : full = (left = 0)
  OBVIOUS
<1>3. PICK status, out : /\ status = IF full THEN "refunded" ELSE "partially_refunded"
                         /\ out = Disqualified(r.original, left)
  OBVIOUS
<1>4. /\ req[s].kind = "refund" /\ o \in DOMAIN sales /\ r.ext \in RefundIds
      /\ r.amount \in Nat /\ r.ext \notin DOMAIN sales /\ c \in Customers /\ out \subseteq Friends
  BY <1>1, <1>2, <1>3, RefundFacts
<1>5. PICK wanted, restored, reversed, short, a :
        /\ RefundShares(r, at, account[c], sales[r.original].net, full,
                        wanted, restored, reversed, short, a)
        /\ Between([account EXCEPT ![c] = a], out, r.ext, at)
        /\ RefundWritten(r, c, status, full, short)
  <2>1. RefundPaid(r, at, c, full, status, out)
    BY <1>1, <1>2, <1>3, RefundFacts
  <2> QED BY <2>1 DEF RefundPaid
<1>6. PICK x, amount, net : x = r.ext /\ amount = r.amount /\ net = sales[o].net
  BY Zenon
<1>7. /\ amount \in Nat /\ x \in RefundIds /\ x # NoSale /\ x \notin DOMAIN sales /\ x # o
      /\ wanted \in Nat /\ restored \in Nat /\ reversed \in Nat /\ short \in Nat
      /\ wanted = reversed + short
  BY <1>4, <1>5, <1>6, ReceiptsAssumption DEF RefundShares
<1>8. /\ Finish(s) /\ sales[o].status # "refunded"
  BY <1>1 DEF RefundCommit
<1>9. /\ clock \in Time /\ at \in Time /\ DOMAIN account = Customers
      /\ (\A d \in Customers : AccountOK(account[d]))
      /\ net \in Nat \ {0} /\ at \notin DOMAIN account[c].lots
  <2>1. Writes(req[s])
    BY <1>4 DEF Writes
  <2>2. at \notin DOMAIN account[c].lots
    BY <1>1, <1>4, <2>1 DEF Books, StampsFresh
  <2>3. net \in Nat
    BY <1>4, <1>6, SaleTyped
  <2>4. r.amount \in 1..net
    BY <1>1, <1>4, <1>6, BooksFacts DEF RequestOK
  <2> QED BY <1>1, <2>2, <2>3, <2>4, BooksFacts
<1>10. PICK before, mid, after, table, later :
         /\ before = account /\ mid = [account EXCEPT ![c] = a] /\ after = account'
         /\ table = sales /\ later = sales'
  OBVIOUS
<1>11. /\ Ledgers(before) /\ RowsNamed(before, table) /\ NoSale \notin DOMAIN table
       /\ \A id \in DOMAIN table : table[id].source = "pos" => SaleSettled(before, table, id)
  BY <1>10, PointsFacts
<1>12. Ledgers(after)
  BY <1>10 DEF Books, Ledgers, AccountOK, IsAccount
<1>13. /\ mid[c] = a /\ (\A d \in Customers : d # c => mid[d] = before[d])
       /\ \A d \in Customers : AccountOK(mid[d])
  BY <1>4, <1>5, <1>9, <1>10 DEF Between
<1>14. Ledgers(mid)
  BY <1>13 DEF Ledgers, AccountOK, IsAccount
<1>15. /\ DOMAIN later = DOMAIN table \cup {x} /\ x \notin DOMAIN table /\ o \in DOMAIN table
       /\ later[x].net = amount /\ later[x].short = short /\ later[x].original = o
       /\ later[x].source = "refund"
       /\ (\A id \in DOMAIN table : id # o => later[id] = table[id])
       /\ later[o].net = table[o].net /\ later[o].short = table[o].short
       /\ later[o].source = table[o].source /\ later[o].customer = table[o].customer
       /\ later[o].original = table[o].original /\ later[o].status = status
  <2>1. PICK new : new = [customer |-> c, net |-> r.amount, status |-> status,
                          source |-> "refund", original |-> o, visit |-> "none", short |-> short]
    OBVIOUS
  <2>2. PICK big : big = InsertSale(x, new)
    OBVIOUS
  <2>3. /\ DOMAIN big = DOMAIN sales \cup {x} /\ big[x] = new
        /\ \A id \in DOMAIN sales : big[id] = sales[id]
    BY <1>7, <2>2 DEF InsertSale
  <2>4. PICK visit : visit = IF full /\ big[o].visit = "counted" THEN "reversed" ELSE big[o].visit
    OBVIOUS
  <2>5. sales' = [big EXCEPT ![o].status = status, ![o].visit = visit]
    BY <1>1, <1>5, <1>6, <2>1, <2>2, <2>4 DEF RefundWritten
  <2>6. /\ DOMAIN sales' = DOMAIN sales \cup {x} /\ sales'[x] = new
        /\ \A id \in DOMAIN sales : id # o => sales'[id] = sales[id]
        /\ sales'[o] = [sales[o] EXCEPT !.status = status, !.visit = visit]
    BY <1>4, <1>7, <2>3, <2>5
  <2>7. sales[o] \in SaleType
    BY <1>4, SaleTyped
  <2>8. /\ sales'[o].net = sales[o].net /\ sales'[o].short = sales[o].short
        /\ sales'[o].source = sales[o].source /\ sales'[o].customer = sales[o].customer
        /\ sales'[o].original = sales[o].original /\ sales'[o].status = status
    BY <2>6, <2>7 DEF SaleType
  <2>9. new.net = amount /\ new.short = short /\ new.original = o /\ new.source = "refund"
    BY <1>6, <2>1
  <2> QED BY <1>4, <1>7, <1>10, <2>6, <2>8, <2>9
<1>16. /\ NamedRows(before[c], a, {"refund"}, x)
       /\ \A kinds, ids : "refund" \in kinds =>
            /\ Marked(a.ledger, Entries("debit", kinds, ids)) =
                 Marked(before[c].ledger, Entries("debit", kinds, ids)) + (IF x \in ids THEN reversed ELSE 0)
            /\ Marked(a.ledger, Entries("credit", kinds, ids)) =
                 Marked(before[c].ledger, Entries("credit", kinds, ids)) + (IF x \in ids THEN restored ELSE 0)
       /\ \A id : id # x /\ id # o => Outstanding(a, id) = Outstanding(before[c], id)
       /\ restored <= Outstanding(before[c], o) =>
            /\ DOMAIN a.lots = DOMAIN before[c].lots
            /\ Outstanding(a, o) = Outstanding(before[c], o) - restored
  <2>1. PICK b : b = account[c]
    OBVIOUS
  <2>2. reversed <= b.points /\ (reversed > 0 => LotsSuffice(b.lots, at, reversed))
    BY SMTT(30), <1>5, <2>1 DEF RefundShares
  <2>3. a \in RefundedAccount(b, reversed, restored, o, Row("refund", x, Nobody, at))
    BY <1>1, <1>5, <1>6, <2>1 DEF RefundShares
  <2>4. AccountOK(b) /\ at \notin DOMAIN b.lots /\ o # x
    BY <1>4, <1>7, <1>9, <2>1
  <2>5. /\ NamedRows(b, a, {"refund"}, x)
        /\ \A kinds, ids : "refund" \in kinds =>
             /\ Marked(a.ledger, Entries("debit", kinds, ids)) =
                  Marked(b.ledger, Entries("debit", kinds, ids)) + (IF x \in ids THEN reversed ELSE 0)
             /\ Marked(a.ledger, Entries("credit", kinds, ids)) =
                  Marked(b.ledger, Entries("credit", kinds, ids)) + (IF x \in ids THEN restored ELSE 0)
        /\ \A id : id # x /\ id # o => Outstanding(a, id) = Outstanding(b, id)
        /\ restored <= Outstanding(b, o) =>
             /\ DOMAIN a.lots = DOMAIN b.lots
             /\ Outstanding(a, o) = Outstanding(b, o) - restored
    <3>1. /\ clock \in Time /\ AccountOK(b) /\ reversed \in Nat /\ reversed <= b.points
          /\ x \in RefundIds /\ at \in Time /\ (reversed > 0 => LotsSuffice(b.lots, at, reversed))
          /\ restored \in Nat /\ o # x /\ at \notin DOMAIN b.lots
          /\ a \in RefundedAccount(b, reversed, restored, o, Row("refund", x, Nobody, at))
      BY <1>7, <1>9, <2>2, <2>3, <2>4
    <3> QED BY <3>1, RefundWrites
  <2> QED BY <1>10, <2>1, <2>5
<1>17. ASSUME NEW d \in Customers
       PROVE  /\ NamedRows(mid[d], after[d], {"referral_reversal"}, x)
              /\ \A id : id # x => Outstanding(after[d], id) = Outstanding(mid[d], id)
              /\ DOMAIN after[d].lots = DOMAIN mid[d].lots
  <2>1. PICK b : b = after[d]
    OBVIOUS
  <2>2. b = RecoverAll(mid, out, x, at)[d]
    BY <1>5, <1>6, <1>10, <2>1 DEF Between
  <2>3. \A f \in out : /\ CanRecover(mid[f], <<f, "friend">>, f, at)
                       /\ CanRecover(mid[Referrer], <<f, "referrer">>, Referrer, at)
    BY <1>5, <1>10 DEF Between
  <2>4. out \in SUBSET Friends
    BY <1>4
  <2>5. /\ NamedRows(mid[d], b, {"referral_reversal"}, x)
        /\ \A id : id # x => Outstanding(b, id) = Outstanding(mid[d], id)
    <3>1. clock \in Time /\ at \in Time /\ x \in RefundIds /\ \A e \in Customers : AccountOK(mid[e])
      BY <1>7, <1>9, <1>13
    <3>2. NamedRows(mid[d], b, {"referral_reversal"}, x)
      BY <2>2, <2>3, <2>4, <3>1, RecoverAllWrites
    <3>3. OthersStand(mid[d], b, x)
      BY <2>2, <2>3, <2>4, <3>1, RecoverAllWrites
    <3> QED BY <3>2, <3>3 DEF OthersStand
  <2>6. DOMAIN b.lots = DOMAIN mid[d].lots
    BY <1>7, <1>9, <1>13, <2>2, <2>3, <2>4, RecoverAllOK
  <2> QED BY <2>1, <2>5, <2>6
<1>18. ASSUME NEW d \in Customers
       PROVE  NamedRows(before[d], mid[d], {"refund"}, x)
  <2>1. CASE d = c
    BY <1>13, <1>16, <2>1
  <2>2. CASE d # c
    <3>1. PICK b : b = before[d]
      OBVIOUS
    <3>2. b.ledger \in Seq(RowType) /\ mid[d] = b
      BY <1>11, <1>13, <2>2, <3>1 DEF Ledgers
    <3>3. NamedRows(b, b, {"refund"}, x)
      BY <3>2, NamedNone
    <3> QED BY <3>1, <3>2, <3>3
  <2> QED BY <2>1, <2>2
<1>19. PICK srcs : srcs = {"refund", "referral_reversal"}
  OBVIOUS
<1>20. \A d \in Customers : NamedRows(before[d], after[d], srcs, x)
  <2>1. ASSUME NEW d \in Customers PROVE NamedRows(before[d], after[d], srcs, x)
    <3>1. PICK b, m, e : b = before[d] /\ m = mid[d] /\ e = after[d]
      OBVIOUS
    <3>2. NamedRows(b, m, {"refund"}, x) /\ NamedRows(m, e, {"referral_reversal"}, x)
      BY <1>17, <1>18, <3>1
    <3>3. {"refund"} \subseteq srcs /\ {"referral_reversal"} \subseteq srcs
      BY <1>19
    <3>4. NamedRows(b, e, srcs, x)
      BY <3>2, <3>3, NamedTwice
    <3> QED BY <3>1, <3>4
  <2> QED BY <2>1
<1>21. RowsNamed(after, later)
  <2>1. \A d \in Customers : Longer(before[d].ledger, after[d].ledger)
    BY <1>20 DEF NamedRows
  <2>2. ASSUME NEW d \in Customers, NEW i \in 1..Len(after[d].ledger), i > Len(before[d].ledger)
        PROVE  RowNamed(d, after[d].ledger[i], later)
    <3>1. after[d].ledger[i].src \in srcs /\ after[d].ledger[i].ref = x
      BY <1>20, <2>2 DEF NamedRows
    <3> QED BY <1>15, <1>19, <3>1 DEF RowNamed
  <2>3. NoSale \notin DOMAIN later /\ DOMAIN table \subseteq DOMAIN later
    BY <1>7, <1>11, <1>15
  <2>4. \A id \in DOMAIN table : later[id].source = table[id].source /\ later[id].customer = table[id].customer
    BY <1>15
  <2> QED BY <1>11, <2>1, <2>2, <2>3, <2>4, RowsStayNamed
<1>22. ASSUME NEW id \in DOMAIN table, table[id].source = "pos", id # o PROVE SaleSettled(after, later, id)
  <2>1. ShortOfRefunds(table, id) \in Nat
    BY <1>10, RefundSums
  <2>2. x # id
    BY <1>15
  <2>3. \A d \in Customers : Outstanding(after[d], id) = Outstanding(before[d], id)
    <3>1. ASSUME NEW d \in Customers PROVE Outstanding(after[d], id) = Outstanding(before[d], id)
      <4>1. Outstanding(after[d], id) = Outstanding(mid[d], id)
        BY <1>17, <2>2
      <4>2. Outstanding(mid[d], id) = Outstanding(before[d], id)
        BY <1>13, <1>16, <1>22, <2>2
      <4> QED BY <4>1, <4>2
    <3> QED BY <3>1
  <2>4. /\ Refers(later, id) = Refers(table, id)
    BY <1>15, <1>22 DEF Refers
  <2>5. /\ RefundsIn(later, id) = RefundsIn(table, id) /\ RefundsIn(table, id) \subseteq DOMAIN table
    BY <1>15, <2>4 DEF RefundsIn, Refers
  <2>6. x \notin Refers(later, id)
    BY <1>15, <2>4 DEF Refers
  <2>7. \A y \in RefundsIn(table, id) : later[y].net = table[y].net /\ later[y].short = table[y].short
    BY <1>15, <2>5
  <2>8. later[id].status = table[id].status /\ later[id].net = table[id].net
    BY <1>15, <1>22
  <2>9. SaleSettled(before, table, id)
    BY <1>11, <1>22
  <2>10. Refers(table, id) \subseteq Refers(later, id)
         /\ \A y \in Refers(later, id) : y \in Refers(table, id) \/ y \notin DOMAIN table \cup {NoSale}
    BY <2>4
  <2>11. RefundsIn(later, id) = RefundsIn(table, id)
    BY <2>5
  <2> QED BY <1>11, <1>12, <1>20, <2>1, <2>2, <2>3, <2>6, <2>7, <2>8, <2>9, <2>10, <2>11, SaleUntouched
<1>23. PICK ids, more : ids = Refers(table, o) /\ more = Refers(later, o)
  OBVIOUS
<1>24. /\ more = ids \cup {x} /\ x \notin ids
       /\ RefundsIn(later, o) = RefundsIn(table, o) \cup {x} /\ x \notin RefundsIn(table, o)
  <2>1. more = ids \cup {x} /\ x \notin ids
    <3>1. \A y \in DOMAIN later : later[y].original = o <=> y = x \/ (y \in DOMAIN table /\ table[y].original = o)
      BY <1>15
    <3> QED BY <1>15, <1>23, <3>1 DEF Refers
  <2>2. later[x].source = "refund" /\ \A y \in ids : later[y].source = table[y].source
    BY <1>15, <1>23 DEF Refers
  <2> QED BY <1>23, <2>1, <2>2 DEF RefundsIn
<1>25. PICK refunded \in Nat, missing \in Nat :
         refunded = NetOfRefunds(table, o) /\ missing = ShortOfRefunds(table, o)
  BY <1>10, RefundSums
<1>26. NetOfRefunds(later, o) = refunded + amount /\ ShortOfRefunds(later, o) = missing + short
  <2>1. PICK S : S = RefundsIn(table, o)
    OBVIOUS
  <2>2. /\ IsFiniteSet(S) /\ S \subseteq DOMAIN table
        /\ \A y \in DOMAIN table : table[y].net \in Nat /\ table[y].short \in Nat
    BY <1>10, <2>1, RefundSums
  <2>3. \A y \in S : /\ table[y].net \in Nat /\ table[y].short \in Nat
                     /\ later[y].net = table[y].net /\ later[y].short = table[y].short
    BY <1>15, <2>2
  <2>4. later[x].net = amount /\ later[x].short = short
    BY <1>15
  <2>5. x \notin S /\ RefundsIn(later, o) = S \cup {x}
    BY <1>24, <2>1
  <2>6. later[x].net \in Nat /\ later[x].short \in Nat
    BY <1>7, <2>4
  <2>7. /\ NetOfRefunds(later, o) = NetOfRefunds(table, o) + later[x].net
        /\ ShortOfRefunds(later, o) = ShortOfRefunds(table, o) + later[x].short
    BY <2>1, <2>2, <2>3, <2>5, <2>6, OneMoreRefund
  <2> QED BY <1>25, <2>4, <2>7
<1>27. ASSUME table[o].source = "pos"
       PROVE  SaleSettled(after, later, o) /\ DOMAIN a.lots = DOMAIN before[c].lots
  <2>1. refunded + amount <= net
    <3>1. NetOfRefunds(sales', o) <= sales'[o].net
      <4>1. o \in DOMAIN sales' /\ sales'[o].source = "pos"
        BY <1>10, <1>15, <1>27
      <4>2. RefundsWithinSale'
        BY DEF Books
      <4> QED BY <4>1, <4>2 DEF RefundsWithinSale, Refunds, Reversals, NetOfRefunds, RefundsIn, Refers
    <3>2. sales'[o].net = net
      BY <1>6, <1>10, <1>15
    <3> QED BY <1>10, <1>26, <3>1, <3>2
  <2>2. /\ wanted \in Share(Earned(before, o), Undone(before, ids), amount, net, full)
        /\ restored \in Share(Spent(before, o), Redone(before, ids), amount, net, full)
    <3>1. sales[o].source = "pos"
      BY <1>10, <1>27
    <3>2. /\ LedgerSum("credit", {o}) = Earned(account, o) /\ LedgerSum("debit", {o}) = Spent(account, o)
          /\ LedgerSum("credit", Reversals(o)) = Redone(account, Refers(sales, o))
          /\ LedgerSum("debit", Reversals(o)) = Undone(account, Refers(sales, o))
      BY SMTT(30), <1>4, <3>1, SumsOfSale
    <3>3. /\ wanted \in Share(LedgerSum("credit", {o}), LedgerSum("debit", Reversals(o)), amount, net, full)
          /\ restored \in Share(LedgerSum("debit", {o}), LedgerSum("credit", Reversals(o)), amount, net, full)
      BY <1>1, <1>5, <1>6 DEF RefundShares
    <3> QED BY <1>10, <1>23, <3>2, <3>3
  <2>3. \A d \in Customers : Outstanding(before[d], o) \in Nat
    BY <1>9, <1>10, AccountFacts
  <2>4. table[o].status # "refunded" /\ table[o].customer = c /\ table[o].net = net
    BY <1>1, <1>6, <1>8, <1>10
  <2>5. SaleSettled(before, table, o)
    BY <1>11, <1>15, <1>27
  <2>6. /\ ShareFits(Earned(before, o), Undone(before, ids), TakenBack(before, ids),
                     refunded, amount, net, full, wanted)
        /\ ShareFits(Spent(before, o), Redone(before, ids), GivenBack(before, ids),
                     refunded, amount, net, full, restored)
        /\ restored <= Outstanding(before[c], o)
    <3>1. /\ Ledgers(before) /\ RowsNamed(before, table) /\ o \in DOMAIN table
          /\ table[o].source = "pos" /\ table[o].status # "refunded" /\ SaleSettled(before, table, o)
          /\ ids = Refers(table, o) /\ c \in Customers /\ c = table[o].customer
          /\ Outstanding(before[c], o) \in Nat
          /\ net \in Nat \ {0} /\ net = table[o].net /\ amount \in Nat
          /\ refunded \in Nat /\ refunded = NetOfRefunds(table, o) /\ refunded + amount <= net
      BY <1>4, <1>7, <1>9, <1>11, <1>15, <1>23, <1>25, <1>27, <2>1, <2>3, <2>4, <2>5
    <3>2. ShareFits(Earned(before, o), Undone(before, ids), TakenBack(before, ids),
                    refunded, amount, net, full, wanted)
      BY <2>2, <3>1, SharesOfSale, SMTT(60)
    <3>3. ShareFits(Spent(before, o), Redone(before, ids), GivenBack(before, ids),
                    refunded, amount, net, full, restored)
      BY <2>2, <3>1, SharesOfSale, SMTT(60)
    <3>4. restored <= Outstanding(before[c], o)
      BY <2>2, <3>1, SharesOfSale, SMTT(60)
    <3> QED BY <3>2, <3>3, <3>4
  <2>7. DOMAIN a.lots = DOMAIN before[c].lots /\ Outstanding(a, o) = Outstanding(before[c], o) - restored
    BY <1>16, <2>6
  <2>8. \A d \in Customers : Outstanding(after[d], o)
          = Outstanding(before[d], o) - (IF d = c THEN restored ELSE 0)
    <3>1. ASSUME NEW d \in Customers
          PROVE  Outstanding(after[d], o) = Outstanding(before[d], o) - (IF d = c THEN restored ELSE 0)
      <4>1. Outstanding(after[d], o) = Outstanding(mid[d], o)
        BY <1>7, <1>17
      <4>2. CASE d = c
        BY <1>13, <2>7, <4>1, <4>2
      <4>3. CASE d # c
        <5>1. mid[d] = before[d]
          BY <1>13, <4>3
        <5>2. PICK n \in Nat : n = Outstanding(before[d], o)
          BY <2>3
        <5> QED BY <4>1, <4>3, <5>1, <5>2
      <4> QED BY <4>2, <4>3
    <3> QED BY <3>1
  <2>9. \A d \in Customers : \A i \in 1..Len(before[d].ledger) : before[d].ledger[i].ref # x
    BY <1>7, <1>11, <1>15 DEF RowsNamed, RowNamed
  <2>10. SpentStands(before, table, o)
    BY <2>5 DEF SaleSettled
  <2>11. \A kinds : "refund" \in kinds =>
           /\ Marked(mid[c].ledger, Entries("debit", kinds, more)) =
                Marked(before[c].ledger, Entries("debit", kinds, more)) + reversed
           /\ Marked(mid[c].ledger, Entries("credit", kinds, more)) =
                Marked(before[c].ledger, Entries("credit", kinds, more)) + restored
    <3>1. x \in more
      BY <1>24
    <3> QED BY <1>13, <1>16, <3>1
  <2>12. NamedRows(before[c], mid[c], {"refund"}, x)
    BY <1>4, <1>18
  <2>13. \A d \in Customers : NamedRows(mid[d], after[d], {"referral_reversal"}, x)
    BY <1>17
  <2>14. later[o].net = net /\ later[o].status = IF full THEN "refunded" ELSE "partially_refunded"
    BY <1>3, <1>15, <2>4
  <2>15. SaleSettled(after, later, o)
    <3>1. /\ Ledgers(before) /\ Ledgers(mid) /\ Ledgers(after) /\ x # o
          /\ c \in Customers /\ reversed \in Nat /\ restored \in Nat /\ full \in BOOLEAN
          /\ \A d \in Customers : d # c => mid[d] = before[d]
          /\ Refers(later, o) = Refers(table, o) \cup {x}
      BY <1>2, <1>4, <1>7, <1>9, <1>11, <1>12, <1>13, <1>14, <1>23, <1>24
    <3>2. /\ later[o].net \in Nat \ {0} /\ later[x].net \in Nat /\ later[x].short \in Nat
          /\ NetOfRefunds(table, o) \in Nat /\ ShortOfRefunds(table, o) \in Nat
          /\ NetOfRefunds(later, o) = NetOfRefunds(table, o) + later[x].net
          /\ ShortOfRefunds(later, o) = ShortOfRefunds(table, o) + later[x].short
      BY <1>7, <1>9, <1>15, <1>25, <1>26, <2>14
    <3>3. /\ ShareFits(Earned(before, o), Undone(before, Refers(table, o)), TakenBack(before, Refers(table, o)),
                       NetOfRefunds(table, o), later[x].net, later[o].net, full, reversed + later[x].short)
          /\ ShareFits(Spent(before, o), Redone(before, Refers(table, o)), GivenBack(before, Refers(table, o)),
                       NetOfRefunds(table, o), later[x].net, later[o].net, full, restored)
      BY <1>7, <1>15, <1>23, <1>25, <2>6, <2>14
    <3>4. \A kinds : "refund" \in kinds =>
            /\ Marked(mid[c].ledger, Entries("debit", kinds, Refers(later, o))) =
                 Marked(before[c].ledger, Entries("debit", kinds, Refers(later, o))) + reversed
            /\ Marked(mid[c].ledger, Entries("credit", kinds, Refers(later, o))) =
                 Marked(before[c].ledger, Entries("credit", kinds, Refers(later, o))) + restored
      BY <1>23, <2>11
    <3>5. RefundOfSale(before, mid, after, table, later, o, x, c, reversed, restored, full)
      BY <2>3, <2>8, <2>9, <2>10, <2>12, <2>13, <2>14, <3>1, <3>2, <3>3, <3>4 DEF RefundOfSale
    <3> QED BY <3>5, SaleRefunds
  <2> QED BY <2>7, <2>15
<1>28. Settled(after, later)
  <2>1. ASSUME NEW id \in DOMAIN later, later[id].source = "pos" PROVE SaleSettled(after, later, id)
    <3>1. id \in DOMAIN table /\ table[id].source = "pos"
      BY <1>15, <2>1
    <3> QED BY <1>22, <1>27, <3>1
  <2> QED BY <1>21, <2>1 DEF Settled
<1>29. ASSUME ~RefundReversals PROVE LotsCredited(after) /\ RefundsOfReceipts'
  <2>1. LotsCredited(before) /\ RefundsOfReceipts
    BY <1>10, <1>29 DEF Points
  <2>2. table[o].source = "pos"
    BY <1>1, <1>4, <1>10, <2>1 DEF RefundsOfReceipts
  <2>3. \A d \in Customers : DOMAIN after[d].lots = DOMAIN before[d].lots
    BY <1>13, <1>17, <1>27, <2>2
  <2>4. \A d \in Customers : /\ Longer(before[d].ledger, after[d].ledger)
                             /\ \A t \in DOMAIN after[d].lots :
                                  t \in DOMAIN before[d].lots \/ LotCredited(after[d], t)
    BY <1>20, <2>3 DEF NamedRows
  <2>5. LotsCredited(after)
    BY <2>1, <2>4, LotsStayCredited
  <2>6. \A id \in DOMAIN sales : sales'[id].source = sales[id].source
    BY <1>10, <1>15
  <2>7. RefundsOfReceipts'
    BY <1>8, <2>1, <2>6, OthersRefundReceipts
  <2> QED BY <2>5, <2>7
<1>30. Settled(account, sales)'
  BY <1>10, <1>28
<1>31. ~RefundReversals => LotsCredited(account)' /\ RefundsOfReceipts'
  BY <1>10, <1>29
<1> QED BY <1>30, <1>31 DEF Points

-----------------------------------------------------------------------------
(* The theorem about points. *)

(***************************************************************************)
(* No sale and no row at the start: nothing to settle.                     *)
(***************************************************************************)
LEMMA PointsInit == Init => Points
<1> SUFFICES ASSUME Init PROVE Points
  OBVIOUS
<1>1. DOMAIN sales = {}
  BY DEF Init, EmptyFunction
<1>2. ASSUME NEW c \in Customers
      PROVE  account[c].ledger = <<>> /\ DOMAIN account[c].lots \subseteq {0}
  <2>1. account[c] = NewAccount
    BY <1>2 DEF Init
  <2>2. DOMAIN NewAccount.lots \subseteq {0}
    <3>1. CASE Opening = 0
      <4>1. NewAccount.lots = EmptyFunction
        BY <3>1 DEF NewAccount
      <4> QED BY <4>1 DEF EmptyFunction
    <3>2. CASE Opening # 0
      <4>1. NewAccount.lots = [t \in {0} |-> [issued |-> Opening, remaining |-> Opening]]
        BY <3>2 DEF NewAccount
      <4> QED BY <4>1
    <3> QED BY <3>1, <3>2
  <2>3. NewAccount.ledger = << >>
    BY DEF NewAccount
  <2> QED BY <2>1, <2>2, <2>3
<1>3. Settled(account, sales)
  <2>1. ASSUME NEW c \in Customers PROVE Len(account[c].ledger) = 0
    BY <1>2
  <2> QED BY <1>1, <2>1 DEF Settled, RowsNamed
<1>4. LotsCredited(account)
  BY <1>2 DEF LotsCredited
<1>5. RefundsOfReceipts
  BY DEF RefundsOfReceipts, Init, Idle
<1> QED BY <1>3, <1>4, <1>5 DEF Points

(***************************************************************************)
(* Only the three commits touch accounts and sales.                        *)
(***************************************************************************)
LEMMA PointsStep == Books /\ Books' /\ Points /\ [Next]_vars => Points'
<1> SUFFICES ASSUME Books, Books', Points, [Next]_vars PROVE Points'
  OBVIOUS
<1>1. CASE \E s \in Slots : IngestCommit(s)
  BY <1>1, IngestKeepsPoints
<1>2. CASE \E s \in Slots : RefundCommit(s)
  BY <1>2, RefundKeepsPoints
<1>3. CASE \E s \in Slots : PayCommit(s)
  BY <1>3, PayKeepsPoints
<1>4. CASE \/ \E s \in Slots, r \in PosReceipts : IngestBegin(s, r)
           \/ \E s \in Slots : IngestCount(s)
           \/ \E s \in Slots, id \in DOMAIN sales, ext \in RefundIds :
                \E amount \in 1..sales[id].net : RefundBegin(s, id, ext, amount)
           \/ \E s \in Slots, k \in DOMAIN rewards : PayBegin(s, k)
           \/ \E c \in Customers : DeleteCustomer(c)
           \/ \E s \in Slots : Abort(s)
           \/ Tick
           \/ UNCHANGED vars
  BY <1>4, QuietStepsKeepPoints, Zenon
<1>5. Quiesce => UNCHANGED vars
  BY DEF Quiesce
<1> QED BY <1>1, <1>2, <1>3, <1>4, <1>5, Zenon DEF Next

(***************************************************************************)
(* The points of every receipt are accounted for in every state.           *)
(***************************************************************************)
THEOREM PointsAlways == Spec => []Points
<1>1. Init => Points
  BY PointsInit
<1>2. Books /\ Books' /\ Points /\ [Next]_vars => Points'
  BY PointsStep
<1>3. Spec => []Books
  BY BooksAlways
<1> QED BY <1>1, <1>2, <1>3, PTL DEF Spec

(***************************************************************************)
(* Settled sales are settled as the model says it, with its own sums.      *)
(***************************************************************************)
LEMMA PointsSettle ==
  ASSUME Books, Points
  PROVE  FullRefundSettles
<1>1. SUFFICES ASSUME NEW id \in DOMAIN sales, sales[id].source = "pos", Refunds(id) # {}
               PROVE  /\ Moved("credit", "refund", Reversals(id)) <= Moved("debit", "receipt", {id})
                      /\ Moved("debit", "refund", Reversals(id)) <= Moved("credit", "receipt", {id})
                      /\ sales[id].status = "refunded" =>
                           /\ LedgerSum("credit", Reversals(id)) >= Moved("debit", "receipt", {id})
                           /\ LedgerSum("debit", Reversals(id))
                                + Total([x \in Refunds(id) |-> sales[x].short])
                                >= Moved("credit", "receipt", {id})
  BY DEF FullRefundSettles
<1>2. Ledgers(account) /\ SaleSettled(account, sales, id)
  BY <1>1, PointsFacts
<1>3. Refers(sales, id) = Reversals(id) /\ RefundsIn(sales, id) = Refunds(id)
  BY RefundSums
<1>4. /\ Moved("debit", "receipt", {id}) = Spent(account, id)
      /\ Moved("credit", "receipt", {id}) = Earned(account, id)
      /\ Moved("credit", "refund", Reversals(id)) = GivenBack(account, Reversals(id))
      /\ Moved("debit", "refund", Reversals(id)) = TakenBack(account, Reversals(id))
  BY <1>2, MovedIsWeight DEF Spent, Earned, GivenBack, TakenBack
<1>5. /\ LedgerSum("credit", Reversals(id)) = Redone(account, Reversals(id))
      /\ LedgerSum("debit", Reversals(id)) = Undone(account, Reversals(id))
  BY <1>2, LedgerSumIsWeight DEF Redone, Undone
<1>6. Total([x \in Refunds(id) |-> sales[x].short]) = ShortOfRefunds(sales, id)
  BY <1>3 DEF ShortOfRefunds
<1>7. SaleBalanced(account, sales, id)
  BY <1>2 DEF SaleSettled
<1>8. /\ GivenBack(account, Reversals(id)) <= Spent(account, id)
      /\ TakenBack(account, Reversals(id)) <= Earned(account, id)
      /\ sales[id].status = "refunded" =>
           /\ Redone(account, Reversals(id)) >= Spent(account, id)
           /\ Undone(account, Reversals(id)) + ShortOfRefunds(sales, id) >= Earned(account, id)
  BY <1>1, <1>3, <1>7 DEF SaleBalanced
<1> QED BY <1>4, <1>5, <1>6, <1>8

(***************************************************************************)
(* Whatever interleaving of receipts, refunds and payments: refunds never  *)
(* give back more points than were spent on their sale, nor take back more *)
(* than it earned, and a full refund settles it, up to the points the      *)
(* balance lacked (processRefund).                                         *)
(***************************************************************************)
THEOREM FullRefundsSettle == Spec => []FullRefundSettles
<1>1. Books /\ Points => FullRefundSettles
  BY PointsSettle
<1> QED BY <1>1, BooksAlways, PointsAlways, PTL

(***************************************************************************)
(* And where the POS does not send the reversal of a refund as a refund,   *)
(* the points a refund gives back return to lots the program credited:     *)
(* no refund makes a lot of its own (restoreLots).                         *)
(***************************************************************************)
THEOREM RefundsAreSettled ==
  ASSUME ~RefundReversals
  PROVE  Spec => []RefundsSettle
<1>1. Books /\ Points => RefundsSettle
  <2>1. SUFFICES ASSUME Books, Points PROVE RefundsSettle
    OBVIOUS
  <2>2. FullRefundSettles
    BY <2>1, PointsSettle
  <2>3. RestoredToTheirLots
    <3>1. LotsCredited(account)
      BY <2>1 DEF Points
    <3> QED BY <3>1 DEF LotsCredited, LotCredited, RestoredToTheirLots
  <2> QED BY <2>2, <2>3 DEF RefundsSettle
<1> QED BY <1>1, BooksAlways, PointsAlways, PTL
=============================================================================
