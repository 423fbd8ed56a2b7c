--------------------------- MODULE BonusDesk_proofs --------------------------
(***************************************************************************)
(* TypeOK, LedgerExplainsBalance, BonusRepeatOnlyByOverlap,                *)
(* ApprovalExecutedOnce, ArchivedFrozenForStaff, GiftsOnce, VisitsExact    *)
(* and LotsExplained hold in every behaviour of BonusDesk, for all staff,  *)
(* amounts, windows, slots and times.                                      *)
(***************************************************************************)
EXTENDS BonusDesk, BonusLots_proofs

(***************************************************************************)
(* What Begin recorded about a request in flight: its handler's inputs     *)
(* were validated, and its timestamp is not in the future.                 *)
(***************************************************************************)
RequestsValid ==
  \A s \in Slots :
    /\ req[s].at <= clock
    /\ req[s].kind = "bonus" =>
         req[s].by \in Staff /\ req[s].op \in {"credit", "debit"} /\ req[s].amount > 0
    /\ req[s].kind = "birthday" => req[s].amount > 0
    /\ req[s].kind = "decide" => req[s].ref \in DOMAIN approvals

IInv == TypeOK /\ RequestsValid /\ LedgerExplainsBalance

(***************************************************************************)
(* The row a committing request writes has the type of a ledger row.       *)
(***************************************************************************)
LEMMA RowOK ==
  ASSUME TypeOK, NEW s \in Slots, NEW src \in Sources,
         NEW by \in Staff \cup {Nobody}, NEW ref \in Nat,
         NEW op \in {"credit", "debit"}, NEW amount \in Nat \ {0}, NEW after \in Nat
  PROVE  /\ LedgerRow(op, amount, after, Row(s, src, by, ref)) \in RowType
         /\ Row(s, src, by, ref).at \in Time
         /\ Row(s, src, by, ref).at = req[s].at
<1>1. req[s].at \in Time /\ clock \in Time
  BY DEF TypeOK, RequestType
<1> QED BY <1>1 DEF LedgerRow, Row, RowType

(***************************************************************************)
(* A credit by a committing request keeps the account well formed and      *)
(* explained, and appends one row.                                         *)
(***************************************************************************)
LEMMA CreditStep ==
  ASSUME IInv, NEW s \in Slots, NEW src \in Sources,
         NEW by \in Staff \cup {Nobody}, NEW ref \in Nat, NEW amount \in Nat \ {0}
  PROVE  LET row == Row(s, src, by, ref)
         IN  /\ IsAccount(Credit(account, amount, row), RowType, Time)
             /\ LedgerExplains(Credit(account, amount, row))
             /\ Credit(account, amount, row).ledger = Append(account.ledger,
                  LedgerRow("credit", amount, account.points + amount, row))
<1> DEFINE row == Row(s, src, by, ref)
<1>1. account.points \in Nat /\ IsAccount(account, RowType, Time) /\ LedgerExplains(account)
  BY DEF IInv, TypeOK, IsAccount, LedgerExplainsBalance
<1>2. account.points + amount \in Nat
  BY <1>1
<1>3. /\ LedgerRow("credit", amount, account.points + amount, row) \in RowType
      /\ row.at \in Time
  BY <1>2, RowOK DEF IInv
<1> HIDE DEF row
<1>4. /\ IsAccount(Credit(account, amount, row), RowType, Time)
      /\ LedgerExplains(Credit(account, amount, row))
      /\ Credit(account, amount, row).ledger = Append(account.ledger,
           LedgerRow("credit", amount, account.points + amount, row))
  BY <1>1, <1>3, CreditOK
<1> QED BY <1>4 DEF row

(***************************************************************************)
(* The same for the shared balance-and-lots writes of customerBonus and    *)
(* decideOperationApproval, credit or debit.                               *)
(***************************************************************************)
LEMMA ApplyStep ==
  ASSUME IInv, NEW s \in Slots, NEW src \in Sources,
         NEW by \in Staff \cup {Nobody}, NEW ref \in Nat, NEW amount \in Nat \ {0},
         NEW op \in {"credit", "debit"},
         Apply(op, amount, Row(s, src, by, ref))
  PROVE  /\ IsAccount(account', RowType, Time)
         /\ LedgerExplains(account')
         /\ \E after \in Nat : account'.ledger = Append(account.ledger,
              LedgerRow(op, amount, after, Row(s, src, by, ref)))
<1> DEFINE row == Row(s, src, by, ref)
<1>1. account.points \in Nat /\ IsAccount(account, RowType, Time) /\ LedgerExplains(account)
  BY DEF IInv, TypeOK, IsAccount, LedgerExplainsBalance
<1>2. CASE op = "credit"
  <2>1. account' = Credit(account, amount, row)
    BY <1>2 DEF Apply
  <2>2. account.points + amount \in Nat
    BY <1>1
  <2> QED BY ZenonT(30), <2>1, <2>2, <1>2, CreditStep
<1>3. CASE op = "debit"
  <2>1. account' = Debit(account, amount, row)
    BY <1>3 DEF Apply
  <2>2. CanDebit(account, amount, row.at)
    BY <1>3 DEF Apply
  <2>3. PICK after \in Nat : after = account.points - amount
    BY <2>2, <1>1 DEF CanDebit
  <2>4. LedgerRow("debit", amount, after, row) \in RowType
    BY RowOK DEF IInv
  <2> HIDE DEF row
  <2>5. IsAccount(Debit(account, amount, row), RowType, Time)
    BY <1>1, <2>2, <2>3, <2>4, DebitOK
  <2>6. LedgerExplains(Debit(account, amount, row))
    BY <1>1, <2>2, <2>3, <2>4, DebitOK
  <2>7. Debit(account, amount, row).ledger
          = Append(account.ledger, LedgerRow("debit", amount, after, row))
    BY <2>3 DEF Debit
  <2> QED BY <2>1, <2>3, <2>5, <2>6, <2>7, <1>3 DEF row
<1> QED BY <1>2, <1>3

-----------------------------------------------------------------------------
(***************************************************************************)
(* The invariant holds initially.                                          *)
(***************************************************************************)
LEMMA InitIInv == Init => IInv
<1> SUFFICES ASSUME Init PROVE IInv
  OBVIOUS
<1>1. 0 \in Time
  BY BonusDeskAssumption DEF Time
<1>2. IsAccount(account, RowType, Time) /\ LedgerExplains(account)
  BY <1>1, NewAccountOK DEF Init
<1>3. req \in [Slots -> RequestType] /\ RequestsValid
  BY <1>1 DEF Init, Idle, RequestType, RequestsValid
<1> QED BY <1>1, <1>2, <1>3
  DEF Init, IInv, TypeOK, LedgerExplainsBalance, EmptyFunction

(***************************************************************************)
(* Begin keeps the request table typed and its requests valid, when the    *)
(* inputs are valid.                                                       *)
(***************************************************************************)
LEMMA BeginStep ==
  ASSUME IInv, NEW s \in Slots,
         NEW kind \in {"bonus", "visit", "spin", "birthday", "decide"},
         NEW by \in Staff \cup {Nobody, Guest},
         NEW op \in {"none", "credit", "debit", "approved", "rejected"},
         NEW amount \in Nat, NEW ref \in Nat,
         Begin(s, kind, by, op, amount, ref),
         kind = "bonus" => by \in Staff /\ op \in {"credit", "debit"} /\ amount > 0,
         kind = "birthday" => amount > 0,
         kind = "decide" => ref \in DOMAIN approvals,
         approvals' = approvals
  PROVE  clock' \in Time /\ req' \in [Slots -> RequestType] /\ RequestsValid'
<1>1. clock \in Nat /\ MaxClock \in Nat /\ clock < MaxClock /\ clock' = clock + 1
  BY BonusDeskAssumption DEF IInv, TypeOK, Time, Begin, Now
<1>2. clock' \in Time
  BY <1>1 DEF Time
<1>3. req' \in [Slots -> RequestType]
  BY <1>1, <1>2 DEF IInv, TypeOK, Begin, Now, RequestType
<1>4. RequestsValid'
  <2> SUFFICES ASSUME NEW t \in Slots
               PROVE  /\ req'[t].at <= clock'
                      /\ req'[t].kind = "bonus" =>
                           /\ req'[t].by \in Staff
                           /\ req'[t].op \in {"credit", "debit"}
                           /\ req'[t].amount > 0
                      /\ req'[t].kind = "birthday" => req'[t].amount > 0
                      /\ req'[t].kind = "decide" => req'[t].ref \in DOMAIN approvals
    BY DEF RequestsValid
  <2>1. CASE t = s
    <3>1. req'[t] = [kind |-> kind, by |-> by, op |-> op, amount |-> amount,
                     ref |-> ref, at |-> clock + 1]
      BY <2>1 DEF Begin, Now, IInv, TypeOK
    <3> QED BY <3>1, <1>1
  <2>2. CASE t # s
    <3>1. req'[t] = req[t] /\ req[t].at \in Nat
      BY <2>2 DEF Begin, IInv, TypeOK, RequestType, Time
    <3> QED BY <3>1, <1>1 DEF IInv, RequestsValid
  <2> QED BY <2>1, <2>2
<1> QED BY <1>2, <1>3, <1>4

(***************************************************************************)
(* Finish keeps them too, when no approval disappears.                     *)
(***************************************************************************)
LEMMA FinishStep ==
  ASSUME IInv, NEW s \in Slots, Finish(s), clock' = clock,
         DOMAIN approvals \subseteq DOMAIN approvals'
  PROVE  req' \in [Slots -> RequestType] /\ RequestsValid'
<1>1. clock \in Nat /\ 0 \in Time
  BY BonusDeskAssumption DEF IInv, TypeOK, Time
<1>2. Idle \in RequestType /\ Idle.kind = "idle" /\ Idle.at = 0
  BY <1>1 DEF Idle, RequestType
<1>3. req' \in [Slots -> RequestType]
  BY <1>2 DEF IInv, TypeOK, Finish
<1>4. \A t \in Slots : req'[t] = req[t] \/ req'[t] = Idle
  BY DEF IInv, TypeOK, Finish
<1> QED BY <1>1, <1>2, <1>3, <1>4 DEF IInv, RequestsValid

(***************************************************************************)
(* Every step keeps the invariant: one case per action.                    *)
(***************************************************************************)
LEMMA NextIInv == IInv /\ [Next]_vars => IInv'
<1> SUFFICES ASSUME IInv, [Next]_vars PROVE IInv'
  OBVIOUS
<1> USE DEF LedgerExplainsBalance
<1>1. ASSUME NEW s \in Slots, NEW u \in Staff, NEW op \in {"credit", "debit"},
             NEW n \in Amounts, NEW key \in ClientKeys, BonusBegin(s, u, op, n, key)
      PROVE  IInv'
  <2>1. n \in Nat /\ n > 0 /\ key \in Nat
    BY BonusDeskAssumption
  <2>2. clock' \in Time /\ req' \in [Slots -> RequestType] /\ RequestsValid'
    BY <1>1, <2>1, BeginStep DEF BonusBegin
  <2> QED BY <1>1, <2>2 DEF BonusBegin, IInv, TypeOK
<1>2. ASSUME NEW s \in Slots, BonusCommit(s) PROVE IInv'
  <2>1. /\ req[s].by \in Staff \cup {Nobody} /\ req[s].ref \in Nat
        /\ req[s].op \in {"credit", "debit"} /\ req[s].amount \in Nat \ {0}
    BY <1>2 DEF BonusCommit, IInv, RequestsValid, TypeOK, RequestType
  <2>2. IsAccount(account', RowType, Time) /\ LedgerExplains(account')
    BY ZenonT(30), <1>2, <2>1, ApplyStep DEF BonusCommit, Sources
  <2>3. req' \in [Slots -> RequestType] /\ RequestsValid'
    BY <1>2, FinishStep DEF BonusCommit
  <2> QED BY <1>2, <2>2, <2>3 DEF BonusCommit, IInv, TypeOK
<1>3. ASSUME NEW s \in Slots, VisitBegin(s) PROVE IInv'
  <2>1. clock' \in Time /\ req' \in [Slots -> RequestType] /\ RequestsValid'
    BY <1>3, BeginStep, BonusDeskAssumption DEF VisitBegin
  <2> QED BY <1>3, <2>1 DEF VisitBegin, IInv, TypeOK
<1>4. ASSUME NEW s \in Slots, VisitCommit(s) PROVE IInv'
  <2>1. req[s].at \in Nat /\ req[s].at \in Time /\ req[s].amount \in Nat \ {0}
    BY <1>4 DEF VisitCommit, IInv, TypeOK, RequestType, Time
  <2>2. IsAccount(account', RowType, Time) /\ LedgerExplains(account')
    BY <1>4, <2>1, CreditStep DEF VisitCommit, Sources
  <2>3. req' \in [Slots -> RequestType] /\ RequestsValid'
    BY <1>4, FinishStep DEF VisitCommit
  <2> QED BY <1>4, <2>1, <2>2, <2>3 DEF VisitCommit, IInv, TypeOK
<1>5. ASSUME NEW s \in Slots, NEW prize \in SpinPrizes, SpinBegin(s, prize) PROVE IInv'
  <2>1. clock' \in Time /\ req' \in [Slots -> RequestType] /\ RequestsValid'
    BY <1>5, BeginStep, BonusDeskAssumption DEF SpinBegin
  <2> QED BY <1>5, <2>1 DEF SpinBegin, IInv, TypeOK
<1>6. ASSUME NEW s \in Slots, SpinCommit(s) PROVE IInv'
  <2>1. req[s].at \in Nat /\ req[s].at \in Time /\ req[s].amount \in Nat /\ clock \in Time
    BY DEF IInv, TypeOK, RequestType, Time
  <2>2. IsAccount(account', RowType, Time) /\ LedgerExplains(account')
    <3>1. CASE req[s].amount > 0
      <4>1. req[s].amount \in Nat \ {0}
        BY <2>1, <3>1
      <4>2. account' = Credit(account, req[s].amount, Row(s, "wheel", Nobody, req[s].at))
        BY <1>6, <3>1 DEF SpinCommit
      <4> QED BY <2>1, <4>1, <4>2, CreditStep DEF Sources
    <3>2. CASE ~(req[s].amount > 0)
      BY <1>6, <3>2 DEF SpinCommit, IInv, TypeOK
    <3> QED BY <3>1, <3>2
  <2>3. req' \in [Slots -> RequestType] /\ RequestsValid'
    BY <1>6, FinishStep DEF SpinCommit
  <2> QED BY <1>6, <2>1, <2>2, <2>3 DEF SpinCommit, IInv, TypeOK
<1>7. ASSUME NEW s \in Slots, BirthdayBegin(s) PROVE IInv'
  <2>1. Year(Now) \in Nat /\ BirthdayPoints \in Nat /\ BirthdayPoints > 0
    BY <1>7, BonusDeskAssumption DEF BirthdayBegin, Year, Now, IInv, TypeOK, Time
  <2>2. clock' \in Time /\ req' \in [Slots -> RequestType] /\ RequestsValid'
    BY <1>7, <2>1, BeginStep DEF BirthdayBegin
  <2> QED BY <1>7, <2>2 DEF BirthdayBegin, IInv, TypeOK
<1>8. ASSUME NEW s \in Slots, BirthdayCommit(s) PROVE IInv'
  <2>1. req[s].ref \in Nat /\ req[s].amount \in Nat \ {0}
    BY <1>8 DEF BirthdayCommit, IInv, RequestsValid, TypeOK, RequestType
  <2>2. IsAccount(account', RowType, Time) /\ LedgerExplains(account')
    BY <1>8, <2>1, CreditStep DEF BirthdayCommit, Sources
  <2>3. req' \in [Slots -> RequestType] /\ RequestsValid'
    BY <1>8, FinishStep DEF BirthdayCommit
  <2> QED BY <1>8, <2>1, <2>2, <2>3 DEF BirthdayCommit, IInv, TypeOK
<1>9. ASSUME NEW u \in Staff, NEW op \in {"credit", "debit"}, NEW n \in Amounts,
             NEW id \in ApprovalIds, RequestApproval(u, op, n, id)
      PROVE  IInv'
  <2>1. n \in Nat \ {0} /\ clock + ApprovalTTL \in Nat
    BY BonusDeskAssumption DEF IInv, TypeOK, Time
  <2>2. /\ DOMAIN approvals' = DOMAIN approvals \cup {id}
        /\ \A x \in DOMAIN approvals' : approvals'[x] \in ApprovalType
    BY <1>9, <2>1 DEF RequestApproval, IInv, TypeOK, ApprovalType
  <2>3. RequestsValid'
    BY <1>9, <2>2 DEF RequestApproval, IInv, RequestsValid
  <2> QED BY <1>9, <2>2, <2>3 DEF RequestApproval, IInv, TypeOK
<1>10. ASSUME NEW s \in Slots, NEW id \in ApprovalIds, NEW d \in {"approved", "rejected"},
              DecideBegin(s, id, d)
       PROVE  IInv'
  <2>1. clock' \in Time /\ req' \in [Slots -> RequestType] /\ RequestsValid'
    BY <1>10, BeginStep, BonusDeskAssumption DEF DecideBegin
  <2> QED BY <1>10, <2>1 DEF DecideBegin, IInv, TypeOK
<1>11. ASSUME NEW s \in Slots, DecideExpire(s) PROVE IInv'
  <2>1. /\ DOMAIN approvals' = DOMAIN approvals
        /\ \A x \in DOMAIN approvals' : approvals'[x] \in ApprovalType
    BY <1>11 DEF DecideExpire, IInv, TypeOK, ApprovalType
  <2>2. req' \in [Slots -> RequestType] /\ RequestsValid'
    BY <1>11, <2>1, FinishStep DEF DecideExpire
  <2> QED BY <1>11, <2>1, <2>2 DEF DecideExpire, IInv, TypeOK
<1>12. ASSUME NEW s \in Slots, DecideReject(s) PROVE IInv'
  <2>1. /\ DOMAIN approvals' = DOMAIN approvals
        /\ \A x \in DOMAIN approvals' : approvals'[x] \in ApprovalType
    BY <1>12 DEF DecideReject, IInv, TypeOK, ApprovalType
  <2>2. req' \in [Slots -> RequestType] /\ RequestsValid'
    BY <1>12, <2>1, FinishStep DEF DecideReject
  <2> QED BY <1>12, <2>1, <2>2 DEF DecideReject, IInv, TypeOK
<1>13. ASSUME NEW s \in Slots, DecideApprove(s) PROVE IInv'
  <2> DEFINE id == req[s].ref
             x  == approvals[id]
  <2>1. id \in DOMAIN approvals /\ x \in ApprovalType /\ id \in Nat
    BY <1>13 DEF DecideApprove, Pending, IInv, RequestsValid, TypeOK, RequestType
  <2>2. x.op \in {"credit", "debit"} /\ x.amount \in Nat \ {0} /\ x.by \in Staff
    BY <2>1 DEF ApprovalType
  <2>3. Apply(x.op, x.amount, Row(s, "approval", x.by, id))
    BY <1>13 DEF DecideApprove
  <2>4. IsAccount(account', RowType, Time) /\ LedgerExplains(account')
    <3> HIDE DEF x, id
    <3> QED BY <2>1, <2>2, <2>3, ApplyStep DEF Sources
  <2>5. Len(account.ledger) + 1 \in Nat
    BY DEF IInv, TypeOK, IsAccount
  <2>6. /\ DOMAIN approvals' = DOMAIN approvals
        /\ \A y \in DOMAIN approvals' : approvals'[y] \in ApprovalType
    <3>1. approvals' = [approvals EXCEPT ![id].status = "approved",
                                         ![id].row = Len(account.ledger) + 1]
      BY <1>13 DEF DecideApprove
    <3>2. /\ DOMAIN approvals' = DOMAIN approvals
          /\ \A y \in DOMAIN approvals : y # id => approvals'[y] = approvals[y]
      BY <3>1
    <3>3. approvals'[id] = [x EXCEPT !.status = "approved", !.row = Len(account.ledger) + 1]
      BY <3>1, <2>1
    <3>4. approvals'[id] \in ApprovalType
      BY <3>3, <2>1, <2>5 DEF ApprovalType
    <3>5. \A y \in DOMAIN approvals : approvals[y] \in ApprovalType
      BY DEF IInv, TypeOK
    <3> QED BY <3>2, <3>4, <3>5
  <2>7. req' \in [Slots -> RequestType] /\ RequestsValid'
    BY <1>13, <2>6, FinishStep DEF DecideApprove
  <2> QED BY <1>13, <2>4, <2>6, <2>7 DEF DecideApprove, IInv, TypeOK
<1>14. ASSUME DeleteCustomer PROVE IInv'
  BY <1>14 DEF DeleteCustomer, IInv, TypeOK, RequestsValid
<1>15. ASSUME NEW s \in Slots, Abort(s) PROVE IInv'
  <2>1. req' \in [Slots -> RequestType] /\ RequestsValid'
    BY <1>15, FinishStep DEF Abort
  <2> QED BY <1>15, <2>1 DEF Abort, IInv, TypeOK
<1>16. ASSUME Tick PROVE IInv'
  <2>1. clock \in Nat /\ clock' = clock + 1 /\ clock' \in Time
    BY <1>16, BonusDeskAssumption DEF Tick, Now, IInv, TypeOK, Time
  <2>2. \A s \in Slots : req[s].at \in Nat
    BY DEF IInv, TypeOK, RequestType, Time
  <2>3. RequestsValid'
    BY <1>16, <2>1, <2>2 DEF Tick, IInv, RequestsValid
  <2> QED BY <1>16, <2>1, <2>3 DEF Tick, IInv, TypeOK
<1>17. CASE UNCHANGED vars
  BY <1>17 DEF vars, IInv, TypeOK, RequestsValid
<1> QED
  BY <1>1, <1>2, <1>3, <1>4, <1>5, <1>6, <1>7, <1>8, <1>9, <1>10, <1>11,
     <1>12, <1>13, <1>14, <1>15, <1>16, <1>17 DEF Next, Quiesce

(***************************************************************************)
(* Every reachable state is well typed.                                    *)
(***************************************************************************)
THEOREM TypeCorrect == Spec => []TypeOK
<1>1. IInv => TypeOK
  BY DEF IInv
<1> QED BY <1>1, InitIInv, NextIInv, PTL DEF Spec

(***************************************************************************)
(* In every reachable state the ledger explains the customer's balance,    *)
(* whatever handlers overlapped on the way there.                          *)
(***************************************************************************)
THEOREM BalanceExplained == Spec => []LedgerExplainsBalance
<1>1. IInv => LedgerExplainsBalance
  BY DEF IInv
<1> QED BY <1>1, InitIInv, NextIInv, PTL DEF Spec

-----------------------------------------------------------------------------
(* The ledger rows the commits append, and who can append which. *)

Appended(s, src, r) ==
  /\ r \in RowType
  /\ account'.ledger = Append(account.ledger, r)
  /\ r.src = src /\ r.at = req[s].at /\ r.committed = clock

(***************************************************************************)
(* customerBonus appends its own row, decideOperationApproval the row of   *)
(* its approval.                                                           *)
(***************************************************************************)
LEMMA AppliedRows ==
  ASSUME IInv, NEW s \in Slots
  PROVE  /\ BonusCommit(s) =>
              \E r : /\ Appended(s, "manual", r)
                    /\ r.by = req[s].by /\ r.op = req[s].op /\ r.amount = req[s].amount
         /\ DecideApprove(s) =>
              \E r : /\ Appended(s, "approval", r)
                    /\ r.ref = req[s].ref
                    /\ r.op = approvals[req[s].ref].op
                    /\ r.amount = approvals[req[s].ref].amount
                    /\ r.by = approvals[req[s].ref].by
<1>1. ASSUME BonusCommit(s)
      PROVE  \E r : /\ Appended(s, "manual", r)
                   /\ r.by = req[s].by /\ r.op = req[s].op /\ r.amount = req[s].amount
  <2> DEFINE op == req[s].op
             n  == req[s].amount
             u  == req[s].by
             k  == req[s].ref
  <2>1. /\ u \in Staff \cup {Nobody} /\ k \in Nat
        /\ op \in {"credit", "debit"} /\ n \in Nat \ {0}
        /\ "manual" \in Sources
    BY <1>1 DEF BonusCommit, IInv, RequestsValid, TypeOK, RequestType, Sources
  <2>2. Apply(op, n, Row(s, "manual", u, k))
    BY <1>1 DEF BonusCommit
  <2>3. PICK after \in Nat :
          account'.ledger
            = Append(account.ledger, LedgerRow(op, n, after, Row(s, "manual", u, k)))
    <3> HIDE DEF op, n, u, k
    <3> QED BY SMTT(30), <2>1, <2>2, ApplyStep
  <2>4. LedgerRow(op, n, after, Row(s, "manual", u, k)) \in RowType
    <3> HIDE DEF op, n, u, k
    <3> QED BY <2>1, RowOK DEF IInv
  <2> QED BY <2>3, <2>4 DEF Appended, LedgerRow, Row
<1>2. ASSUME DecideApprove(s)
      PROVE  \E r : /\ Appended(s, "approval", r)
                   /\ r.ref = req[s].ref
                   /\ r.op = approvals[req[s].ref].op
                   /\ r.amount = approvals[req[s].ref].amount
                   /\ r.by = approvals[req[s].ref].by
  <2> DEFINE id == req[s].ref
             x  == approvals[id]
             row == Row(s, "approval", x.by, id)
  <2>1. id \in DOMAIN approvals /\ x \in ApprovalType /\ id \in Nat
    BY <1>2 DEF DecideApprove, Pending, IInv, RequestsValid, TypeOK, RequestType
  <2>2. /\ x.op \in {"credit", "debit"} /\ x.amount \in Nat \ {0}
        /\ x.by \in Staff \cup {Nobody} /\ "approval" \in Sources
    BY <2>1 DEF ApprovalType, Sources
  <2>3. Apply(x.op, x.amount, row)
    BY <1>2 DEF DecideApprove
  <2>4. PICK after \in Nat :
          account'.ledger = Append(account.ledger, LedgerRow(x.op, x.amount, after, row))
    <3> HIDE DEF x, id
    <3> QED BY ZenonT(30), <2>1, <2>2, <2>3, ApplyStep
  <2>5. LedgerRow(x.op, x.amount, after, row) \in RowType
    <3> HIDE DEF x, id
    <3> QED BY <2>1, <2>2, RowOK DEF IInv
  <2> QED BY <2>4, <2>5 DEF Appended, LedgerRow, Row
<1> QED BY <1>1, <1>2

(***************************************************************************)
(* The visit, the wheel and the birthday worker append rows of their own   *)
(* source; a spin without a prize appends nothing.                         *)
(***************************************************************************)
LEMMA CreditedRows ==
  ASSUME IInv, NEW s \in Slots
  PROVE  /\ VisitCommit(s) => \E r : Appended(s, "visit", r)
         /\ SpinCommit(s) => \/ account' = account
                            \/ \E r : Appended(s, "wheel", r)
         /\ BirthdayCommit(s) => \E r : Appended(s, "birthday", r)
<1>1. /\ req[s].at \in Nat /\ req[s].amount \in Nat /\ req[s].ref \in Nat
      /\ account.points \in Nat /\ Nobody \in Staff \cup {Nobody}
      /\ "visit" \in Sources /\ "wheel" \in Sources /\ "birthday" \in Sources
  BY DEF IInv, TypeOK, RequestType, Time, IsAccount, Sources
<1>2. ASSUME NEW src \in Sources, NEW ref \in Nat, req[s].amount > 0,
             account' = Credit(account, req[s].amount, Row(s, src, Nobody, ref))
      PROVE  \E r : Appended(s, src, r)
  <2>1. req[s].amount \in Nat \ {0} /\ account.points + req[s].amount \in Nat
    BY <1>1, <1>2
  <2>2. LedgerRow("credit", req[s].amount, account.points + req[s].amount,
                  Row(s, src, Nobody, ref)) \in RowType
    BY <1>1, <2>1, RowOK DEF IInv
  <2>3. account'.ledger = Append(account.ledger,
          LedgerRow("credit", req[s].amount, account.points + req[s].amount,
                    Row(s, src, Nobody, ref)))
    BY <1>2 DEF Credit
  <2> QED BY <2>2, <2>3 DEF Appended, LedgerRow, Row
<1>3. ASSUME VisitCommit(s) PROVE \E r : Appended(s, "visit", r)
  BY <1>1, <1>2, <1>3 DEF VisitCommit
<1>4. ASSUME SpinCommit(s)
      PROVE  account' = account \/ \E r : Appended(s, "wheel", r)
  BY <1>1, <1>2, <1>4 DEF SpinCommit
<1>5. ASSUME BirthdayCommit(s) PROVE \E r : Appended(s, "birthday", r)
  BY <1>1, <1>2, <1>5 DEF BirthdayCommit, IInv, RequestsValid
<1> QED BY <1>3, <1>4, <1>5

-----------------------------------------------------------------------------
(***************************************************************************)
(* BonusRepeatOnlyByOverlap is not inductive: it says nothing of requests  *)
(* whose duplicate check already passed.  For those, every equal row the   *)
(* check should have seen was committed after they began.                  *)
(***************************************************************************)
MissedOnlyLaterCommits ==
  \A s \in Slots : req[s].kind = "bonus" =>
    \A i \in Manual :
      LET r == account.ledger[i]
      IN  /\ r.by = req[s].by /\ r.op = req[s].op /\ r.amount = req[s].amount
          /\ r.at > req[s].at - BonusWindow
          => req[s].at <= r.committed

RepeatInv == MissedOnlyLaterCommits /\ BonusRepeatOnlyByOverlap

(***************************************************************************)
(* A step that starts no manual operation and appends no manual row keeps  *)
(* RepeatInv.                                                              *)
(***************************************************************************)
LEMMA OtherStepRepeat ==
  ASSUME IInv, RepeatInv,
         \A s \in Slots : req'[s] = req[s] \/ req'[s].kind # "bonus",
         \/ account'.ledger = account.ledger
         \/ \E r \in RowType : /\ account'.ledger = Append(account.ledger, r)
                              /\ r.src # "manual"
  PROVE  RepeatInv'
<1>1. account.ledger \in Seq(RowType)
  BY DEF IInv, TypeOK, IsAccount
<1>2. /\ Manual' = Manual
      /\ \A i \in Manual : account'.ledger[i] = account.ledger[i]
  <2>1. CASE account'.ledger = account.ledger
    BY <2>1 DEF Manual
  <2>2. CASE \E r \in RowType : /\ account'.ledger = Append(account.ledger, r)
                              /\ r.src # "manual"
    <3>1. PICK r \in RowType : /\ account'.ledger = Append(account.ledger, r)
                              /\ r.src # "manual"
      BY <2>2
    <3>2. /\ Len(account.ledger) \in Nat
          /\ Len(account'.ledger) = Len(account.ledger) + 1
          /\ account'.ledger[Len(account.ledger) + 1] = r
          /\ \A i \in 1..Len(account.ledger) : account'.ledger[i] = account.ledger[i]
      BY <1>1, <3>1, AppendFacts
    <3> QED BY <3>1, <3>2 DEF Manual
  <2> QED BY <2>1, <2>2
<1>3. MissedOnlyLaterCommits'
  <2> SUFFICES ASSUME NEW s \in Slots, req'[s].kind = "bonus", NEW i \in Manual,
                      account'.ledger[i].by = req'[s].by,
                      account'.ledger[i].op = req'[s].op,
                      account'.ledger[i].amount = req'[s].amount,
                      account'.ledger[i].at > req'[s].at - BonusWindow
               PROVE  req'[s].at <= account'.ledger[i].committed
    BY <1>2 DEF MissedOnlyLaterCommits
  <2>1. req'[s] = req[s] /\ account'.ledger[i] = account.ledger[i]
    BY <1>2
  <2> QED BY <2>1 DEF RepeatInv, MissedOnlyLaterCommits
<1>4. BonusRepeatOnlyByOverlap'
  BY <1>2 DEF RepeatInv, BonusRepeatOnlyByOverlap
<1> QED BY <1>3, <1>4 DEF RepeatInv

(***************************************************************************)
(* The duplicate check establishes it for the request that begins.         *)
(***************************************************************************)
LEMMA BeginRepeat ==
  ASSUME IInv, RepeatInv, NEW s \in Slots, NEW u \in Staff, NEW op, NEW n, NEW key,
         BonusBegin(s, u, op, n, key)
  PROVE  RepeatInv'
<1>1. Manual' = Manual /\ account' = account
  BY DEF BonusBegin, Manual
<1>2. BonusRepeatOnlyByOverlap'
  BY <1>1 DEF RepeatInv, BonusRepeatOnlyByOverlap
<1>3. ASSUME NEW t \in Slots, req'[t].kind = "bonus", NEW i \in Manual,
             account.ledger[i].by = req'[t].by,
             account.ledger[i].op = req'[t].op,
             account.ledger[i].amount = req'[t].amount,
             account.ledger[i].at > req'[t].at - BonusWindow
      PROVE  req'[t].at <= account.ledger[i].committed
  <2>1. CASE t = s
    <3>1. /\ req'[t].by = u /\ req'[t].op = op /\ req'[t].amount = n
          /\ req'[t].at = Now
      BY <2>1 DEF BonusBegin, Begin, IInv, TypeOK
    <3>2. RecentBonus(u, op, n, Now)
      BY <1>3, <3>1 DEF RecentBonus, Manual
    <3> QED BY <3>2 DEF BonusBegin
  <2>2. CASE t # s
    <3>1. req'[t] = req[t]
      BY <2>2 DEF BonusBegin, Begin, IInv, TypeOK
    <3> QED BY <1>3, <3>1 DEF RepeatInv, MissedOnlyLaterCommits
  <2> QED BY <2>1, <2>2
<1>4. MissedOnlyLaterCommits'
  BY <1>1, <1>3 DEF MissedOnlyLaterCommits
<1> QED BY <1>2, <1>4 DEF RepeatInv

(***************************************************************************)
(* A manual operation that commits becomes a row; requests in flight began *)
(* before it committed.                                                    *)
(***************************************************************************)
LEMMA CommitRepeat ==
  ASSUME IInv, RepeatInv, NEW s \in Slots, BonusCommit(s)
  PROVE  RepeatInv'
<1> DEFINE len == Len(account.ledger)
<1>1. account.ledger \in Seq(RowType)
  BY DEF IInv, TypeOK, IsAccount
<1>2. PICK r : /\ Appended(s, "manual", r)
               /\ r.by = req[s].by /\ r.op = req[s].op /\ r.amount = req[s].amount
  BY AppliedRows
<1>3. r \in RowType /\ r.src = "manual" /\ r.at = req[s].at /\ r.committed = clock
  BY <1>2 DEF Appended
<1>4. /\ len \in Nat
      /\ Len(account'.ledger) = len + 1
      /\ account'.ledger[len + 1] = r
      /\ \A i \in 1..len : account'.ledger[i] = account.ledger[i]
  BY <1>1, <1>2, AppendFacts DEF Appended
<1>5. Manual' = Manual \cup {len + 1} /\ Manual \subseteq 1..len
  BY SMTT(30), <1>3, <1>4 DEF Manual
<1> HIDE DEF len
<1>6. \A t \in Slots : req'[t] = req[t] \/ req'[t].kind # "bonus"
  BY DEF BonusCommit, Finish, IInv, TypeOK, Idle
<1>7. \A t \in Slots : req[t].at <= clock
  BY DEF IInv, RequestsValid
<1>8. MissedOnlyLaterCommits'
  <2> SUFFICES ASSUME NEW t \in Slots, req'[t].kind = "bonus", NEW i \in Manual',
                      account'.ledger[i].by = req'[t].by,
                      account'.ledger[i].op = req'[t].op,
                      account'.ledger[i].amount = req'[t].amount,
                      account'.ledger[i].at > req'[t].at - BonusWindow
               PROVE  req'[t].at <= account'.ledger[i].committed
    BY DEF MissedOnlyLaterCommits
  <2>1. req'[t] = req[t]
    BY <1>6
  <2>2. CASE i = len + 1
    BY <2>1, <2>2, <1>3, <1>4, <1>7
  <2>3. CASE i \in Manual
    BY <2>1, <2>3, <1>4, <1>5 DEF RepeatInv, MissedOnlyLaterCommits
  <2> QED BY <2>2, <2>3, <1>5
<1>9. BonusRepeatOnlyByOverlap'
  <2> SUFFICES ASSUME NEW i \in Manual', NEW j \in Manual', i < j,
                      account'.ledger[i].by = account'.ledger[j].by,
                      account'.ledger[i].op = account'.ledger[j].op,
                      account'.ledger[i].amount = account'.ledger[j].amount,
                      account'.ledger[j].at - account'.ledger[i].at < BonusWindow
               PROVE  account'.ledger[j].at <= account'.ledger[i].committed
    BY DEF BonusRepeatOnlyByOverlap
  <2>0. i \in 1..(len + 1) /\ j \in 1..(len + 1)
    <3>1. len \in Nat
      BY <1>1 DEF len
    <3>2. \A k \in Manual : k \in 1..len
      BY DEF Manual, len
    <3> HIDE DEF len
    <3> QED BY <3>1, <3>2, <1>5
  <2>1. i \in Manual /\ account'.ledger[i] = account.ledger[i]
    <3>1. i # len + 1
      BY <1>4, <2>0
    <3> QED BY <3>1, <1>4, <1>5
  <2>2. CASE j \in Manual
    BY <2>1, <2>2, <1>4, <1>5 DEF RepeatInv, BonusRepeatOnlyByOverlap
  <2>3. CASE j = len + 1
    <3>1. account.ledger[i].at \in Nat /\ r.at \in Nat /\ BonusWindow \in Nat
      <4>1. i \in 1..Len(account.ledger)
        BY <2>1, <1>5 DEF len
      <4>2. account.ledger[i] \in RowType
        BY <1>1, <4>1
      <4> QED BY <1>3, <4>2, BonusDeskAssumption DEF RowType, Time
    <3>2. account.ledger[i].at > req[s].at - BonusWindow
      BY <3>1, <2>1, <2>3, <1>3, <1>4
    <3> QED BY <3>2, <2>1, <2>3, <1>2, <1>3, <1>4
        DEF RepeatInv, MissedOnlyLaterCommits, BonusCommit
  <2> QED BY <2>2, <2>3, <1>5
<1> QED BY <1>8, <1>9 DEF RepeatInv

(***************************************************************************)
(* Every step keeps RepeatInv.                                             *)
(***************************************************************************)
LEMMA NextRepeat == IInv /\ RepeatInv /\ [Next]_vars => RepeatInv'
<1> SUFFICES ASSUME IInv, RepeatInv, [Next]_vars PROVE RepeatInv'
  OBVIOUS
<1> DEFINE Quiet == \A s \in Slots : req'[s] = req[s] \/ req'[s].kind # "bonus"
<1>1. ASSUME NEW s \in Slots, NEW kind, NEW by, NEW op, NEW n, NEW ref,
             Begin(s, kind, by, op, n, ref), kind # "bonus"
      PROVE  Quiet
  BY <1>1 DEF Begin, IInv, TypeOK
<1>2. ASSUME NEW s \in Slots, Finish(s) PROVE Quiet
  BY <1>2 DEF Finish, Idle, IInv, TypeOK
<1> HIDE DEF Quiet
<1>3. ASSUME NEW s \in Slots, NEW src, src # "manual", Finish(s),
             \E r : Appended(s, src, r)
      PROVE  RepeatInv'
  BY <1>2, <1>3, OtherStepRepeat DEF Quiet, Appended
<1>4. ASSUME Quiet, account' = account PROVE RepeatInv'
  BY <1>4, OtherStepRepeat DEF Quiet
<1>5. ASSUME NEW s \in Slots, VisitBegin(s) PROVE RepeatInv'
  BY <1>1, <1>4, <1>5 DEF VisitBegin
<1>6. ASSUME NEW s \in Slots, VisitCommit(s) PROVE RepeatInv'
  BY <1>3, <1>6, CreditedRows DEF VisitCommit
<1>7. ASSUME NEW s \in Slots, NEW prize, SpinBegin(s, prize) PROVE RepeatInv'
  BY <1>1, <1>4, <1>7 DEF SpinBegin
<1>8. ASSUME NEW s \in Slots, SpinCommit(s) PROVE RepeatInv'
  BY <1>2, <1>3, <1>4, <1>8, CreditedRows DEF SpinCommit
<1>9. ASSUME NEW s \in Slots, BirthdayBegin(s) PROVE RepeatInv'
  BY <1>1, <1>4, <1>9 DEF BirthdayBegin
<1>10. ASSUME NEW s \in Slots, BirthdayCommit(s) PROVE RepeatInv'
  BY <1>3, <1>10, CreditedRows DEF BirthdayCommit
<1>11. ASSUME NEW s \in Slots, NEW id, NEW d, DecideBegin(s, id, d) PROVE RepeatInv'
  BY <1>1, <1>4, <1>11 DEF DecideBegin
<1>12. ASSUME NEW s \in Slots, DecideExpire(s) \/ DecideReject(s) \/ Abort(s)
       PROVE  RepeatInv'
  BY <1>2, <1>4, <1>12 DEF DecideExpire, DecideReject, Abort
<1>13. ASSUME NEW s \in Slots, DecideApprove(s) PROVE RepeatInv'
  <2>1. \E r : Appended(s, "approval", r)
    BY <1>13, AppliedRows
  <2> QED BY <2>1, <1>3, <1>13 DEF DecideApprove
<1>14. ASSUME NEW u, NEW op, NEW n, NEW id, RequestApproval(u, op, n, id)
       PROVE  RepeatInv'
  BY <1>4, <1>14 DEF RequestApproval, Quiet
<1>15. ASSUME DeleteCustomer \/ Tick \/ UNCHANGED vars PROVE RepeatInv'
  BY <1>4, <1>15 DEF DeleteCustomer, Tick, vars, Quiet
<1> QED
  BY <1>5, <1>6, <1>7, <1>8, <1>9, <1>10, <1>11, <1>12, <1>13, <1>14, <1>15,
     BeginRepeat, CommitRepeat DEF Next, Quiesce

(***************************************************************************)
(* For every window, two equal manual operations of one employee closer    *)
(* than the window overlapped: the check before the transaction misses     *)
(* nothing else.                                                           *)
(***************************************************************************)
THEOREM RepeatsOverlap == Spec => []BonusRepeatOnlyByOverlap
<1>1. Init => RepeatInv
  BY DEF Init, RepeatInv, MissedOnlyLaterCommits, BonusRepeatOnlyByOverlap, Manual,
         Idle, NewAccount
<1>2. RepeatInv => BonusRepeatOnlyByOverlap
  BY DEF RepeatInv
<1> QED BY <1>1, <1>2, InitIInv, NextIInv, NextRepeat, PTL DEF Spec

-----------------------------------------------------------------------------
(***************************************************************************)
(* ApprovalExecutedOnce speaks of the approvals there are; a new one must  *)
(* not meet a row that already carries its id.                             *)
(***************************************************************************)
ApprovalRowsKnown ==
  \A i \in 1..Len(account.ledger) :
    account.ledger[i].src = "approval" => account.ledger[i].ref \in DOMAIN approvals

ApprovalInv == ApprovalRowsKnown /\ ApprovalExecutedOnce

RowsOf(id) ==
  {i \in 1..Len(account.ledger) :
     account.ledger[i].src = "approval" /\ account.ledger[i].ref = id}

(***************************************************************************)
(* A step that leaves the approvals alone and appends no approval row      *)
(* keeps ApprovalInv.                                                      *)
(***************************************************************************)
LEMMA OtherStepApproval ==
  ASSUME IInv, ApprovalInv, approvals' = approvals,
         \/ account'.ledger = account.ledger
         \/ \E r \in RowType : /\ account'.ledger = Append(account.ledger, r)
                              /\ r.src # "approval"
  PROVE  ApprovalInv'
<1>1. account.ledger \in Seq(RowType)
  BY DEF IInv, TypeOK, IsAccount
<1>2. CASE account'.ledger = account.ledger
  BY <1>2 DEF ApprovalInv, ApprovalRowsKnown, ApprovalExecutedOnce
<1>3. CASE \E r \in RowType : /\ account'.ledger = Append(account.ledger, r)
                            /\ r.src # "approval"
  <2>1. PICK r \in RowType : /\ account'.ledger = Append(account.ledger, r)
                            /\ r.src # "approval"
    BY <1>3
  <2>2. /\ Len(account.ledger) \in Nat
        /\ Len(account'.ledger) = Len(account.ledger) + 1
        /\ account'.ledger[Len(account.ledger) + 1] = r
        /\ \A i \in 1..Len(account.ledger) : account'.ledger[i] = account.ledger[i]
    BY <1>1, <2>1, AppendFacts
  <2>3. ApprovalRowsKnown'
    BY <2>1, <2>2 DEF ApprovalInv, ApprovalRowsKnown
  <2>4. \A id : RowsOf(id)' = RowsOf(id)
    BY <2>1, <2>2 DEF RowsOf
  <2>5. ApprovalExecutedOnce'
    <3>1. ASSUME NEW id \in DOMAIN approvals
          PROVE  /\ RowsOf(id)' = IF approvals[id].status = "approved"
                                  THEN {approvals[id].row} ELSE {}
                 /\ approvals[id].status = "approved" =>
                      account'.ledger[approvals[id].row] = account.ledger[approvals[id].row]
      <4>1. RowsOf(id) = IF approvals[id].status = "approved"
                         THEN {approvals[id].row} ELSE {}
        BY DEF ApprovalInv, ApprovalExecutedOnce, RowsOf
      <4>2. approvals[id].status = "approved" => approvals[id].row \in 1..Len(account.ledger)
        BY <4>1 DEF RowsOf
      <4> QED BY <4>1, <4>2, <2>2, <2>4
    <3> QED BY <3>1 DEF ApprovalInv, ApprovalExecutedOnce, RowsOf
  <2> QED BY <2>3, <2>5 DEF ApprovalInv
<1> QED BY <1>2, <1>3

(***************************************************************************)
(* The writes to the approvals: a new request, a decision without points,  *)
(* a decision that executes.                                               *)
(***************************************************************************)
LEMMA RequestApprovalStep ==
  ASSUME IInv, ApprovalInv, NEW u, NEW op, NEW n, NEW id, RequestApproval(u, op, n, id)
  PROVE  ApprovalInv'
<1>1. /\ id \notin DOMAIN approvals
      /\ DOMAIN approvals' = DOMAIN approvals \cup {id}
      /\ approvals'[id].status = "pending"
      /\ \A x \in DOMAIN approvals : approvals'[x] = approvals[x]
      /\ account' = account
  BY DEF RequestApproval
<1>2. ApprovalRowsKnown'
  BY <1>1 DEF ApprovalInv, ApprovalRowsKnown
<1>3. RowsOf(id) = {}
  BY <1>1 DEF ApprovalInv, ApprovalRowsKnown, RowsOf
<1>4. ApprovalExecutedOnce'
  BY <1>1, <1>3 DEF ApprovalInv, ApprovalExecutedOnce, RowsOf
<1> QED BY <1>2, <1>4 DEF ApprovalInv

(* Expiring or rejecting an approval posts nothing and ends it for good. *)
LEMMA CloseApprovalStep ==
  ASSUME IInv, ApprovalInv, NEW s \in Slots, DecideExpire(s) \/ DecideReject(s)
  PROVE  ApprovalInv'
<1> DEFINE id == req[s].ref
<1>1. /\ id \in DOMAIN approvals /\ approvals[id].status = "pending"
      /\ approvals[id] \in ApprovalType
      /\ DOMAIN approvals' = DOMAIN approvals
      /\ approvals'[id].status \in {"expired", "rejected"}
      /\ \A x \in DOMAIN approvals : x # id => approvals'[x] = approvals[x]
      /\ account' = account
  BY DEF DecideExpire, DecideReject, Pending, IInv, RequestsValid, TypeOK, ApprovalType
<1> HIDE DEF id
<1>2. ApprovalRowsKnown'
  BY <1>1 DEF ApprovalInv, ApprovalRowsKnown
<1>3. ApprovalExecutedOnce'
  BY <1>1 DEF ApprovalInv, ApprovalExecutedOnce
<1> QED BY <1>2, <1>3 DEF ApprovalInv

(* decideOperationApproval posts one ledger row, for an approval that had none. *)
LEMMA ApproveStep ==
  ASSUME IInv, ApprovalInv, NEW s \in Slots, DecideApprove(s)
  PROVE  ApprovalInv'
<1> DEFINE id  == req[s].ref
           len == Len(account.ledger)
<1>1. account.ledger \in Seq(RowType) /\ len \in Nat
  BY DEF IInv, TypeOK, IsAccount
<1>2. PICK r : /\ Appended(s, "approval", r)
               /\ r.ref = id
               /\ r.op = approvals[id].op /\ r.amount = approvals[id].amount
               /\ r.by = approvals[id].by
  BY AppliedRows
<1>3. /\ r \in RowType /\ r.src = "approval" /\ r.committed = clock
      /\ Len(account'.ledger) = len + 1
      /\ account'.ledger[len + 1] = r
      /\ \A i \in 1..len : account'.ledger[i] = account.ledger[i]
  BY <1>1, <1>2, AppendFacts DEF Appended
<1>4. /\ id \in DOMAIN approvals /\ approvals[id].status = "pending"
      /\ approvals[id] \in ApprovalType
      /\ ~(approvals[id].expires <= clock)
      /\ DOMAIN approvals' = DOMAIN approvals
      /\ \A x \in DOMAIN approvals : x # id => approvals'[x] = approvals[x]
  BY DEF DecideApprove, Pending, Overdue, IInv, RequestsValid, TypeOK
<1>5. /\ approvals'[id].status = "approved" /\ approvals'[id].row = len + 1
      /\ approvals'[id].op = approvals[id].op
      /\ approvals'[id].amount = approvals[id].amount
      /\ approvals'[id].by = approvals[id].by
      /\ approvals'[id].expires = approvals[id].expires
  BY <1>4 DEF DecideApprove, ApprovalType
<1>6. clock < approvals[id].expires
  BY <1>4 DEF IInv, TypeOK, Time, ApprovalType
<1> HIDE DEF id, len
<1>7. ApprovalRowsKnown'
  BY SMTT(30), <1>1, <1>2, <1>3, <1>4 DEF ApprovalInv, ApprovalRowsKnown, len
<1>8. ASSUME NEW x
      PROVE  RowsOf(x)' = IF x = id THEN RowsOf(x) \cup {len + 1} ELSE RowsOf(x)
  <2>1. 1..(len + 1) = 1..len \cup {len + 1} /\ len + 1 \notin 1..len
    BY <1>1 DEF len
  <2> QED BY <2>1, <1>2, <1>3 DEF RowsOf, len
<1>9. RowsOf(id) = {}
  BY <1>4 DEF ApprovalInv, ApprovalExecutedOnce, RowsOf
<1>10. ASSUME NEW x \in DOMAIN approvals, x # id
       PROVE  /\ RowsOf(x)' = IF approvals[x].status = "approved"
                              THEN {approvals[x].row} ELSE {}
              /\ approvals[x].status = "approved" =>
                   account'.ledger[approvals[x].row] = account.ledger[approvals[x].row]
  <2>1. RowsOf(x) = IF approvals[x].status = "approved" THEN {approvals[x].row} ELSE {}
    BY DEF ApprovalInv, ApprovalExecutedOnce, RowsOf
  <2>2. approvals[x].status = "approved" => approvals[x].row \in 1..len
    BY <2>1 DEF RowsOf, len
  <2> QED BY <2>1, <2>2, <1>3, <1>8, <1>10
<1>11. ApprovalExecutedOnce'
  <2>1. ASSUME NEW x \in DOMAIN approvals
        PROVE  RowsOf(x)' = IF approvals'[x].status = "approved"
                            THEN {approvals'[x].row} ELSE {}
    <3>1. CASE x = id
      BY <3>1, <1>5, <1>8, <1>9
    <3>2. CASE x # id
      BY <3>2, <1>4, <1>10
    <3> QED BY <3>1, <3>2
  <2>2. ASSUME NEW x \in DOMAIN approvals, approvals'[x].status = "approved"
        PROVE  LET y == account'.ledger[approvals'[x].row]
               IN  /\ y.op = approvals'[x].op /\ y.amount = approvals'[x].amount
                   /\ y.by = approvals'[x].by /\ y.committed < approvals'[x].expires
    <3>1. CASE x = id
      BY <3>1, <1>2, <1>3, <1>5, <1>6
    <3>2. CASE x # id
      BY <3>2, <2>2, <1>4, <1>10 DEF ApprovalInv, ApprovalExecutedOnce
    <3> QED BY <3>1, <3>2
  <2> QED BY <2>1, <2>2, <1>4 DEF ApprovalExecutedOnce, RowsOf
<1> QED BY <1>7, <1>11 DEF ApprovalInv

(***************************************************************************)
(* Every step keeps ApprovalInv.                                           *)
(***************************************************************************)
LEMMA NextApproval == IInv /\ ApprovalInv /\ [Next]_vars => ApprovalInv'
<1> SUFFICES ASSUME IInv, ApprovalInv, [Next]_vars PROVE ApprovalInv'
  OBVIOUS
<1>1. ASSUME approvals' = approvals, account' = account PROVE ApprovalInv'
  BY <1>1, OtherStepApproval
<1>2. ASSUME NEW s \in Slots, NEW src, src # "approval", approvals' = approvals,
             \E r : Appended(s, src, r)
      PROVE  ApprovalInv'
  BY <1>2, OtherStepApproval DEF Appended
<1>3. ASSUME NEW s \in Slots, BonusCommit(s) PROVE ApprovalInv'
  <2>1. \E r : Appended(s, "manual", r)
    BY <1>3, AppliedRows
  <2> QED BY <2>1, <1>2, <1>3 DEF BonusCommit
<1>4. ASSUME NEW s \in Slots, VisitCommit(s) PROVE ApprovalInv'
  BY <1>2, <1>4, CreditedRows DEF VisitCommit
<1>5. ASSUME NEW s \in Slots, SpinCommit(s) PROVE ApprovalInv'
  BY <1>1, <1>2, <1>5, CreditedRows DEF SpinCommit
<1>6. ASSUME NEW s \in Slots, BirthdayCommit(s) PROVE ApprovalInv'
  BY <1>2, <1>6, CreditedRows DEF BirthdayCommit
<1>7. ASSUME NEW s \in Slots, NEW u, NEW op, NEW n, NEW key,
             \/ BonusBegin(s, u, op, n, key) \/ VisitBegin(s) \/ SpinBegin(s, n)
             \/ BirthdayBegin(s) \/ DecideBegin(s, key, op) \/ Abort(s)
      PROVE  ApprovalInv'
  BY <1>1, <1>7 DEF BonusBegin, VisitBegin, SpinBegin, BirthdayBegin, DecideBegin, Abort
<1>8. ASSUME DeleteCustomer \/ Tick \/ UNCHANGED vars PROVE ApprovalInv'
  BY <1>1, <1>8 DEF DeleteCustomer, Tick, vars
<1> QED
  BY <1>3, <1>4, <1>5, <1>6, <1>7, <1>8, RequestApprovalStep, CloseApprovalStep,
     ApproveStep DEF Next, Quiesce

(***************************************************************************)
(* Every approval executes at most once, exactly when approved, with the   *)
(* payload it was requested with and before it expires.                    *)
(***************************************************************************)
THEOREM ApprovalsExact == Spec => []ApprovalExecutedOnce
<1>1. Init => ApprovalInv
  BY DEF Init, ApprovalInv, ApprovalRowsKnown, ApprovalExecutedOnce, NewAccount,
         EmptyFunction
<1>2. ApprovalInv => ApprovalExecutedOnce
  BY DEF ApprovalInv
<1> QED BY <1>1, <1>2, InitIInv, NextIInv, NextApproval, PTL DEF Spec

-----------------------------------------------------------------------------
(***************************************************************************)
(* Once the customer is archived, the only step that can still write the   *)
(* account is the commit of a wheel spin or of a birthday bonus: every     *)
(* other handler looks at deleted_at under the customer lock.              *)
(***************************************************************************)
THEOREM ArchivedAccountStands == Spec => ArchivedFrozenForStaff
<1> DEFINE Newest == account'.ledger[Len(account'.ledger)].src
<1>1. ASSUME IInv, NEW s \in Slots, NEW src, \E r : Appended(s, src, r)
      PROVE  Newest = src
  <2>1. PICK r : Appended(s, src, r)
    BY <1>1
  <2>2. account.ledger \in Seq(RowType)
    BY <1>1 DEF IInv, TypeOK, IsAccount
  <2>3. /\ Len(account'.ledger) = Len(account.ledger) + 1
        /\ account'.ledger[Len(account.ledger) + 1] = r
    BY <2>1, <2>2, AppendFacts DEF Appended
  <2> QED BY <2>1, <2>3 DEF Appended
<1>2. ASSUME IInv, [Next]_vars, archived, account' # account
      PROVE  Newest \in {"wheel", "birthday"}
  <2>1. \E s \in Slots : SpinCommit(s) \/ BirthdayCommit(s)
    BY <1>2 DEF Next, vars, Quiesce, BonusBegin, BonusCommit, VisitBegin, VisitCommit,
       SpinBegin, BirthdayBegin, RequestApproval, DecideBegin, DecideExpire,
       DecideReject, DecideApprove, DeleteCustomer, Abort, Tick
  <2> QED BY <2>1, <1>1, <1>2, CreditedRows
<1> QED BY <1>2, InitIInv, NextIInv, PTL DEF Spec, ArchivedFrozenForStaff

-----------------------------------------------------------------------------
(***************************************************************************)
(* As for the duplicate check of customerBonus, the weekly check of the    *)
(* wheel says something of the spins in flight: a spin of the week that    *)
(* the check of one of them did not see was committed after it began.  And *)
(* a birthday row's year is among the event keys.                          *)
(***************************************************************************)
MissedOnlyLaterSpins ==
  \A s \in Slots : req[s].kind = "spin" =>
    \A x \in spins : x.at > req[s].at - SpinWindow => req[s].at <= x.committed

SpinsBegun == \A x \in spins : x.at <= clock

SpinInv == MissedOnlyLaterSpins /\ SpinsBegun /\ SpinRepeatOnlyByOverlap

BirthdayRowsKeyed ==
  \A i \in 1..Len(account.ledger) :
    account.ledger[i].src = "birthday" => account.ledger[i].ref \in birthdays

BirthdayInv == BirthdayRowsKeyed /\ BirthdayPaidOnce

(***************************************************************************)
(* No other step adds a spin or a request to spin.                         *)
(***************************************************************************)
LEMMA OtherStepSpin ==
  ASSUME IInv, SpinInv, spins' = spins, clock' \in Time, clock <= clock',
         \A s \in Slots : req'[s] = req[s] \/ req'[s].kind # "spin"
  PROVE  SpinInv'
<1>1. \A x \in spins : x.at \in Int
  BY DEF IInv, TypeOK, Time
<1>2. SpinsBegun'
  BY <1>1 DEF SpinInv, SpinsBegun, IInv, TypeOK, Time
<1>3. SpinRepeatOnlyByOverlap'
  BY DEF SpinInv, SpinRepeatOnlyByOverlap
<1>4. MissedOnlyLaterSpins'
  BY DEF SpinInv, MissedOnlyLaterSpins
<1> QED BY <1>2, <1>3, <1>4 DEF SpinInv

(* The weekly check establishes it for the spin that begins. *)
LEMMA BeginSpin ==
  ASSUME IInv, SpinInv, NEW s \in Slots, NEW prize, SpinBegin(s, prize)
  PROVE  SpinInv'
<1>1. /\ spins' = spins /\ clock \in Nat /\ clock' = clock + 1
      /\ req'[s].at = clock + 1
      /\ \A t \in Slots : t # s => req'[t] = req[t]
  BY DEF SpinBegin, Begin, Now, IInv, TypeOK, Time
<1>2. \A x \in spins : x.at \in Nat
  BY DEF IInv, TypeOK, Time
<1>3. SpinsBegun'
  BY <1>1, <1>2 DEF SpinInv, SpinsBegun
<1>4. SpinRepeatOnlyByOverlap'
  BY <1>1 DEF SpinInv, SpinRepeatOnlyByOverlap
<1>5. ASSUME NEW t \in Slots, req'[t].kind = "spin", NEW x \in spins,
             x.at > req'[t].at - SpinWindow
      PROVE  req'[t].at <= x.committed
  <2>1. CASE t = s
    <3>1. \A y \in spins : y.at <= Now - SpinWindow
      BY DEF SpinBegin
    <3>2. req'[t].at = Now
      BY <1>1, <2>1 DEF Now
    <3> QED BY <1>1, <1>2, <1>5, <3>1, <3>2, BonusDeskAssumption DEF Now
  <2>2. CASE t # s
    BY <1>1, <1>5, <2>2 DEF SpinInv, MissedOnlyLaterSpins
  <2> QED BY <2>1, <2>2
<1>6. MissedOnlyLaterSpins'
  BY <1>1, <1>5 DEF MissedOnlyLaterSpins
<1> QED BY <1>3, <1>4, <1>6 DEF SpinInv

(* A spin that commits; the spins still in flight began before it. *)
LEMMA CommitSpin ==
  ASSUME IInv, SpinInv, NEW s \in Slots, SpinCommit(s)
  PROVE  SpinInv'
<1>1. PICK y \in [at : Time, committed : Time] : y = [at |-> req[s].at, committed |-> clock]
  BY DEF IInv, TypeOK, RequestType
<1>2. /\ req[s].kind = "spin" /\ req[s].at = y.at /\ y.committed = clock
      /\ y.at \in Nat /\ clock \in Nat /\ clock' = clock /\ spins' = spins \cup {y}
  BY <1>1 DEF SpinCommit, Time, IInv, TypeOK
<1>3. \A t \in Slots : req'[t] = req[t] \/ req'[t].kind # "spin"
  BY DEF SpinCommit, Finish, Idle, IInv, TypeOK
<1>4. \A t \in Slots : req[t].at <= clock
  BY DEF IInv, RequestsValid
<1>5. \A x \in spins : x.at \in Nat
  BY DEF IInv, TypeOK, Time
<1>6. SpinsBegun'
  BY <1>2, <1>4 DEF SpinInv, SpinsBegun
<1>7. MissedOnlyLaterSpins'
  <2> SUFFICES ASSUME NEW t \in Slots, req'[t].kind = "spin", NEW x \in spins',
                      x.at > req'[t].at - SpinWindow
               PROVE  req'[t].at <= x.committed
    BY DEF MissedOnlyLaterSpins
  <2>1. req'[t] = req[t]
    BY <1>3
  <2>2. CASE x = y
    BY <2>1, <2>2, <1>2, <1>4
  <2>3. CASE x \in spins
    BY <2>1, <2>3 DEF SpinInv, MissedOnlyLaterSpins
  <2> QED BY <2>2, <2>3, <1>2
<1>8. SpinRepeatOnlyByOverlap'
  <2> SUFFICES ASSUME NEW x \in spins', NEW z \in spins',
                      x.at < z.at, z.at - x.at < SpinWindow
               PROVE  z.at <= x.committed
    BY DEF SpinRepeatOnlyByOverlap
  <2>1. CASE x = y
    <3>1. z.at <= clock
      BY <1>2, <1>6 DEF SpinsBegun
    <3> QED BY <2>1, <3>1, <1>2
  <2>2. CASE x \in spins /\ z \in spins
    BY <2>2 DEF SpinInv, SpinRepeatOnlyByOverlap
  <2>3. CASE x \in spins /\ z = y
    <3>1. x.at > req[s].at - SpinWindow
      BY <2>3, <1>2, <1>5, BonusDeskAssumption
    <3> QED BY <2>3, <3>1, <1>2 DEF SpinInv, MissedOnlyLaterSpins
  <2> QED BY <2>1, <2>2, <2>3, <1>2
<1> QED BY <1>6, <1>7, <1>8 DEF SpinInv

(***************************************************************************)
(* Every step keeps SpinInv.                                               *)
(***************************************************************************)
LEMMA NextSpin == IInv /\ SpinInv /\ [Next]_vars => SpinInv'
<1> SUFFICES ASSUME IInv, SpinInv, [Next]_vars PROVE SpinInv'
  OBVIOUS
<1> DEFINE Quiet == \A s \in Slots : req'[s] = req[s] \/ req'[s].kind # "spin"
<1>1. ASSUME NEW s \in Slots, NEW kind, NEW by, NEW op, NEW n, NEW ref,
             Begin(s, kind, by, op, n, ref), kind # "spin", spins' = spins
      PROVE  SpinInv'
  <2>1. Quiet
    BY <1>1 DEF Begin, IInv, TypeOK
  <2>2. clock' \in Time /\ clock <= clock'
    BY <1>1, BonusDeskAssumption DEF Begin, Now, IInv, TypeOK, Time
  <2> QED BY <1>1, <2>1, <2>2, OtherStepSpin
<1>2. ASSUME NEW s \in Slots, Finish(s), spins' = spins, clock' = clock PROVE SpinInv'
  <2>1. Quiet
    BY <1>2 DEF Finish, Idle, IInv, TypeOK
  <2>2. clock' \in Time /\ clock <= clock'
    BY <1>2 DEF IInv, TypeOK, Time
  <2> QED BY <1>2, <2>1, <2>2, OtherStepSpin
<1>3. ASSUME spins' = spins, req' = req, clock' = clock \/ (clock < MaxClock /\ clock' = Now)
      PROVE  SpinInv'
  <2>1. clock' \in Time /\ clock <= clock'
    BY <1>3, BonusDeskAssumption DEF Now, IInv, TypeOK, Time
  <2> QED BY <1>3, <2>1, OtherStepSpin
<1>4. ASSUME NEW s \in Slots, NEW u, NEW op, NEW n, NEW id,
             \/ BonusBegin(s, u, op, n, id) \/ VisitBegin(s) \/ BirthdayBegin(s)
             \/ DecideBegin(s, id, op)
      PROVE  SpinInv'
  BY <1>1, <1>4 DEF BonusBegin, VisitBegin, BirthdayBegin, DecideBegin
<1>5. ASSUME NEW s \in Slots,
             \/ BonusCommit(s) \/ VisitCommit(s) \/ BirthdayCommit(s)
             \/ DecideExpire(s) \/ DecideReject(s) \/ DecideApprove(s) \/ Abort(s)
      PROVE  SpinInv'
  BY <1>2, <1>5 DEF BonusCommit, VisitCommit, BirthdayCommit, DecideExpire, DecideReject,
     DecideApprove, Abort
<1>6. ASSUME NEW u, NEW op, NEW n, NEW id, RequestApproval(u, op, n, id) PROVE SpinInv'
  BY <1>3, <1>6 DEF RequestApproval
<1>7. ASSUME DeleteCustomer \/ Tick \/ UNCHANGED vars PROVE SpinInv'
  BY <1>3, <1>7 DEF DeleteCustomer, Tick, vars
<1> QED
  BY <1>4, <1>5, <1>6, <1>7, BeginSpin, CommitSpin DEF Next, Quiesce

(***************************************************************************)
(* A step that appends no birthday row keeps BirthdayInv, as long as no    *)
(* key disappears.                                                         *)
(***************************************************************************)
LEMMA OtherStepBirthday ==
  ASSUME IInv, BirthdayInv, birthdays' = birthdays,
         \/ account'.ledger = account.ledger
         \/ \E r \in RowType : /\ account'.ledger = Append(account.ledger, r)
                              /\ r.src # "birthday"
  PROVE  BirthdayInv'
<1>1. account.ledger \in Seq(RowType)
  BY DEF IInv, TypeOK, IsAccount
<1>2. CASE account'.ledger = account.ledger
  BY <1>2 DEF BirthdayInv, BirthdayRowsKeyed, BirthdayPaidOnce
<1>3. CASE \E r \in RowType : /\ account'.ledger = Append(account.ledger, r)
                            /\ r.src # "birthday"
  <2>1. PICK r \in RowType : /\ account'.ledger = Append(account.ledger, r)
                            /\ r.src # "birthday"
    BY <1>3
  <2>2. /\ Len(account.ledger) \in Nat
        /\ Len(account'.ledger) = Len(account.ledger) + 1
        /\ account'.ledger[Len(account.ledger) + 1] = r
        /\ \A i \in 1..Len(account.ledger) : account'.ledger[i] = account.ledger[i]
    BY <1>1, <2>1, AppendFacts
  <2>3. \A i \in 1..Len(account'.ledger) : account'.ledger[i].src = "birthday" =>
          i \in 1..Len(account.ledger) /\ account'.ledger[i] = account.ledger[i]
    BY <2>1, <2>2
  <2>4. BirthdayRowsKeyed'
    BY <2>3 DEF BirthdayInv, BirthdayRowsKeyed
  <2>5. BirthdayPaidOnce'
    BY <2>3 DEF BirthdayInv, BirthdayPaidOnce
  <2> QED BY <2>4, <2>5 DEF BirthdayInv
<1> QED BY <1>2, <1>3

(* processBirthdayBonuses appends the row of a year whose key is new. *)
LEMMA CommitBirthday ==
  ASSUME IInv, BirthdayInv, NEW s \in Slots, BirthdayCommit(s)
  PROVE  BirthdayInv'
<1> DEFINE len == Len(account.ledger)
           year == req[s].ref
<1>1. account.ledger \in Seq(RowType) /\ len \in Nat
  BY DEF IInv, TypeOK, IsAccount
<1>2. year \notin birthdays /\ birthdays' = birthdays \cup {year}
  BY DEF BirthdayCommit
<1>3. PICK r : Appended(s, "birthday", r) /\ r.ref = year
  <2>1. PICK r : Appended(s, "birthday", r)
    BY CreditedRows
  <2>2. account'.ledger = Append(account.ledger,
          LedgerRow("credit", req[s].amount, account.points + req[s].amount,
                    Row(s, "birthday", Nobody, year)))
    BY DEF BirthdayCommit, Credit
  <2>3. r.ref = year
    <3> DEFINE q == LedgerRow("credit", req[s].amount, account.points + req[s].amount,
                              Row(s, "birthday", Nobody, year))
    <3>1. q.ref = year
      BY DEF LedgerRow, Row
    <3> HIDE DEF q
    <3>2. Append(account.ledger, r) = Append(account.ledger, q)
      BY <2>1, <2>2 DEF Appended, q
    <3>3. r = q
      BY <3>2, <1>1
    <3> QED BY <3>1, <3>3
  <2> QED BY <2>1, <2>3
<1>4. /\ r.src = "birthday"
      /\ Len(account'.ledger) = len + 1
      /\ account'.ledger[len + 1] = r
      /\ \A i \in 1..len : account'.ledger[i] = account.ledger[i]
  BY <1>1, <1>3, AppendFacts DEF Appended
<1>5. \A i \in 1..len : account'.ledger[i].src = "birthday" =>
        account'.ledger[i].ref \in birthdays
  BY <1>4 DEF BirthdayInv, BirthdayRowsKeyed
<1> HIDE DEF len, year
<1>6. \A i \in 1..(len + 1) : i \in 1..len \/ i = len + 1
  BY <1>1 DEF len
<1>7. BirthdayRowsKeyed'
  BY <1>2, <1>3, <1>4, <1>5, <1>6 DEF BirthdayRowsKeyed
<1>8. BirthdayPaidOnce'
  <2>1. \A i, j \in 1..len :
          /\ account'.ledger[i].src = "birthday" /\ account'.ledger[j].src = "birthday"
          /\ account'.ledger[i].ref = account'.ledger[j].ref
          => i = j
    BY <1>4 DEF BirthdayInv, BirthdayPaidOnce, len
  <2> QED BY <2>1, <1>2, <1>3, <1>4, <1>5, <1>6 DEF BirthdayPaidOnce
<1> QED BY <1>7, <1>8 DEF BirthdayInv

(***************************************************************************)
(* Every step keeps BirthdayInv.                                           *)
(***************************************************************************)
LEMMA NextBirthday == IInv /\ BirthdayInv /\ [Next]_vars => BirthdayInv'
<1> SUFFICES ASSUME IInv, BirthdayInv, [Next]_vars PROVE BirthdayInv'
  OBVIOUS
<1>1. ASSUME birthdays' = birthdays, account' = account PROVE BirthdayInv'
  BY <1>1, OtherStepBirthday
<1>2. ASSUME NEW s \in Slots, NEW src, src # "birthday", birthdays' = birthdays,
             \E r : Appended(s, src, r)
      PROVE  BirthdayInv'
  BY <1>2, OtherStepBirthday DEF Appended
<1>3. ASSUME NEW s \in Slots, BonusCommit(s) PROVE BirthdayInv'
  <2>1. \E r : Appended(s, "manual", r)
    BY <1>3, AppliedRows
  <2> QED BY <2>1, <1>2, <1>3 DEF BonusCommit
<1>4. ASSUME NEW s \in Slots, VisitCommit(s) PROVE BirthdayInv'
  BY <1>2, <1>4, CreditedRows DEF VisitCommit
<1>5. ASSUME NEW s \in Slots, SpinCommit(s) PROVE BirthdayInv'
  BY <1>1, <1>2, <1>5, CreditedRows DEF SpinCommit
<1>6. ASSUME NEW s \in Slots, DecideApprove(s) PROVE BirthdayInv'
  <2>1. \E r : Appended(s, "approval", r)
    BY <1>6, AppliedRows
  <2> QED BY <2>1, <1>2, <1>6 DEF DecideApprove
<1>7. ASSUME NEW s \in Slots, NEW u, NEW op, NEW n, NEW key,
             \/ BonusBegin(s, u, op, n, key) \/ VisitBegin(s) \/ SpinBegin(s, n)
             \/ BirthdayBegin(s) \/ DecideBegin(s, key, op) \/ Abort(s)
             \/ DecideExpire(s) \/ DecideReject(s)
      PROVE  BirthdayInv'
  BY <1>1, <1>7 DEF BonusBegin, VisitBegin, SpinBegin, BirthdayBegin, DecideBegin, Abort,
     DecideExpire, DecideReject
<1>8. ASSUME NEW u, NEW op, NEW n, NEW id, RequestApproval(u, op, n, id) PROVE BirthdayInv'
  BY <1>1, <1>8 DEF RequestApproval
<1>9. ASSUME DeleteCustomer \/ Tick \/ UNCHANGED vars PROVE BirthdayInv'
  BY <1>1, <1>9 DEF DeleteCustomer, Tick, vars
<1> QED
  BY <1>3, <1>4, <1>5, <1>6, <1>7, <1>8, <1>9, CommitBirthday DEF Next, Quiesce

(***************************************************************************)
(* Whatever overlaps, a week's wheel prize is paid twice only to spins     *)
(* that were in flight together, and a year's birthday bonus never twice.  *)
(***************************************************************************)
THEOREM GiftsGivenOnce == Spec => []GiftsOnce
<1>1. Init => SpinInv /\ BirthdayInv
  BY DEF Init, SpinInv, MissedOnlyLaterSpins, SpinsBegun, SpinRepeatOnlyByOverlap,
         BirthdayInv, BirthdayRowsKeyed, BirthdayPaidOnce, NewAccount
<1>2. SpinInv /\ BirthdayInv => GiftsOnce
  BY DEF SpinInv, BirthdayInv, GiftsOnce
<1> QED BY <1>1, <1>2, InitIInv, NextIInv, NextSpin, NextBirthday, PTL DEF Spec

-----------------------------------------------------------------------------
(* What one more visit does to the number of full rounds. *)
LEMMA NextRound ==
  ASSUME NEW n \in Nat, NEW t \in Nat \ {0}
  PROVE  /\ n \div t \in Nat
         /\ (n + 1) % t \in 0..(t - 1)
         /\ (n + 1) \div t = IF (n + 1) % t = 0 THEN n \div t + 1 ELSE n \div t
OBVIOUS

(* A rule that pays every round: "repeat", on a repeatable reward, without cooldown. *)
RepeatRule == RuleMode = "repeat" /\ Repeatable /\ Cooldown = 0

(* The reward a visit unlocks. *)
IssuedRow(count, now, wall) ==
  [customer |-> Guest, key |-> <<"rule", Guest, count \div Threshold>>,
   status |-> "available", at |-> now,
   expires |-> IF Validity = 0 THEN Never ELSE wall + Validity, until |-> Never]

(* No round ends, its reward exists already, or none is left. *)
NothingDue(st, count) ==
  \/ count % Threshold # 0
  \/ WithKey(st, <<"rule", Guest, count \div Threshold>>) # {}
  \/ OutOfStock(st)

(***************************************************************************)
(* evaluateRewardEvent under such a rule issues one reward, under the key  *)
(* of the round, exactly when one is due.                                  *)
(***************************************************************************)
LEMMA RepeatRuleIssues ==
  ASSUME RepeatRule, NEW st, NEW count \in Nat, NEW now, NEW wall, NEW next,
         next = EvaluateRewardEvent(st, Guest, count, now, wall)
  PROVE  /\ NothingDue(st, count) =>
              next.issued = st.issued /\ next.rewards = st.rewards
         /\ ~NothingDue(st, count) =>
              /\ next.issued = st.issued + 1
              /\ next.rewards = Append(st.rewards, IssuedRow(count, now, wall))
<1> DEFINE key  == <<"rule", Guest, count \div Threshold>>
           up   == UpsertProgress(st, Guest, count, wall)
<1>1. RuleKey(Guest, count, wall) = key
  BY DEF RuleKey, RepeatRule
<1>2. count % Threshold \in 0..(Threshold - 1) /\ Threshold \in Nat \ {0}
  BY RewardStockAssumption
<1>3. ProgressValue(count) < Threshold <=> count % Threshold # 0
  BY <1>2 DEF ProgressValue, RepeatRule
<1>4. up.issued = st.issued /\ up.rewards = st.rewards
  BY DEF UpsertProgress
<1>5. \A s : Complete(s, Guest, wall).issued = s.issued
             /\ Complete(s, Guest, wall).rewards = s.rewards
  BY DEF Complete
<1>6. key # NoKey
  BY DEF NoKey
<1>7. Existing(up, key) = WithKey(st, key)
  BY <1>4, <1>6 DEF Existing, WithKey
<1>8. IssueRefused(up, Guest, now) <=> OutOfStock(st)
  BY <1>4 DEF IssueRefused, OutOfStock, AlreadyHeld, CoolingDown, RepeatRule
<1>9. ASSUME WithKey(st, key) = {}
      PROVE  /\ IssueRow(up, Guest, key, now, wall).issued = st.issued + 1
             /\ IssueRow(up, Guest, key, now, wall).rewards
                  = Append(st.rewards, IssuedRow(count, now, wall))
  BY <1>4, <1>7, <1>9 DEF IssueRow, IssuedRow
<1>10. next = IF ProgressValue(count) < Threshold THEN up
              ELSE IF Existing(up, key) # {} THEN Complete(up, Guest, wall)
              ELSE IF IssueRefused(up, Guest, now) THEN up
              ELSE Complete(IssueRow(up, Guest, key, now, wall), Guest, wall)
  BY <1>1 DEF EvaluateRewardEvent, RepeatRule
<1>11. NothingDue(st, count)
        <=> \/ count % Threshold # 0
            \/ WithKey(st, key) # {}
            \/ OutOfStock(st)
  BY DEF NothingDue
<1> HIDE DEF up, key
<1>12. CASE count % Threshold # 0
  BY <1>3, <1>4, <1>10, <1>11, <1>12
<1>13. CASE count % Threshold = 0 /\ WithKey(st, key) # {}
  BY <1>3, <1>4, <1>5, <1>7, <1>10, <1>11, <1>13
<1>14. CASE count % Threshold = 0 /\ WithKey(st, key) = {} /\ OutOfStock(st)
  BY <1>3, <1>4, <1>7, <1>8, <1>10, <1>11, <1>14
<1>15. CASE ~NothingDue(st, count)
  BY <1>3, <1>5, <1>7, <1>8, <1>9, <1>10, <1>11, <1>15
<1> QED BY <1>11, <1>12, <1>13, <1>14, <1>15

-----------------------------------------------------------------------------
(***************************************************************************)
(* What VisitsExact needs besides itself: the visits in flight have        *)
(* timestamps of their own, so that each commit adds one visit; and the    *)
(* rewards carry the keys of the rounds so far, so that the next round's   *)
(* key is free.                                                            *)
(***************************************************************************)
VisitsApart ==
  \A s \in Slots : req[s].kind = "visit" =>
    /\ req[s].at \notin visits
    /\ \A t \in Slots \ {s} : req[t].kind = "visit" => req[t].at # req[s].at

VisitsBegun == \A v \in visits : v <= clock

Rounds == Cardinality(visits) \div Threshold

RoundReward ==
  [customer : {Guest}, key : {"rule"} \X {Guest} \X Nat, status : {"available"},
   at : Time, expires : Nat, until : {Never}]

RoundsRewarded ==
  RepeatRule =>
    /\ stock.rewards \in Seq(RoundReward)
    /\ stock.issued = Len(stock.rewards)
    /\ \A i \in 1..Len(stock.rewards) : stock.rewards[i].key[3] <= Rounds
    /\ Len(stock.rewards) = IF InventoryTotal = -1 THEN Rounds
                            ELSE Min({InventoryTotal, Rounds})

VisitInv == VisitsApart /\ VisitsBegun /\ VisitsWithinLimits /\ RoundsRewarded

(***************************************************************************)
(* A customer has finitely many visits: their timestamps lie below the     *)
(* clock.                                                                  *)
(***************************************************************************)
LEMMA VisitsFinite ==
  ASSUME TypeOK
  PROVE  IsFiniteSet(visits) /\ Cardinality(visits) \in Nat
<1>1. IsFiniteSet(0..MaxClock)
  BY FS_Interval, BonusDeskAssumption
<1> QED BY <1>1, FS_Subset, FS_CardinalityType DEF TypeOK, Time

(***************************************************************************)
(* A step that leaves the visits and the rewards alone keeps VisitInv if   *)
(* it keeps the timestamps apart.                                          *)
(***************************************************************************)
LEMMA OtherStepVisit ==
  ASSUME IInv, VisitInv, visits' = visits, stock' = stock, clock' \in Time,
         clock <= clock', VisitsApart'
  PROVE  VisitInv'
<1>1. VisitsBegun'
  BY DEF VisitInv, VisitsBegun, IInv, TypeOK, Time
<1>2. VisitsWithinLimits'
  BY DEF VisitInv, VisitsWithinLimits
<1>3. RoundsRewarded'
  BY DEF VisitInv, RoundsRewarded, Rounds
<1> QED BY <1>1, <1>2, <1>3 DEF VisitInv

(* Begin hands out a timestamp that no visit and no other request has. *)
LEMMA BeginApart ==
  ASSUME IInv, VisitInv, visits' = visits, NEW s \in Slots, NEW kind, NEW by, NEW op,
         NEW n, NEW ref, Begin(s, kind, by, op, n, ref)
  PROVE  VisitsApart' /\ clock' \in Time /\ clock <= clock'
<1>1. /\ clock \in Nat /\ clock' = clock + 1 /\ clock' \in Time
      /\ req'[s].at = clock + 1
      /\ \A t \in Slots : t # s => req'[t] = req[t]
  BY BonusDeskAssumption DEF Begin, Now, IInv, TypeOK, Time
<1>2. \A t \in Slots : req[t].at \in Nat /\ req[t].at <= clock
  BY DEF IInv, TypeOK, RequestsValid, RequestType, Time
<1>3. \A v \in visits : v \in Nat /\ v <= clock
  BY DEF IInv, TypeOK, VisitInv, VisitsBegun, Time
<1>4. ASSUME NEW t \in Slots, req'[t].kind = "visit"
      PROVE  req'[t].at \notin visits
  <2>1. CASE t = s
    BY <2>1, <1>1, <1>3
  <2>2. CASE t # s
    BY <2>2, <1>1, <1>4 DEF VisitInv, VisitsApart
  <2> QED BY <2>1, <2>2
<1>5. ASSUME NEW t \in Slots, NEW u \in Slots \ {t},
             req'[t].kind = "visit", req'[u].kind = "visit"
      PROVE  req'[u].at # req'[t].at
  <2>1. CASE t = s \/ u = s
    BY <2>1, <1>1, <1>2
  <2>2. CASE t # s /\ u # s
    BY <2>2, <1>1, <1>5 DEF VisitInv, VisitsApart
  <2> QED BY <2>1, <2>2
<1> QED BY <1>1, <1>4, <1>5 DEF VisitsApart

(* Finish takes a request away and adds none. *)
LEMMA FinishApart ==
  ASSUME IInv, VisitInv, visits' = visits, NEW s \in Slots, Finish(s)
  PROVE  VisitsApart'
<1>1. \A t \in Slots : req'[t] = req[t] \/ req'[t].kind = "idle"
  BY DEF Finish, Idle, IInv, TypeOK
<1> QED BY <1>1 DEF VisitInv, VisitsApart

(***************************************************************************)
(* createVisit under the lock: the visit it adds is the newest one, at     *)
(* least VisitWindow after the others, and its day had room.               *)
(***************************************************************************)
LEMMA CommitVisitLimits ==
  ASSUME IInv, VisitInv, NEW s \in Slots, VisitCommit(s)
  PROVE  VisitsApart' /\ VisitsBegun' /\ VisitsWithinLimits'
<1>1. PICK at \in Nat : at = req[s].at
  BY DEF IInv, TypeOK, RequestType, Time
<1>2. /\ visits' = visits \cup {at} /\ clock' = clock /\ req[s].kind = "visit"
      /\ RecentVisits(VisitWindow, at) = {}
      /\ Cardinality(RecentVisits(DayWindow, at)) < VisitLimit
  BY <1>1 DEF VisitCommit
<1>3. at \notin visits /\ at <= clock /\ \A v \in visits : v \in Nat
  BY <1>1, <1>2 DEF VisitInv, VisitsApart, IInv, TypeOK, RequestsValid, Time
<1>4. VisitWindow \in Nat /\ DayWindow \in Nat /\ VisitLimit \in Nat
  BY BonusDeskAssumption
<1>5. \A v \in visits : v <= at - VisitWindow
  BY <1>2, <1>3, <1>4 DEF RecentVisits
<1>6. \A v \in visits : v < at
  BY <1>3, <1>4, <1>5
<1>7. \A t \in Slots : (req'[t] = req[t] /\ t # s) \/ req'[t].kind = "idle"
  BY DEF VisitCommit, Finish, Idle, IInv, TypeOK
<1>8. VisitsApart'
  BY <1>1, <1>2, <1>7 DEF VisitInv, VisitsApart
<1>9. VisitsBegun'
  BY <1>2, <1>3 DEF VisitInv, VisitsBegun
<1>10. \A v, w \in visits' : v < w => w - v >= VisitWindow
  <2> SUFFICES ASSUME NEW v \in visits', NEW w \in visits', v < w
               PROVE  w - v >= VisitWindow
    OBVIOUS
  <2>1. CASE v \in visits /\ w \in visits
    BY <2>1 DEF VisitInv, VisitsWithinLimits
  <2>2. CASE v \in visits /\ w = at
    BY <2>2, <1>3, <1>4, <1>5
  <2>3. CASE v = at
    BY <2>3, <1>2, <1>3, <1>6
  <2> QED BY <2>1, <2>2, <2>3, <1>2
<1>11. ASSUME NEW v \in visits'
       PROVE  Cardinality({w \in visits' : w <= v /\ w > v - DayWindow}) <= VisitLimit
  <2> DEFINE day == {w \in visits' : w <= v /\ w > v - DayWindow}
  <2>1. CASE v \in visits
    <3>1. day = {w \in visits : w <= v /\ w > v - DayWindow}
      BY <2>1, <1>2, <1>3, <1>6
    <3> QED BY <2>1, <3>1 DEF VisitInv, VisitsWithinLimits
  <2>2. CASE v = at
    <3> DEFINE seen == RecentVisits(DayWindow, at)
    <3>1. IsFiniteSet(seen)
      BY VisitsFinite, FS_Subset DEF RecentVisits, IInv
    <3>2. day \subseteq seen \cup {at}
      BY <2>2, <1>2 DEF RecentVisits
    <3>3. at \notin seen
      BY <1>3 DEF RecentVisits
    <3> HIDE DEF day, seen
    <3>4. IsFiniteSet(seen \cup {at}) /\ Cardinality(seen \cup {at}) = Cardinality(seen) + 1
      BY <3>1, <3>3, FS_AddElement
    <3>5. Cardinality(day) <= Cardinality(seen) + 1
      BY <3>2, <3>4, FS_Subset
    <3>6. IsFiniteSet(day) /\ Cardinality(day) \in Nat /\ Cardinality(seen) \in Nat
      BY <3>1, <3>2, <3>4, FS_Subset, FS_CardinalityType
    <3> QED BY <1>2, <1>4, <3>5, <3>6 DEF day, seen
  <2> QED BY <2>1, <2>2, <1>2
<1> QED BY <1>8, <1>9, <1>10, <1>11 DEF VisitsWithinLimits

(***************************************************************************)
(* The visit that ends a round pays the round's reward if one is left.     *)
(***************************************************************************)
LEMMA CommitVisitRewards ==
  ASSUME IInv, VisitInv, NEW s \in Slots, VisitCommit(s)
  PROVE  RoundsRewarded'
<1> SUFFICES ASSUME RepeatRule
             PROVE  /\ stock'.rewards \in Seq(RoundReward)
                    /\ stock'.issued = Len(stock'.rewards)
                    /\ \A i \in 1..Len(stock'.rewards) : stock'.rewards[i].key[3] <= Rounds'
                    /\ Len(stock'.rewards) = IF InventoryTotal = -1 THEN Rounds'
                                             ELSE Min({InventoryTotal, Rounds'})
  BY DEF RoundsRewarded
<1>1. PICK n \in Nat : n = Cardinality(visits)
  BY VisitsFinite DEF IInv
<1>2. Cardinality(visits') = n + 1
  BY <1>1, VisitsFinite, FS_AddElement DEF VisitCommit, VisitInv, VisitsApart, IInv
<1>3. PICK k \in Nat : k = Rounds
  BY <1>1, NextRound, RewardStockAssumption DEF Rounds
<1>4. Rounds' = IF (n + 1) % Threshold = 0 THEN k + 1 ELSE k
  BY <1>1, <1>2, <1>3, NextRound, RewardStockAssumption DEF Rounds
<1>5. PICK row : row = IssuedRow(n + 1, req[s].at, clock)
  OBVIOUS
<1>6. PICK key : key = <<"rule", Guest, (n + 1) \div Threshold>>
  OBVIOUS
<1>7. /\ NothingDue(stock, n + 1) =>
           stock'.issued = stock.issued /\ stock'.rewards = stock.rewards
      /\ ~NothingDue(stock, n + 1) =>
           stock'.issued = stock.issued + 1 /\ stock'.rewards = Append(stock.rewards, row)
  <2>1. PICK st, at, wall, next :
          st = stock /\ at = req[s].at /\ wall = clock /\ next = stock'
    OBVIOUS
  <2>2. next = EvaluateRewardEvent(st, Guest, n + 1, at, wall)
    BY <1>1, <2>1 DEF VisitCommit
  <2>3. n + 1 \in Nat
    OBVIOUS
  <2>4. /\ NothingDue(st, n + 1) =>
             next.issued = st.issued /\ next.rewards = st.rewards
        /\ ~NothingDue(st, n + 1) =>
             /\ next.issued = st.issued + 1
             /\ next.rewards = Append(st.rewards, IssuedRow(n + 1, at, wall))
    BY <2>2, <2>3, RepeatRuleIssues
  <2> QED BY <1>5, <2>1, <2>4
<1>8. /\ stock.rewards \in Seq(RoundReward)
      /\ \A i \in 1..Len(stock.rewards) : stock.rewards[i].key[3] <= k
  BY <1>3 DEF VisitInv, RoundsRewarded
<1>9. PICK len \in Nat : len = Len(stock.rewards)
  BY <1>8
<1>10. /\ stock.issued = len
       /\ len = IF InventoryTotal = -1 THEN k ELSE Min({InventoryTotal, k})
  BY <1>3, <1>9 DEF VisitInv, RoundsRewarded
<1>11. InventoryTotal \in Int /\ (InventoryTotal # -1 => InventoryTotal \in Nat)
  BY RewardStockAssumption
<1>12. \A i \in 1..len : stock.rewards[i].key[3] \in 0..k
  <2>1. \A i \in 1..len : stock.rewards[i] \in RoundReward
    BY <1>8, <1>9
  <2>2. \A i \in 1..len : stock.rewards[i].key[3] \in Nat
    BY <2>1 DEF RoundReward
  <2> QED BY <1>8, <1>9, <2>2
<1>13. CASE (n + 1) % Threshold # 0
  <2>1. Rounds' = k /\ stock'.rewards = stock.rewards /\ stock'.issued = stock.issued
    BY <1>4, <1>7, <1>13 DEF NothingDue
  <2> QED BY <1>8, <1>9, <1>10, <2>1
<1>14. CASE (n + 1) % Threshold = 0
  <2>1. Rounds' = k + 1 /\ key = <<"rule", Guest, k + 1>>
    BY <1>1, <1>3, <1>4, <1>6, <1>14, NextRound, RewardStockAssumption DEF Rounds
  <2>2. key[3] = k + 1
    BY <2>1
  <2>3. WithKey(stock, key) = {}
    <3>1. \A i \in 1..len : stock.rewards[i].key # key
      BY <1>12, <2>2
    <3> QED BY <1>9, <3>1 DEF WithKey
  <2>4. CASE OutOfStock(stock)
    <3>1. stock'.issued = stock.issued /\ stock'.rewards = stock.rewards
      BY <1>7, <2>4 DEF NothingDue
    <3>2. InventoryTotal # -1 /\ len >= InventoryTotal
      BY <1>10, <2>4 DEF OutOfStock
    <3>3. len = (IF InventoryTotal <= k THEN InventoryTotal ELSE k)
      BY <1>10, <1>11, <3>2, MinOfTwo
    <3>4. len = Min({InventoryTotal, k + 1})
      BY <1>11, <3>2, <3>3, MinOfTwo
    <3>5. \A i \in 1..len : stock.rewards[i].key[3] <= k + 1
      BY <1>12
    <3> QED BY <1>8, <1>9, <1>10, <2>1, <3>1, <3>2, <3>4, <3>5
  <2>5. CASE ~OutOfStock(stock)
    <3>1. stock'.issued = stock.issued + 1 /\ stock'.rewards = Append(stock.rewards, row)
      BY <1>6, <1>7, <1>14, <2>3, <2>5 DEF NothingDue
    <3>2. row \in RoundReward /\ row.key = key
      <4>1. row.key = key
        BY <1>5, <1>6 DEF IssuedRow
      <4>2. key \in {"rule"} \X {Guest} \X Nat
        BY <2>1
      <4>3. req[s].at \in Time /\ (IF Validity = 0 THEN Never ELSE clock + Validity) \in Nat
        BY RewardStockAssumption DEF IInv, TypeOK, RequestType, Time, Never
      <4> QED BY <1>5, <1>6, <2>1, <4>1, <4>2, <4>3 DEF RoundReward, IssuedRow
    <3>3. /\ stock'.rewards \in Seq(RoundReward)
          /\ Len(stock'.rewards) = len + 1
          /\ stock'.rewards[len + 1] = row
          /\ \A i \in 1..len : stock'.rewards[i] = stock.rewards[i]
      <4>1. stock.rewards \in Seq(RoundReward)
        BY <1>8
      <4> QED BY <4>1, <1>9, <3>1, <3>2, AppendFacts
    <3>4. \A i \in 1..(len + 1) : stock'.rewards[i].key[3] <= k + 1
      <4>1. \A i \in 1..(len + 1) : i \in 1..len \/ i = len + 1
        OBVIOUS
      <4> QED BY SMTT(30), <4>1, <1>12, <2>2, <3>2, <3>3
    <3>5. len + 1 = IF InventoryTotal = -1 THEN k + 1 ELSE Min({InventoryTotal, k + 1})
      <4>1. CASE InventoryTotal = -1
        BY <4>1, <1>10
      <4>2. CASE InventoryTotal # -1
        <5>1. len < InventoryTotal
          BY <4>2, <1>10, <1>11, <2>5 DEF OutOfStock
        <5>2. len = (IF InventoryTotal <= k THEN InventoryTotal ELSE k)
          BY <4>2, <1>10, <1>11, MinOfTwo
        <5> QED BY <4>2, <5>1, <5>2, <1>11, MinOfTwo
      <4> QED BY <4>1, <4>2
    <3> QED BY <1>10, <2>1, <3>1, <3>3, <3>4, <3>5
  <2> QED BY <2>4, <2>5
<1> QED BY <1>13, <1>14

(***************************************************************************)
(* Every step keeps VisitInv.                                              *)
(***************************************************************************)
LEMMA NextVisit == IInv /\ VisitInv /\ [Next]_vars => VisitInv'
<1> SUFFICES ASSUME IInv, VisitInv, [Next]_vars PROVE VisitInv'
  OBVIOUS
<1>1. ASSUME NEW s \in Slots, NEW kind, NEW by, NEW op, NEW n, NEW ref,
             Begin(s, kind, by, op, n, ref), visits' = visits, stock' = stock
      PROVE  VisitInv'
  BY <1>1, BeginApart, OtherStepVisit
<1>2. ASSUME NEW s \in Slots, Finish(s), visits' = visits, stock' = stock, clock' = clock
      PROVE  VisitInv'
  <2>1. clock' \in Time /\ clock <= clock'
    BY <1>2 DEF IInv, TypeOK, Time
  <2> QED BY <1>2, <2>1, FinishApart, OtherStepVisit
<1>3. ASSUME visits' = visits, stock' = stock, req' = req,
             clock' = clock \/ (clock < MaxClock /\ clock' = Now)
      PROVE  VisitInv'
  <2>1. clock' \in Time /\ clock <= clock'
    BY <1>3, BonusDeskAssumption DEF Now, IInv, TypeOK, Time
  <2>2. VisitsApart'
    BY <1>3 DEF VisitInv, VisitsApart
  <2> QED BY <1>3, <2>1, <2>2, OtherStepVisit
<1>4. ASSUME NEW s \in Slots, NEW u, NEW op, NEW n, NEW id,
             \/ BonusBegin(s, u, op, n, id) \/ VisitBegin(s) \/ SpinBegin(s, n)
             \/ BirthdayBegin(s) \/ DecideBegin(s, id, op)
      PROVE  VisitInv'
  BY <1>1, <1>4 DEF BonusBegin, VisitBegin, SpinBegin, BirthdayBegin, DecideBegin
<1>5. ASSUME NEW s \in Slots,
             \/ BonusCommit(s) \/ SpinCommit(s) \/ BirthdayCommit(s)
             \/ DecideExpire(s) \/ DecideReject(s) \/ DecideApprove(s) \/ Abort(s)
      PROVE  VisitInv'
  BY <1>2, <1>5 DEF BonusCommit, SpinCommit, BirthdayCommit, DecideExpire, DecideReject,
     DecideApprove, Abort
<1>6. ASSUME NEW u, NEW op, NEW n, NEW id, RequestApproval(u, op, n, id) PROVE VisitInv'
  BY <1>3, <1>6 DEF RequestApproval
<1>7. ASSUME DeleteCustomer \/ Tick \/ UNCHANGED vars PROVE VisitInv'
  BY <1>3, <1>7 DEF DeleteCustomer, Tick, vars
<1>8. ASSUME NEW s \in Slots, VisitCommit(s) PROVE VisitInv'
  BY <1>8, CommitVisitLimits, CommitVisitRewards DEF VisitInv
<1> QED
  BY <1>4, <1>5, <1>6, <1>7, <1>8 DEF Next, Quiesce

(***************************************************************************)
(* For every pair of windows and every limit, the visits of a customer     *)
(* stay within them, and a "repeat" rule pays each full round of visits    *)
(* once, as long as the inventory lasts.                                   *)
(***************************************************************************)
THEOREM VisitsAreExact == Spec => []VisitsExact
<1>1. Init => VisitInv
  <2> SUFFICES ASSUME Init PROVE VisitInv
    OBVIOUS
  <2>1. VisitsApart /\ VisitsBegun /\ VisitsWithinLimits
    BY DEF Init, Idle, VisitsApart, VisitsBegun, VisitsWithinLimits
  <2>2. Rounds = 0
    <3>1. Cardinality(visits) = 0
      BY FS_EmptySet DEF Init
    <3>2. \A t \in Nat \ {0} : 0 \div t = 0
      OBVIOUS
    <3> QED BY <3>1, <3>2, RewardStockAssumption DEF Rounds
  <2>3. stock.rewards = << >> /\ stock.issued = 0
    BY DEF Init, EmptyStock
  <2>4. InventoryTotal # -1 => Min({InventoryTotal, 0}) = 0
    BY MinOfTwo, RewardStockAssumption
  <2>5. RoundsRewarded
    BY <2>2, <2>3, <2>4 DEF RoundsRewarded
  <2> QED BY <2>1, <2>5 DEF VisitInv
<1>2. VisitInv => VisitsExact
  BY DEF VisitInv, VisitsExact, RoundsRewarded, VisitRewardsMatchRounds, RepeatRule, Rounds
<1> QED BY <1>1, <1>2, InitIInv, NextIInv, NextVisit, PTL DEF Spec

-----------------------------------------------------------------------------
(***************************************************************************)
(* The requests in flight began at different times, and none of them at    *)
(* the time of a lot: a credit never finds a lot under its timestamp.      *)
(***************************************************************************)
StampsFresh ==
  /\ \A s \in Slots : req[s].kind # "idle" => req[s].at \notin DOMAIN account.lots
  /\ \A s, t \in Slots :
       s # t /\ req[s].kind # "idle" /\ req[t].kind # "idle" => req[s].at # req[t].at
  /\ \A t \in DOMAIN account.lots : t <= clock

(***************************************************************************)
(* The inductive invariant of LotsExplained, next to IInv.                 *)
(***************************************************************************)
LotsInv == StampsFresh /\ Backed(account)

(***************************************************************************)
(* Time is a finite set of naturals.                                       *)
(***************************************************************************)
LEMMA TimeFinite == IsFiniteSet(Time) /\ Time \subseteq Nat
<1>1. 0 \in Int /\ MaxClock \in Int
  BY BonusDeskAssumption
<1>2. IsFiniteSet(0..MaxClock)
  BY <1>1, FS_Interval
<1> QED BY <1>1, <1>2 DEF Time

(***************************************************************************)
(* The invariant holds initially.                                          *)
(***************************************************************************)
LEMMA InitLots == Init => LotsInv
<1> SUFFICES ASSUME Init PROVE LotsInv
  OBVIOUS
<1>1. Backed(account)
  BY NewAccountBacked DEF Init
<1>2. \A t \in DOMAIN account.lots : t = 0
  BY DEF Init, NewAccount, EmptyFunction
<1>3. \A s \in Slots : req[s].kind = "idle"
  BY DEF Init, Idle
<1>4. clock = 0
  BY DEF Init
<1> QED BY <1>1, <1>2, <1>3, <1>4 DEF StampsFresh, LotsInv

(***************************************************************************)
(* A step that books nothing keeps it: requests may end and time may pass. *)
(***************************************************************************)
LEMMA OtherStepLots ==
  ASSUME IInv, LotsInv, account' = account, clock' = clock \/ clock' = clock + 1,
         \A t \in Slots : req'[t] = req[t] \/ req'[t] = Idle
  PROVE  LotsInv'
<1>1. Idle.kind = "idle"
  BY DEF Idle
<1>2. clock \in Nat /\ \A t \in DOMAIN account.lots : t \in Nat
  BY DEF IInv, TypeOK, IsAccount, Time
<1>3. StampsFresh'
  BY <1>1, <1>2 DEF LotsInv, StampsFresh
<1> QED BY <1>3 DEF LotsInv

(***************************************************************************)
(* Begin takes a timestamp later than every request and every lot.         *)
(***************************************************************************)
LEMMA BeginLots ==
  ASSUME IInv, LotsInv, NEW s \in Slots, NEW kind, NEW by, NEW op, NEW amount, NEW ref,
         Begin(s, kind, by, op, amount, ref), account' = account
  PROVE  LotsInv'
<1>1. clock \in Nat /\ clock' = clock + 1
  BY DEF IInv, TypeOK, Time, Begin, Now
<1>2. req'[s].at = clock + 1 /\ \A t \in Slots : t # s => req'[t] = req[t]
  BY DEF Begin, Now, IInv, TypeOK
<1>3. \A t \in Slots : req[t].at \in Nat /\ req[t].at <= clock
  BY DEF IInv, TypeOK, RequestType, RequestsValid, Time
<1>4. \A t \in DOMAIN account.lots : t \in Nat /\ t <= clock
  BY DEF IInv, TypeOK, IsAccount, Time, LotsInv, StampsFresh
<1>5. ASSUME NEW x \in Slots PROVE req'[x].kind # "idle" => req'[x].at \notin DOMAIN account.lots
  <2>1. CASE x = s
    BY <1>1, <1>2, <1>4, <2>1
  <2>2. CASE x # s
    BY <1>2, <2>2 DEF LotsInv, StampsFresh
  <2> QED BY <2>1, <2>2
<1>6. ASSUME NEW x \in Slots, NEW y \in Slots, x # y, req'[x].kind # "idle", req'[y].kind # "idle"
      PROVE req'[x].at # req'[y].at
  <2>1. CASE x = s
    BY <1>1, <1>2, <1>3, <1>6, <2>1
  <2>2. CASE y = s
    BY <1>1, <1>2, <1>3, <1>6, <2>2
  <2>3. CASE x # s /\ y # s
    BY <1>2, <1>6, <2>3 DEF LotsInv, StampsFresh
  <2> QED BY <2>1, <2>2, <2>3
<1>7. \A t \in DOMAIN account.lots : t <= clock'
  BY <1>1, <1>4
<1>8. StampsFresh'
  BY <1>5, <1>6, <1>7 DEF StampsFresh
<1> QED BY <1>8 DEF LotsInv

(***************************************************************************)
(* A commit may issue a lot under the timestamp of its request, which ends *)
(* with it.                                                                *)
(***************************************************************************)
LEMMA CommitLots ==
  ASSUME IInv, LotsInv, NEW s \in Slots, req[s].kind # "idle", Finish(s), clock' = clock,
         Backed(account'), DOMAIN account'.lots \subseteq DOMAIN account.lots \cup {req[s].at}
  PROVE  LotsInv'
<1>1. Idle.kind = "idle" /\ req[s].at <= clock
  BY DEF Idle, IInv, RequestsValid
<1>2. req'[s] = Idle /\ \A t \in Slots : t # s => req'[t] = req[t]
  BY DEF Finish, IInv, TypeOK
<1>3. ASSUME NEW x \in Slots, req'[x].kind # "idle" PROVE req'[x].at \notin DOMAIN account'.lots
  BY <1>1, <1>2, <1>3 DEF LotsInv, StampsFresh
<1>4. ASSUME NEW x \in Slots, NEW y \in Slots, x # y, req'[x].kind # "idle", req'[y].kind # "idle"
      PROVE req'[x].at # req'[y].at
  BY <1>1, <1>2, <1>4 DEF LotsInv, StampsFresh
<1>5. \A t \in DOMAIN account'.lots : t <= clock'
  BY <1>1 DEF LotsInv, StampsFresh
<1>6. StampsFresh'
  BY <1>3, <1>4, <1>5 DEF StampsFresh
<1> QED BY <1>6 DEF LotsInv

(***************************************************************************)
(* The credit of a request in flight keeps the account backed.             *)
(***************************************************************************)
LEMMA CreditLots ==
  ASSUME IInv, LotsInv, NEW s \in Slots, req[s].kind # "idle",
         NEW src, NEW by, NEW ref, NEW amount \in Nat \ {0}
  PROVE  /\ Backed(Credit(account, amount, Row(s, src, by, ref)))
         /\ DOMAIN Credit(account, amount, Row(s, src, by, ref)).lots
              \subseteq DOMAIN account.lots \cup {req[s].at}
<1>1. PICK row : row = Row(s, src, by, ref)
  OBVIOUS
<1>2. row.at = req[s].at /\ row.at \notin DOMAIN account.lots
  <2>1. row.at = req[s].at
    BY <1>1 DEF Row
  <2> QED BY <2>1 DEF LotsInv, StampsFresh
<1>3. IsFiniteSet(Time)
  BY TimeFinite
<1>4. IsAccount(account, RowType, Time) /\ Backed(account)
  BY DEF IInv, TypeOK, LotsInv
<1>5. Backed(Credit(account, amount, row))
  BY <1>2, <1>3, <1>4, CreditKept DEF Backed
<1>6. DOMAIN Credit(account, amount, row).lots \subseteq DOMAIN account.lots \cup {row.at}
  <2>1. Credit(account, amount, row).lots = IssueBonusLot(account.lots, row.at, amount)
    BY DEF Credit
  <2>2. DOMAIN IssueBonusLot(account.lots, row.at, amount) = DOMAIN account.lots \cup {row.at}
    BY DEF IssueBonusLot
  <2> QED BY <2>1, <2>2
<1> QED BY <1>1, <1>2, <1>5, <1>6

(***************************************************************************)
(* So do the shared writes of customerBonus and decideOperationApproval.   *)
(***************************************************************************)
LEMMA ApplyLots ==
  ASSUME IInv, LotsInv, NEW s \in Slots, req[s].kind # "idle",
         NEW src, NEW by, NEW ref, NEW amount \in Nat \ {0}, NEW op,
         Apply(op, amount, Row(s, src, by, ref))
  PROVE  /\ Backed(account')
         /\ DOMAIN account'.lots \subseteq DOMAIN account.lots \cup {req[s].at}
<1>1. CASE account' = Credit(account, amount, Row(s, src, by, ref))
  BY <1>1, CreditLots
<1>2. CASE /\ CanDebit(account, amount, Row(s, src, by, ref).at)
           /\ account' = Debit(account, amount, Row(s, src, by, ref))
  <2>1. PICK row : row = Row(s, src, by, ref)
    OBVIOUS
  <2>2. CanDebit(account, amount, row.at) /\ account' = Debit(account, amount, row)
    BY <1>2, <2>1
  <2>3. IsFiniteSet(Time)
    BY TimeFinite
  <2>4. IsAccount(account, RowType, Time) /\ Backed(account)
    BY DEF IInv, TypeOK, LotsInv
  <2>5. Backed(account')
    BY <2>2, <2>3, <2>4, DebitKept DEF Backed
  <2>6. DOMAIN account'.lots = DOMAIN account.lots
    BY <2>2 DEF Debit, Consume
  <2> QED BY <2>5, <2>6
<1> QED BY <1>1, <1>2 DEF Apply

(***************************************************************************)
(* Every step keeps the invariant: one case per action.                    *)
(***************************************************************************)
LEMMA NextLots == IInv /\ LotsInv /\ [Next]_vars => LotsInv'
<1> SUFFICES ASSUME IInv, LotsInv, [Next]_vars PROVE LotsInv'
  OBVIOUS
<1>1. ASSUME NEW s \in Slots, NEW kind, NEW by, NEW op, NEW amount, NEW ref,
             Begin(s, kind, by, op, amount, ref), account' = account
      PROVE  LotsInv'
  BY <1>1, BeginLots
<1>2. ASSUME NEW s \in Slots, BonusCommit(s) PROVE LotsInv'
  <2>1. req[s].amount \in Nat \ {0} /\ req[s].kind # "idle"
    BY <1>2 DEF BonusCommit, IInv, RequestsValid, TypeOK, RequestType
  <2>2. /\ Backed(account')
        /\ DOMAIN account'.lots \subseteq DOMAIN account.lots \cup {req[s].at}
    BY <1>2, <2>1, ApplyLots DEF BonusCommit
  <2> QED BY <1>2, <2>1, <2>2, CommitLots DEF BonusCommit
<1>3. ASSUME NEW s \in Slots, VisitCommit(s) PROVE LotsInv'
  <2>1. req[s].amount \in Nat \ {0} /\ req[s].kind # "idle"
    BY <1>3 DEF VisitCommit, IInv, TypeOK, RequestType
  <2>2. /\ Backed(account')
        /\ DOMAIN account'.lots \subseteq DOMAIN account.lots \cup {req[s].at}
    BY <1>3, <2>1, CreditLots DEF VisitCommit
  <2> QED BY <1>3, <2>1, <2>2, CommitLots DEF VisitCommit
<1>4. ASSUME NEW s \in Slots, SpinCommit(s) PROVE LotsInv'
  <2>1. req[s].amount \in Nat /\ req[s].kind # "idle"
    BY <1>4 DEF SpinCommit, IInv, TypeOK, RequestType
  <2>2. /\ Backed(account')
        /\ DOMAIN account'.lots \subseteq DOMAIN account.lots \cup {req[s].at}
    <3>1. CASE req[s].amount > 0
      <4>1. req[s].amount \in Nat \ {0}
        BY <2>1, <3>1
      <4>2. account' = Credit(account, req[s].amount, Row(s, "wheel", Nobody, req[s].at))
        BY <1>4, <3>1 DEF SpinCommit
      <4> QED BY <2>1, <4>1, <4>2, CreditLots
    <3>2. CASE ~(req[s].amount > 0)
      BY <1>4, <3>2 DEF SpinCommit, LotsInv
    <3> QED BY <3>1, <3>2
  <2> QED BY <1>4, <2>1, <2>2, CommitLots DEF SpinCommit
<1>5. ASSUME NEW s \in Slots, BirthdayCommit(s) PROVE LotsInv'
  <2>1. req[s].amount \in Nat \ {0} /\ req[s].kind # "idle"
    BY <1>5 DEF BirthdayCommit, IInv, RequestsValid, TypeOK, RequestType
  <2>2. /\ Backed(account')
        /\ DOMAIN account'.lots \subseteq DOMAIN account.lots \cup {req[s].at}
    BY <1>5, <2>1, CreditLots DEF BirthdayCommit
  <2> QED BY <1>5, <2>1, <2>2, CommitLots DEF BirthdayCommit
<1>6. ASSUME NEW s \in Slots, DecideApprove(s) PROVE LotsInv'
  <2>1. PICK id, x : id = req[s].ref /\ x = approvals[id]
    OBVIOUS
  <2>2. id \in DOMAIN approvals /\ req[s].kind # "idle"
    BY <1>6, <2>1 DEF DecideApprove, Pending, IInv, RequestsValid
  <2>3. x.amount \in Nat \ {0}
    BY <2>1, <2>2 DEF IInv, TypeOK, ApprovalType
  <2>4. Apply(x.op, x.amount, Row(s, "approval", x.by, id))
    BY <1>6, <2>1 DEF DecideApprove
  <2>5. /\ Backed(account')
        /\ DOMAIN account'.lots \subseteq DOMAIN account.lots \cup {req[s].at}
    BY <2>2, <2>3, <2>4, ApplyLots
  <2> QED BY <1>6, <2>2, <2>5, CommitLots DEF DecideApprove
<1>7. ASSUME NEW s \in Slots, Finish(s), account' = account, clock' = clock PROVE LotsInv'
  <2>1. \A t \in Slots : req'[t] = req[t] \/ req'[t] = Idle
    BY <1>7 DEF Finish, IInv, TypeOK
  <2> QED BY <1>7, <2>1, OtherStepLots
<1>8. ASSUME account' = account, clock' = clock \/ clock' = clock + 1, req' = req PROVE LotsInv'
  BY <1>8, OtherStepLots
<1>9. CASE UNCHANGED vars
  BY <1>8, <1>9 DEF vars
<1>10. CASE Next
  <2>1. ASSUME NEW s \in Slots, NEW u \in Staff, NEW op \in {"credit", "debit"},
             NEW n \in Amounts, NEW key \in ClientKeys, BonusBegin(s, u, op, n, key)
        PROVE  LotsInv'
    BY <1>1, <2>1 DEF BonusBegin
  <2>2. ASSUME NEW s \in Slots, VisitBegin(s) PROVE LotsInv'
    BY <1>1, <2>2 DEF VisitBegin
  <2>3. ASSUME NEW s \in Slots, NEW prize \in SpinPrizes, SpinBegin(s, prize) PROVE LotsInv'
    BY <1>1, <2>3 DEF SpinBegin
  <2>4. ASSUME NEW s \in Slots, BirthdayBegin(s) PROVE LotsInv'
    BY <1>1, <2>4 DEF BirthdayBegin
  <2>5. ASSUME NEW s \in Slots, NEW id \in ApprovalIds, NEW d \in {"approved", "rejected"},
               DecideBegin(s, id, d)
        PROVE  LotsInv'
    BY <1>1, <2>5 DEF DecideBegin
  <2>6. ASSUME NEW u \in Staff, NEW op \in {"credit", "debit"}, NEW n \in Amounts,
               NEW id \in ApprovalIds, RequestApproval(u, op, n, id)
        PROVE  LotsInv'
    BY <1>8, <2>6 DEF RequestApproval
  <2>7. ASSUME NEW s \in Slots, DecideExpire(s) \/ DecideReject(s) \/ Abort(s) PROVE LotsInv'
    BY <1>7, <2>7 DEF DecideExpire, DecideReject, Abort
  <2>8. ASSUME DeleteCustomer \/ Tick \/ Quiesce PROVE LotsInv'
    BY <1>8, <2>8 DEF DeleteCustomer, Tick, Now, Quiesce, vars
  <2> QED BY <1>2, <1>3, <1>4, <1>5, <1>6, <1>10, <2>1, <2>2, <2>3, <2>4, <2>5, <2>6, <2>7, <2>8
       DEF Next
<1> QED BY <1>9, <1>10

(***************************************************************************)
(* In every reachable state the lots account for the balance: they back    *)
(* it, every debit is attributed to lots its transaction could see         *)
(* (ConsumeBonusLots), and a debit the balance allows is refused only when *)
(* a later transaction credited first.                                     *)
(***************************************************************************)
THEOREM LotsAreExplained == Spec => []LotsExplained
<1>1. IInv /\ LotsInv => LotsExplained
  <2> SUFFICES ASSUME IInv, LotsInv PROVE LotsExplained
    OBVIOUS
  <2>1. LotsBack(account) /\ Attributed(account)
    BY DEF LotsInv, Backed, Kept
  <2>2. ASSUME NEW s \in Slots, account.points >= req[s].amount,
               ~LotsSuffice(account.lots, req[s].at, req[s].amount)
        PROVE  \E t \in DOMAIN account.lots :
                 t > req[s].at /\ LotStatus(account.lots[t]) = "active"
    <3>1. req[s].at \in Nat /\ req[s].amount \in Nat /\ IsAccount(account, RowType, Time)
      BY DEF IInv, TypeOK, RequestType, Time
    <3>2. IsFiniteSet(Time) /\ Time \subseteq Nat
      BY TimeFinite
    <3>3. PICK now \in Nat, amount \in Nat : now = req[s].at /\ amount = req[s].amount
      BY <3>1
    <3>4. account.points >= amount /\ ~LotsSuffice(account.lots, now, amount)
      BY <2>2, <3>3
    <3>5. \E t \in DOMAIN account.lots : t > now /\ LotStatus(account.lots[t]) = "active"
      BY <2>1, <3>1, <3>2, <3>4, ShortageIsLater
    <3> QED BY <3>3, <3>5
  <2>3. ShortageNeedsOverlap
    BY <2>2 DEF ShortageNeedsOverlap
  <2> QED BY <2>1, <2>3 DEF LotsExplained, LotsBackBalance, DebitsAttributed
<1> QED BY <1>1, InitIInv, NextIInv, InitLots, NextLots, PTL DEF Spec
=============================================================================
