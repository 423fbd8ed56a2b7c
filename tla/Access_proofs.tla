---------------------------- MODULE Access_proofs ---------------------------
(***************************************************************************)
(* Proofs about Employees, SlotBookings, Partnerships, GuestLogin and      *)
(* Registration for every set of phones, slots, receipts, codes and any    *)
(* number of requests. The modules share no state; each has an inductive   *)
(* invariant of its own.                                                   *)
(***************************************************************************)
EXTENDS Employees, SlotBookings, Partnerships, GuestLogin, Registration, FiniteSetTheorems, SequenceTheorems, TLAPS

-----------------------------------------------------------------------------
\* While requests have not overlapped, one at most is between its two statements, and has the user's status to write.
StaffInv ==
  /\ manager \in [Managers -> {"active", "suspended", Nothing}]
  /\ staffFaults \in Nat
  /\ ~entangled =>
       /\ \A p, q \in Managers : manager[p] # Nothing /\ manager[q] # Nothing => p = q
       /\ \A q \in Managers : manager[q] # Nothing => manager[q] = MembershipFor(user)
       /\ AccessFollowsAccount

(***************************************************************************)
(* updateEmployee and deleteEmployee, for any number of requests: when     *)
(* none is at work the membership that opens the workspace is active       *)
(* exactly when the account is, unless requests overlapped or a second     *)
(* statement failed (operations.go).                                       *)
(***************************************************************************)
THEOREM AccessFollows == StaffSpec => []AccessFollowsAccount
<1>1. StaffInit => StaffInv
  BY DEF StaffInit, StaffInv, AccessFollowsAccount, Nothing
<1>2. StaffInv /\ [StaffNext]_staffVars => StaffInv'
  <2> SUFFICES ASSUME StaffInv, [StaffNext]_staffVars PROVE StaffInv'
    OBVIOUS
  <2> USE DEF StaffInv, AccessFollowsAccount, MembershipFor, Nothing
  <2>1. ASSUME NEW q \in Managers, NEW status \in {"active", "blocked", "deleted"}, SetStatus(q, status)
        PROVE  StaffInv'
    BY <2>1 DEF SetStatus, Overlapping
  <2>2. ASSUME NEW q \in Managers, WriteMembership(q) PROVE StaffInv'
    BY <2>2 DEF WriteMembership
  <2>3. CASE UNCHANGED staffVars
    BY <2>3 DEF staffVars
  <2> QED BY <2>1, <2>2, <2>3 DEF StaffNext, UpdateEmployee, DeleteEmployee, EmployeeRefused
<1>3. StaffInv => AccessFollowsAccount
  BY DEF StaffInv, AccessFollowsAccount
<1> QED BY <1>1, <1>2, <1>3, PTL DEF StaffSpec

-----------------------------------------------------------------------------
\* A booking's row, and the update an owner's request has read and not yet written.
BookTypeOK ==
  /\ booking \in [Bookings -> [status : {"none", "checked"} \cup Kept, slot : Slots \cup {"none"}]]
  /\ owner \in [Owners -> [of : Bookings \cup {"none"}, status : Kept \cup {"none"}]]

\* The request is about to write a status of the booking.
Updating(q, b) == owner[q].of = b /\ owner[q].status \in Kept

\* No two bookings hold a slot; a running update is of a kept booking, and one that a cancellation met is known.
BookInv ==
  /\ BookTypeOK
  /\ \A b, c \in Bookings : \A slot \in Slots : Holds(b, slot) /\ Holds(c, slot) => b = c
  /\ \A b \in Bookings : booking[b].status \in {"checked"} \cup Kept => booking[b].slot \in Slots
  /\ \A q \in Owners : owner[q].status = "none" => owner[q] = NoUpdateOf
  /\ \A q \in Owners : owner[q].status # "none" => owner[q].of \in Bookings /\ booking[owner[q].of].status \in Kept
  /\ \A q \in Owners, b \in Bookings :
       Updating(q, b) /\ owner[q].status # "cancelled" /\ booking[b].status = "cancelled" => b \in overruled

(***************************************************************************)
(* Every step keeps it: the insert is refused where the slot is held, and  *)
(* the update goes by the booking it read.                                 *)
(***************************************************************************)
LEMMA BookInvStep == BookInv /\ [BookNext]_bookVars => BookInv'
<1> SUFFICES ASSUME BookInv, [BookNext]_bookVars PROVE BookInv'
  OBVIOUS
<1> USE DEF BookInv, BookTypeOK, Holds, Kept, Updating, NoUpdateOf
<1>1. CASE OpenOrClose
  BY <1>1 DEF OpenOrClose
<1>2. ASSUME NEW b \in Bookings, NEW slot \in Slots, PublicCheck(b, slot) PROVE BookInv'
  BY <1>2 DEF PublicCheck
<1>3. ASSUME NEW b \in Bookings, PublicInsert(b) PROVE BookInv'
  BY <1>3 DEF PublicInsert, InsertAllowed, SlotFree, Unbooked
<1>4. ASSUME NEW q \in Owners, NEW b \in Bookings, NEW status \in Kept, UpdateRead(q, b, status) PROVE BookInv'
  BY <1>4 DEF UpdateRead, ReadAllows
<1>5. ASSUME NEW q \in Owners, UpdateWrite(q) PROVE BookInv'
  <2> DEFINE b == owner[q].of
             status == owner[q].status
  <2>1. /\ b \in Bookings /\ status \in Kept /\ booking[b].status \in Kept
        /\ owner' = [owner EXCEPT ![q] = NoUpdateOf]
        /\ \/ booking' = booking /\ status # "cancelled"
           \/ /\ booking' = [booking EXCEPT ![b] = [status |-> status, slot |-> @.slot]]
              /\ status \in {"new", "confirmed"} => SlotFree(b, booking[b].slot)
        /\ overruled' = IF status = "cancelled" /\ {p \in Owners \ {q} : owner[p].of = b /\ owner[p].status # "cancelled"} # {}
                        THEN overruled \cup {b} ELSE overruled
    BY <1>5 DEF UpdateWrite
  <2> HIDE DEF b, status
  <2>2. /\ BookTypeOK'
        /\ \A c \in Bookings : booking'[c].slot = booking[c].slot
        /\ \A c \in Bookings \ {b} : booking'[c] = booking[c]
        /\ booking'[b].status \in {booking[b].status, status}
        /\ status = "cancelled" => booking'[b].status = "cancelled"
        /\ owner'[q] = NoUpdateOf /\ \A p \in Owners \ {q} : owner'[p] = owner[p]
    BY SMTT(30), <2>1
  <2>3. \A c, d \in Bookings : \A slot \in Slots : Holds(c, slot)' /\ Holds(d, slot)' => c = d
    BY <2>1, <2>2 DEF SlotFree
  <2>4. \A p \in Owners, c \in Bookings :
          (Updating(p, c) /\ owner[p].status # "cancelled" /\ booking[c].status = "cancelled")' => c \in overruled'
    BY <2>1, <2>2
  <2>5. \A c \in Bookings : (booking[c].status \in {"checked"} \cup Kept => booking[c].slot \in Slots)'
    BY <2>1, <2>2
  <2>6. \A p \in Owners : (owner[p].status = "none" => owner[p] = NoUpdateOf)'
    BY <2>2
  <2>7. \A p \in Owners : (owner[p].status # "none" => owner[p].of \in Bookings /\ booking[owner[p].of].status \in Kept)'
    BY <2>1, <2>2
  <2> QED BY <2>2, <2>3, <2>4, <2>5, <2>6, <2>7
<1>6. CASE UNCHANGED bookVars
  BY <1>6 DEF bookVars
<1> QED BY <1>1, <1>2, <1>3, <1>4, <1>5, <1>6 DEF BookNext

(***************************************************************************)
(* publicCreateBooking and updateBooking, for any bookings, slots and      *)
(* number of requests: no slot is held twice, a cancelled booking stays    *)
(* cancelled unless it was cancelled under an update that had read it, and *)
(* none is inserted while the site is closed (extensions.go).              *)
(***************************************************************************)
THEOREM BookingsAreKept == BookSpec => BookingsKept
<1>1. BookInit => BookInv
  BY DEF BookInit, BookInv, BookTypeOK, Unbooked, NoUpdateOf, Kept, Holds, Updating
<1>2. BookInv => SlotHeldOnce
  <2> SUFFICES ASSUME BookInv, NEW slot \in Slots PROVE Cardinality({b \in Bookings : Holds(b, slot)}) <= 1
    BY DEF SlotHeldOnce
  <2>1. CASE {b \in Bookings : Holds(b, slot)} = {}
    BY <2>1, FS_EmptySet
  <2>2. CASE {b \in Bookings : Holds(b, slot)} # {}
    <3>1. PICK b \in Bookings : Holds(b, slot)
      BY <2>2
    <3>2. {c \in Bookings : Holds(c, slot)} = {b}
      BY <3>1 DEF BookInv
    <3> QED BY SMTT(30), <3>2, FS_Singleton
  <2> QED BY <2>1, <2>2
<1>3. BookInv /\ [BookNext]_bookVars =>
        [\A b \in Bookings : booking[b].status = "cancelled" => booking'[b].status = "cancelled" \/ b \in overruled]_bookVars
  <2> SUFFICES ASSUME BookInv, BookNext, NEW b \in Bookings, booking[b].status = "cancelled", b \notin overruled
               PROVE  booking'[b].status = "cancelled"
    OBVIOUS
  <2>1. CASE \E q \in Owners : UpdateWrite(q)
    BY <2>1 DEF UpdateWrite, BookInv, BookTypeOK, Updating, Kept, NoUpdateOf
  <2> QED BY <2>1 DEF BookNext, OpenOrClose, PublicInsert, PublicCheck, UpdateRead, BookInv, BookTypeOK
<1>4. BookInv /\ [BookNext]_bookVars =>
        [\A b \in Bookings : booking[b].status = "checked" /\ booking'[b].status = "new" => open]_bookVars
  <2> SUFFICES ASSUME BookInv, BookNext, NEW b \in Bookings, booking[b].status = "checked", booking'[b].status = "new"
               PROVE  open
    OBVIOUS
  <2>1. CASE \E c \in Bookings : PublicInsert(c)
    BY <2>1 DEF PublicInsert, InsertAllowed, BookInv, BookTypeOK, Unbooked
  <2>2. CASE \E q \in Owners : UpdateWrite(q)
    BY <2>2 DEF UpdateWrite, BookInv, BookTypeOK, Kept, NoUpdateOf
  <2> QED BY <2>1, <2>2 DEF BookNext, OpenOrClose, PublicCheck, UpdateRead, BookInv, BookTypeOK
<1> QED BY <1>1, <1>2, <1>3, <1>4, BookInvStep, PTL DEF BookSpec, BookingsKept, CancelledStays, BookedWhileOpen

-----------------------------------------------------------------------------
\* A redemption of an offer: the receipt it is for, the customer and the key of the request.
Redemptions == [till : Tills, friend : Friends, key : {"k1", "k2"}]
\* The redemptions of one customer.
Of(f) == {x \in redemption : x.friend = f}
\* A request that has the offer's lock.
AtWork(q) == redeemer[q].at # "idle"

\* The rows and the requests hold values of the code, and there are finitely many redemptions.
PartTypeOK ==
  /\ redemption \subseteq Redemptions /\ IsFiniteSet(redemption)
  /\ credit \in [Friends -> Nat]
  /\ receipt \in [Tills -> {"completed", "partially_refunded", "refunded"}]
  /\ redeemer \in [Redeemers -> [at : {"idle", "receipt", "count", "redeem"}, till : Tills \cup {"none"},
                                 friend : Friends \cup {"none"}, key : {"k1", "k2", "none"}]]

\* The offer's lock admits one request; what it has counted and read still holds, but for a refund meanwhile.
RedeemersExact ==
  /\ \A p, q \in Redeemers : AtWork(p) /\ AtWork(q) => p = q
  /\ \A q \in Redeemers :
       /\ AtWork(q) => redeemer[q].till \in Tills /\ redeemer[q].friend \in Friends /\ redeemer[q].key \in {"k1", "k2"}
       /\ redeemer[q].at \in {"count", "redeem"} => receipt[redeemer[q].till] # "refunded" \/ redeemer[q].till \in belated
       /\ redeemer[q].at = "redeem" =>
            Cardinality(redemption) < MaxRedemptions /\ Cardinality(Of(redeemer[q].friend)) < MaxPerCustomer

PartInv == PartTypeOK /\ RedeemersExact /\ RedemptionLimitsHeld /\ CreditPerRedemption

\* Nothing is redeemed and nobody is at work.
LEMMA PartInvInit == PartInit => PartInv
<1> SUFFICES ASSUME PartInit PROVE PartInv
  OBVIOUS
<1>1. PartTypeOK /\ RedeemersExact
  BY FS_EmptySet DEF PartInit, PartTypeOK, RedeemersExact, AtWork, Unoccupied
<1>2. \A f : {x \in redemption : x.friend = f} = {}
  BY DEF PartInit
<1>3. RedemptionLimitsHeld /\ CreditPerRedemption
  BY <1>2, FS_EmptySet, PartnershipsAssumption DEF PartInit, RedemptionLimitsHeld, CreditPerRedemption
<1> QED BY <1>1, <1>3 DEF PartInv

\* Every step keeps it: the counts read under the lock still hold at the insert.
LEMMA PartInvStep == PartInv /\ [PartNext]_partVars => PartInv'
<1> SUFFICES ASSUME PartInv, [PartNext]_partVars PROVE PartInv'
  OBVIOUS
<1> USE PartnershipsAssumption DEF PartInv
<1>0. ASSUME redemption' = redemption, credit' = credit
      PROVE  RedemptionLimitsHeld' /\ CreditPerRedemption' /\ \A f : Of(f)' = Of(f)
  BY <1>0 DEF RedemptionLimitsHeld, CreditPerRedemption, Of
<1>1. CASE Arrange
  <2>1. UNCHANGED <<receipt, redemption, credit, redeemer, belated>>
    BY <1>1 DEF Arrange
  <2> QED BY <2>1, <1>0 DEF PartTypeOK, RedeemersExact, AtWork
<1>2. ASSUME NEW q \in Redeemers, NEW till \in Tills, NEW friend \in Friends, NEW key \in {"k1", "k2"},
             LockOffer(q, till, friend, key)
      PROVE  PartInv'
  <2>1. UNCHANGED <<receipt, redemption, credit, belated>>
    BY <1>2 DEF LockOffer
  <2>2. PartTypeOK' /\ RedeemersExact'
    BY <1>2, <2>1, <1>0 DEF LockOffer, OfferUnlocked, LockTaken, PartTypeOK, RedeemersExact, AtWork
  <2> QED BY <2>1, <2>2, <1>0
<1>3. ASSUME NEW q \in Redeemers, CheckReceipt(q) PROVE PartInv'
  <2>1. UNCHANGED <<receipt, redemption, credit, belated>>
    BY <1>3 DEF CheckReceipt
  <2>2. PartTypeOK' /\ RedeemersExact'
    BY <1>3, <2>1, <1>0 DEF CheckReceipt, Qualifies, GoOn, Unoccupied, PartTypeOK, RedeemersExact, AtWork
  <2> QED BY <2>1, <2>2, <1>0
<1>4. ASSUME NEW q \in Redeemers, CountRedemptions(q) PROVE PartInv'
  <2>1. UNCHANGED <<receipt, redemption, credit, belated>>
    BY <1>4 DEF CountRedemptions
  <2>2. PartTypeOK' /\ RedeemersExact'
    BY ZenonT(30), <1>4, <2>1, <1>0 DEF CountRedemptions, Of, GoOn, Unoccupied, PartTypeOK, RedeemersExact, AtWork
  <2> QED BY <2>1, <2>2, <1>0
<1>5. ASSUME NEW q \in Redeemers, Redeem(q) PROVE PartInv'
  <2> DEFINE x == [till |-> redeemer[q].till, friend |-> redeemer[q].friend, key |-> redeemer[q].key]
             g == redeemer[q].friend
  <2>1. /\ redeemer[q].at = "redeem" /\ redeemer' = [redeemer EXCEPT ![q] = Unoccupied]
        /\ UNCHANGED <<receipt, belated>>
        /\ x \in Redemptions /\ g \in Friends /\ x.friend = g
    BY <1>5 DEF Redeem, RedeemersExact, AtWork, Redemptions
  <2>2. /\ RedeemersExact'
        /\ redeemer' \in [Redeemers -> [at : {"idle", "receipt", "count", "redeem"}, till : Tills \cup {"none"},
                                 friend : Friends \cup {"none"}, key : {"k1", "k2", "none"}]]
    BY <2>1 DEF RedeemersExact, AtWork, Unoccupied, PartTypeOK
  <2>3. CASE Repeated(x)
    <3>1. redemption' = redemption /\ credit' = credit
      BY <1>5, <2>3 DEF Redeem
    <3> QED BY <3>1, <2>1, <2>2, <1>0 DEF PartTypeOK
  <2>4. CASE ~Repeated(x)
    <3>1. /\ redemption' = redemption \cup {x} /\ x \notin redemption
          /\ credit' = [credit EXCEPT ![g] = @ + 1]
      BY <1>5, <2>4 DEF Redeem, Repeated
    <3> HIDE DEF x, g
    <3>2. IsFiniteSet(redemption') /\ Cardinality(redemption') = Cardinality(redemption) + 1
          /\ Cardinality(redemption) \in Nat
      BY <3>1, FS_AddElement, FS_CardinalityType DEF PartTypeOK
    <3>3. PartTypeOK'
      BY <2>1, <2>2, <3>1, <3>2 DEF PartTypeOK
    <3>4. ASSUME NEW f \in Friends
          PROVE  /\ Cardinality(Of(f)') = Cardinality(Of(f)) + (IF f = g THEN 1 ELSE 0)
                 /\ Cardinality(Of(f)) \in Nat
      <4>1. IsFiniteSet(Of(f))
        BY FS_Subset DEF Of, PartTypeOK
      <4>2. CASE f = g
        <5>1. Of(f)' = Of(f) \cup {x} /\ x \notin Of(f)
          BY <2>1, <3>1, <4>2 DEF Of
        <5> QED BY <4>1, <4>2, <5>1, FS_AddElement, FS_CardinalityType
      <4>3. CASE f # g
        <5>1. Of(f)' = Of(f)
          BY <2>1, <3>1, <4>3 DEF Of
        <5> QED BY <4>1, <4>3, <5>1, FS_CardinalityType
      <4> QED BY <4>2, <4>3
    <3>5. Cardinality(redemption) < MaxRedemptions /\ Cardinality(Of(g)) < MaxPerCustomer
      BY <2>1 DEF RedeemersExact, g
    <3>6. \A f \in Friends : Cardinality(Of(f)) <= MaxPerCustomer /\ credit[f] = Cardinality(Of(f))
      BY DEF RedemptionLimitsHeld, CreditPerRedemption, Of
    <3>7. Cardinality(redemption') <= MaxRedemptions
      BY <3>2, <3>5
    <3>8. \A f \in Friends : Cardinality(Of(f)') <= MaxPerCustomer /\ credit'[f] = Cardinality(Of(f)')
      BY <3>1, <3>4, <3>5, <3>6 DEF PartTypeOK
    <3>9. RedemptionLimitsHeld' /\ CreditPerRedemption'
      BY <3>7, <3>8 DEF RedemptionLimitsHeld, CreditPerRedemption, Of
    <3> QED BY <2>2, <3>3, <3>9
  <2> QED BY <2>3, <2>4
<1>6. ASSUME NEW t \in Tills, RefundTill(t) PROVE PartInv'
  <2>1. UNCHANGED <<redemption, credit, redeemer>>
    BY <1>6 DEF RefundTill
  <2>2. PartTypeOK' /\ RedeemersExact'
    BY <1>6, <2>1, <1>0 DEF RefundTill, PartTypeOK, RedeemersExact, AtWork
  <2> QED BY <2>1, <2>2, <1>0
<1>7. CASE UNCHANGED partVars
  <2>1. UNCHANGED <<receipt, redemption, credit, redeemer, belated>>
    BY <1>7 DEF partVars
  <2> QED BY <2>1, <1>0 DEF PartTypeOK, RedeemersExact, AtWork
<1> QED BY <1>1, <1>2, <1>3, <1>4, <1>5, <1>6, <1>7 DEF PartNext, RedeemRefused

(***************************************************************************)
(* redeemPartnershipOffer, for any receipts, customers, limits and number  *)
(* of requests: both limits of the offer hold, each redemption credits its *)
(* customer once, and a receipt refunded in full is redeemed only if the   *)
(* refund came under the request (partnerships.go).                        *)
(***************************************************************************)
THEOREM RedemptionsAreExact == PartSpec => RedemptionsExact
<1>1. PartInv => RedemptionLimitsHeld /\ CreditPerRedemption
  BY DEF PartInv
<1>2. PartInv /\ [PartNext]_partVars =>
        [\A x \in redemption' \ redemption : receipt[x.till] = "refunded" => x.till \in belated]_partVars
  <2> SUFFICES ASSUME PartInv, PartNext, NEW x \in redemption' \ redemption, receipt[x.till] = "refunded"
               PROVE  x.till \in belated
    OBVIOUS
  <2>1. CASE \E q \in Redeemers : Redeem(q)
    BY <2>1 DEF Redeem, PartInv, RedeemersExact
  <2> QED
    BY <2>1 DEF PartNext, Arrange, LockOffer, CheckReceipt, CountRedemptions, RedeemRefused, RefundTill, partVars
<1> QED BY <1>1, <1>2, PartInvInit, PartInvStep, PTL DEF PartSpec, RedemptionsExact, RefundedNotRedeemed

-----------------------------------------------------------------------------
\* The places of customerOTPVerify at which a handler holds a copy of the record.
HolderAts == {"check", "ttl", "write", "accept", "discard"}
\* A handler with a copy of the record.
Holder(h) == guest[h].at \in HolderAts

\* Between the comparison of a code and the write of the attempt it took.
Spends(h, c) == guest[h].at \in {"ttl", "write", "accept"} /\ guest[h].code = c

\* The places of the PIN check.
PinAts == {"pin", "window", "lock"}
\* A handler at the PIN.
AtPin(h) == guest[h].at \in PinAts

\* Where a handler is, and the copy it holds.
GuestRec ==
  [at : {"idle", "send"} \cup HolderAts \cup PinAts, code : Nat, attempts : Nat, ttl : BOOLEAN, stale : BOOLEAN]

\* The records in the cache, the handlers and the counts of attempts.
GuestTypeOK ==
  /\ otp \in [code : Nat, attempts : Nat, expires : BOOLEAN] /\ codes \in Nat
  /\ pin \in [count : Nat, expires : BOOLEAN, locked : BOOLEAN]
  /\ guest \in [Guests -> GuestRec]
  /\ tried \in [1 .. MaxCodes -> Nat] /\ accepted \in [1 .. MaxCodes -> Nat]
  /\ guesses \in Nat

\* Codes are numbered as they are issued, and nobody has tried one that was not.
CodesValid ==
  /\ codes <= MaxCodes /\ otp.code <= codes
  /\ \A h \in Guests : Holder(h) => guest[h].code >= 1 /\ guest[h].code <= codes
  /\ \A c \in 1 .. MaxCodes : c > codes => tried[c] = 0 /\ accepted[c] = 0

\* A copy that is not marked as old is the record, but for the attempt its holder has made.
CopiesFresh ==
  \A h \in Guests :
    Holder(h) /\ ~guest[h].stale =>
      /\ guest[h].code = otp.code
      /\ guest[h].attempts = IF Spends(h, otp.code) THEN otp.attempts + 1 ELSE otp.attempts

(***************************************************************************)
(* For a code whose record never changed under a handler: attempts are     *)
(* bounded, one at a time is between comparison and write, and while the   *)
(* code is in force its record accounts for all the others.                *)
(***************************************************************************)
TriesOf(c) ==
  /\ tried[c] <= MaxAttempts /\ accepted[c] <= 1
  /\ \A g, h \in Guests : Spends(g, c) /\ Spends(h, c) => g = h
  /\ otp.code = c =>
       /\ accepted[c] = 0 /\ c = codes /\ otp.expires
       /\ tried[c] <= otp.attempts + 1
       /\ (\A h \in Guests : ~Spends(h, c)) => tried[c] <= otp.attempts
       /\ \A h \in Guests : Spends(h, c) => ~guest[h].stale /\ (guest[h].at = "write" => guest[h].ttl)

\* Every code no fault concerns is in order.
TriesCounted == \A c \in 1 .. MaxCodes : c \notin stale => TriesOf(c)

(***************************************************************************)
(* While no request overlapped another at the PIN or left half way: one is *)
(* at it, the lock is not set meanwhile, and a count at the limit is       *)
(* locked, or will be by the request that reached it. A count without an   *)
(* expiry has the request that will set it.                                *)
(***************************************************************************)
PinCounted ==
  /\ guesses = pin.count
  /\ "pin" \notin stale =>
       /\ \A g, h \in Guests : AtPin(g) /\ AtPin(h) => g = h
       /\ \A h \in Guests : AtPin(h) => ~pin.locked
       /\ \A h \in Guests : guest[h].at = "pin" => pin.count < MaxAttempts
       /\ \A h \in Guests : guest[h].at = "window" => pin.count = 0 \/ guest[h].attempts = pin.count
       /\ pin.count <= MaxAttempts
       /\ pin.count >= MaxAttempts => pin.locked \/ \E h \in Guests : guest[h].at \in {"window", "lock"}
       /\ pin.count > 0 /\ ~pin.expires => \E h \in Guests : guest[h].at = "window" /\ guest[h].attempts = 1

CodeInv == CodesValid /\ CopiesFresh /\ TriesCounted
GuestInv == GuestTypeOK /\ CodeInv /\ PinCounted

\* No code is out and nobody is at work.
LEMMA GuestInvInit == GuestInit => GuestInv
<1> SUFFICES ASSUME GuestInit PROVE GuestInv
  OBVIOUS
<1> USE GuestLoginAssumption DEF GuestInit, GuestRec, Away, Fresh, NoCode, HolderAts, PinAts
<1>1. GuestTypeOK
  BY DEF GuestTypeOK
<1>2. CodesValid /\ CopiesFresh
  BY DEF CodesValid, CopiesFresh, Holder, Spends
<1>3. TriesCounted
  BY DEF TriesCounted, TriesOf, Spends
<1>4. PinCounted
  BY DEF PinCounted, AtPin
<1> QED BY <1>1, <1>2, <1>3, <1>4 DEF GuestInv, CodeInv

\* What Overtakes does, field by field.
LEMMA Overtaken ==
  ASSUME NEW g, NEW next, GuestTypeOK, Overtakes(g, next)
  PROVE  /\ g \in Guests => guest'[g] = next
         /\ \A h \in Guests \ {g} :
              /\ guest'[h].at = guest[h].at /\ guest'[h].code = guest[h].code
              /\ guest'[h].attempts = guest[h].attempts /\ guest'[h].ttl = guest[h].ttl
              /\ guest'[h].stale = (guest[h].stale \/ Holder(h))
         /\ next \in GuestRec => guest' \in [Guests -> GuestRec]
<1> USE DEF Overtakes, GuestTypeOK, GuestRec, Holder, HolderAts, PinAts
<1>1. g \in Guests => guest'[g] = next
  OBVIOUS
<1>2. \A h \in Guests \ {g} :
              /\ guest'[h].at = guest[h].at /\ guest'[h].code = guest[h].code
              /\ guest'[h].attempts = guest[h].attempts /\ guest'[h].ttl = guest[h].ttl
  OBVIOUS
<1>3. \A h \in Guests \ {g} : guest'[h].stale = (guest[h].stale \/ Holder(h))
  OBVIOUS
<1>4. next \in GuestRec => guest' \in [Guests -> GuestRec]
  OBVIOUS
<1> QED BY <1>1, <1>2, <1>3, <1>4

\* Every step keeps the types.
LEMMA GuestTypeStep == GuestTypeOK /\ CodesValid /\ [GuestNext]_guestVars => GuestTypeOK'
<1> SUFFICES ASSUME GuestTypeOK, CodesValid, [GuestNext]_guestVars PROVE GuestTypeOK'
  OBVIOUS
<1> USE GuestLoginAssumption DEF GuestTypeOK
<1>0. /\ Away \in GuestRec
      /\ \A n \in Nat : Fresh("send", n, 0) \in GuestRec
      /\ NoCode \in [code : Nat, attempts : Nat, expires : BOOLEAN]
  BY DEF GuestRec, Away, Fresh, HolderAts, PinAts, NoCode
<1>a. ASSUME NEW next \in GuestRec, NEW g, Overtakes(g, next) PROVE guest' \in [Guests -> GuestRec]
  BY <1>a, Overtaken
<1>1. ASSUME NEW g \in Guests, RequestCode(g) PROVE GuestTypeOK'
  <2>1. guest' \in [Guests -> GuestRec]
    BY <1>1, <1>0, <1>a DEF RequestCode
  <2> QED BY <2>1, <1>1 DEF RequestCode
<1>2. ASSUME NEW g \in Guests, SendCode(g) PROVE GuestTypeOK'
  <2>1. guest' \in [Guests -> GuestRec]
    BY <1>2, <1>0, <1>a DEF SendCode
  <2> QED BY <2>1, <1>2, <1>0 DEF SendCode
<1>3. ASSUME NEW g \in Guests, VerifyCode(g) PROVE GuestTypeOK'
  BY <1>3 DEF VerifyCode, GuestRec, Fresh, HolderAts
<1>4. ASSUME NEW g \in Guests, CompareCode(g) PROVE GuestTypeOK'
  <2>0. guest[g].at = "check"
    BY <1>4 DEF CompareCode
  <2>1. guest[g].code \in 1 .. MaxCodes
    BY <2>0 DEF CodesValid, Holder, HolderAts, GuestRec
  <2>2. guest' \in [Guests -> GuestRec]
    <3>1. \A at \in HolderAts : \A n \in Nat : Moved(g, at, n, TRUE) \in GuestRec
      BY DEF Moved, GuestRec
    <3>2. guest[g].attempts \in Nat /\ guest[g].attempts + 1 \in Nat
      BY DEF GuestRec
    <3>3. PICK at \in HolderAts, n \in Nat : guest' = [guest EXCEPT ![g] = Moved(g, at, n, TRUE)]
      BY <1>4, <3>2 DEF CompareCode, HolderAts
    <3>4. Moved(g, at, n, TRUE) \in GuestRec
      BY <3>1
    <3>5. guest \in [Guests -> GuestRec]
      OBVIOUS
    <3> HIDE DEF GuestTypeOK
    <3> QED BY <3>3, <3>4, <3>5
  <2>3. tried' \in [1 .. MaxCodes -> Nat]
    <3>1. tried' = tried \/ tried' = [tried EXCEPT ![guest[g].code] = @ + 1]
      BY <1>4 DEF CompareCode
    <3> QED BY SMTT(30), <2>1, <3>1
  <2> QED BY <2>2, <2>3, <1>4 DEF CompareCode
<1>5. ASSUME NEW g \in Guests, ReadTTL(g) PROVE GuestTypeOK'
  BY <1>5 DEF ReadTTL, GuestRec, Moved, HolderAts
<1>6. ASSUME NEW g \in Guests, WriteAttempt(g) PROVE GuestTypeOK'
  <2>1. guest' \in [Guests -> GuestRec]
    BY <1>6, <1>0, <1>a DEF WriteAttempt
  <2> QED BY <2>1, <1>6 DEF WriteAttempt, WrittenBack, GuestRec
<1>7. ASSUME NEW g \in Guests, AcceptCode(g) PROVE GuestTypeOK'
  <2>1. guest' \in [Guests -> GuestRec]
    BY <1>7, <1>0, <1>a DEF AcceptCode
  <2>2. guest[g].code \in 1 .. MaxCodes
    BY <1>7 DEF AcceptCode, CodesValid, Holder, HolderAts, GuestRec
  <2> QED BY SMTT(30), <2>1, <2>2, <1>7, <1>0 DEF AcceptCode
<1>8. ASSUME NEW g \in Guests, DiscardCode(g) PROVE GuestTypeOK'
  <2>1. guest' \in [Guests -> GuestRec]
    BY <1>8, <1>0, <1>a DEF DiscardCode
  <2> QED BY <2>1, <1>8, <1>0 DEF DiscardCode
<1>9. ASSUME NEW g \in Guests, EnterPIN(g) PROVE GuestTypeOK'
  BY <1>9 DEF EnterPIN, GuestRec, Fresh, PinAts
<1>10. ASSUME NEW g \in Guests, WrongPIN(g) PROVE GuestTypeOK'
  BY SMTT(30), <1>10 DEF WrongPIN, GuestRec, Fresh, PinAts
<1>11. ASSUME NEW g \in Guests, StartWindow(g) PROVE GuestTypeOK'
  BY <1>11, <1>0 DEF StartWindow, GuestRec, Fresh, PinAts
<1>12. ASSUME NEW g \in Guests, LockPIN(g) PROVE GuestTypeOK'
  BY <1>12, <1>0 DEF LockPIN
<1>13. ASSUME NEW g \in Guests, RightPIN(g) PROVE GuestTypeOK'
  BY <1>13, <1>0 DEF RightPIN, NoCount
<1>14. ASSUME NEW g \in Guests, GuestLeaves(g) PROVE GuestTypeOK'
  BY <1>14, <1>0 DEF GuestLeaves
<1>15. CASE CodeExpires
  <2>1. guest' \in [Guests -> GuestRec]
    BY <1>15, <1>0, <1>a DEF CodeExpires
  <2> QED BY <2>1, <1>15, <1>0 DEF CodeExpires
<1>16. CASE CountExpires
  BY <1>16 DEF CountExpires, NoCount
<1>17. CASE LockExpires
  BY <1>17 DEF LockExpires
<1>18. CASE UNCHANGED guestVars
  BY <1>18 DEF guestVars
<1> QED
  BY <1>1, <1>2, <1>3, <1>4, <1>5, <1>6, <1>7, <1>8, <1>9, <1>10, <1>11, <1>12, <1>13, <1>14, <1>15, <1>16, <1>17, <1>18
  DEF GuestNext, Refused

\* g goes on with the fields given; the others keep their copies.
LEMMA Alone ==
  ASSUME NEW g \in Guests, NEW next, GuestTypeOK, guest' = [guest EXCEPT ![g] = next]
  PROVE  guest'[g] = next /\ \A h \in Guests \ {g} : guest'[h] = guest[h]
BY DEF GuestTypeOK

\* A handler that holds no record any more, and a record that stays.
LEMMA CodeUntouched ==
  ASSUME GuestTypeOK, CodeInv, NEW g, UNCHANGED <<otp, codes, tried, accepted>>, stale \subseteq stale',
         \A h \in Guests \ {g} : guest'[h] = guest[h],
         g \in Guests => guest'[g].at \notin HolderAts,
         \A c \in 1 .. MaxCodes : g \in Guests /\ Spends(g, c) => c \in stale'
  PROVE  CodeInv'
<1>1. CodesValid' /\ CopiesFresh'
  BY DEF CodeInv, CodesValid, CopiesFresh, Holder, Spends, HolderAts
<1>2. ASSUME NEW c \in 1 .. MaxCodes, c \notin stale' PROVE TriesOf(c)'
  <2>1. TriesOf(c)
    BY <1>2 DEF CodeInv, TriesCounted
  <2>2. \A h \in Guests : Spends(h, c)' <=> Spends(h, c)
    BY <1>2 DEF Spends, HolderAts
  <2>3. \A h \in Guests : Spends(h, c) => guest'[h] = guest[h]
    BY <1>2
  <2> QED BY <2>1, <2>2, <2>3 DEF TriesOf
<1> QED BY <1>1, <1>2 DEF CodeInv, TriesCounted

(***************************************************************************)
(* The record is replaced by one that g has, or by none, and the others    *)
(* that hold it are marked.                                                *)
(***************************************************************************)
LEMMA RecordReplaced ==
  ASSUME GuestTypeOK, CodeInv, NEW g, NEW next \in GuestRec, Overtakes(g, next), next.at \notin HolderAts,
         UNCHANGED <<codes, tried>>, stale \subseteq stale',
         otp' \in [code : Nat, attempts : Nat, expires : BOOLEAN], otp'.code <= codes,
         accepted' \in [1 .. MaxCodes -> Nat],
         \A c \in 1 .. MaxCodes : c > codes => accepted'[c] = 0,
         \A c \in 1 .. MaxCodes : c \notin stale' =>
           /\ accepted'[c] <= 1
           /\ otp'.code = c =>
                /\ otp.code = c /\ accepted'[c] = accepted[c] /\ otp'.expires
                /\ g \in Guests /\ Spends(g, c) /\ otp'.attempts = otp.attempts + 1
  PROVE  CodeInv'
<1> DEFINE others == \A h \in Guests \ {g} :
              /\ guest'[h].at = guest[h].at /\ guest'[h].code = guest[h].code
              /\ guest'[h].stale = (guest[h].stale \/ Holder(h))
<1>0. others /\ (g \in Guests => guest'[g].at \notin HolderAts)
  BY Overtaken
<1> HIDE DEF others
<1>1. CodesValid'
  BY <1>0 DEF others, CodeInv, CodesValid, Holder, HolderAts
<1>2. CopiesFresh'
  BY <1>0 DEF others, CodeInv, CopiesFresh, Holder, Spends, HolderAts
<1>3. ASSUME NEW c \in 1 .. MaxCodes, c \notin stale' PROVE TriesOf(c)'
  <2>1. TriesOf(c)
    BY <1>3 DEF CodeInv, TriesCounted
  <2>2. \A h \in Guests : Spends(h, c)' <=> (Spends(h, c) /\ h # g)
    BY <1>0 DEF others, Spends, HolderAts
  <2>3. CASE otp'.code = c
    <3>1. g \in Guests /\ Spends(g, c) /\ otp'.attempts = otp.attempts + 1 /\ otp.code = c /\ otp'.expires
          /\ accepted'[c] = accepted[c]
      BY <1>3, <2>3
    <3>2. \A h \in Guests : ~Spends(h, c)'
      BY <2>1, <2>2, <3>1 DEF TriesOf
    <3>3. tried'[c] <= otp'.attempts /\ tried'[c] <= MaxAttempts /\ accepted'[c] = 0 /\ c = codes
      BY <2>1, <3>1 DEF TriesOf
    <3>4. tried'[c] \in Nat /\ otp'.attempts \in Nat
      BY DEF GuestTypeOK
    <3> QED BY <3>1, <3>2, <3>3, <3>4 DEF TriesOf
  <2>4. CASE otp'.code # c
    BY <1>3, <2>1, <2>2, <2>4 DEF TriesOf
  <2> QED BY <2>3, <2>4
<1> QED BY <1>1, <1>2, <1>3 DEF CodeInv, TriesCounted

\* Every step of the one-time codes keeps their invariant.
LEMMA CodeInvStep == GuestTypeOK /\ CodeInv /\ [GuestNext]_guestVars => CodeInv'
<1> SUFFICES ASSUME GuestTypeOK, CodeInv, [GuestNext]_guestVars PROVE CodeInv'
  OBVIOUS
<1> USE GuestLoginAssumption
<1>0. /\ Away \in GuestRec /\ Away.at \notin HolderAts
      /\ NoCode \in [code : Nat, attempts : Nat, expires : BOOLEAN] /\ NoCode.code = 0
  BY DEF GuestRec, Away, Fresh, HolderAts, PinAts, NoCode
<1>a. ASSUME NEW g \in Guests, NEW next, guest' = [guest EXCEPT ![g] = next], next.at \notin HolderAts,
             UNCHANGED <<otp, codes, tried, accepted>>, stale \subseteq stale',
             \A c \in 1 .. MaxCodes : Spends(g, c) => c \in stale'
      PROVE  CodeInv'
  <2>1. guest'[g] = next /\ \A h \in Guests \ {g} : guest'[h] = guest[h]
    BY <1>a, Alone
  <2> QED BY <2>1, <1>a, CodeUntouched
<1>1. ASSUME NEW g \in Guests, RequestCode(g) PROVE CodeInv'
  <2> DEFINE next == Fresh("send", codes + 1, 0)
  <2>1. /\ Overtakes(g, next) /\ codes < MaxCodes /\ codes' = codes + 1
        /\ otp' = [code |-> codes + 1, attempts |-> 0, expires |-> TRUE]
        /\ UNCHANGED <<tried, accepted, stale>>
    BY <1>1 DEF RequestCode
  <2>2. guest'[g].at = "send"
        /\ \A h \in Guests \ {g} :
              /\ guest'[h].at = guest[h].at /\ guest'[h].code = guest[h].code
              /\ guest'[h].stale = (guest[h].stale \/ Holder(h))
    BY <2>1, Overtaken DEF Fresh
  <2>3. codes \in Nat /\ MaxCodes \in Nat /\ \A h \in Guests : guest[h].code \in Nat
    BY DEF GuestTypeOK, GuestRec
  <2>4. CodesValid'
    BY <2>1, <2>2, <2>3 DEF CodeInv, CodesValid, Holder, HolderAts
  <2>5. CopiesFresh'
    BY <2>2 DEF CodeInv, CopiesFresh, Holder, HolderAts
  <2>6. ASSUME NEW c \in 1 .. MaxCodes, c \notin stale' PROVE TriesOf(c)'
    <3>1. TriesOf(c)
      BY <2>1, <2>6 DEF CodeInv, TriesCounted
    <3>2. \A h \in Guests : Spends(h, c)' => Spends(h, c)
      BY <2>2 DEF Spends
    <3>3. CASE otp'.code = c
      <4>1. c = codes' /\ c > codes /\ tried[c] = 0 /\ accepted[c] = 0
        BY <2>1, <2>3, <3>3 DEF CodeInv, CodesValid
      <4>2. \A h \in Guests : ~Spends(h, c)
        BY <4>1, <2>3 DEF CodeInv, CodesValid, Spends, Holder, HolderAts
      <4> QED BY <2>1, <3>2, <4>1, <4>2 DEF TriesOf
    <3>4. CASE otp'.code # c
      BY <2>1, <3>1, <3>2, <3>4 DEF TriesOf
    <3> QED BY <3>3, <3>4
  <2> QED BY <2>4, <2>5, <2>6 DEF CodeInv, TriesCounted
<1>b. ASSUME NEW g, Overtakes(g, Away), otp' = NoCode, UNCHANGED <<codes, tried>>, stale \subseteq stale',
             accepted' \in [1 .. MaxCodes -> Nat],
             \A c \in 1 .. MaxCodes : c > codes => accepted'[c] = 0,
             \A c \in 1 .. MaxCodes : c \notin stale' => accepted'[c] <= 1
      PROVE  CodeInv'
  <2>1. otp'.code = 0 /\ 0 <= codes
    BY <1>b, <1>0 DEF GuestTypeOK
  <2>2. \A c \in 1 .. MaxCodes : otp'.code # c
    BY <2>1
  <2> QED BY <1>b, <1>0, <2>1, <2>2, RecordReplaced
<1>c. /\ accepted \in [1 .. MaxCodes -> Nat]
      /\ \A c \in 1 .. MaxCodes : c > codes => accepted[c] = 0
      /\ \A c \in 1 .. MaxCodes : c \notin stale => accepted[c] <= 1
  BY DEF GuestTypeOK, CodeInv, CodesValid, TriesCounted, TriesOf
<1>2. ASSUME NEW g \in Guests, SendCode(g) PROVE CodeInv'
  <2>1. UNCHANGED <<codes, tried, accepted, stale>> /\ guest[g].at = "send"
    BY <1>2 DEF SendCode
  <2>2. CASE guest' = [guest EXCEPT ![g] = Away] /\ UNCHANGED otp
    BY <2>1, <2>2, <1>0, <1>a DEF Spends
  <2>3. CASE otp' = NoCode /\ Overtakes(g, Away)
    BY <2>1, <2>3, <1>b, <1>c
  <2> QED BY <1>2, <2>2, <2>3 DEF SendCode
<1>3. ASSUME NEW g \in Guests, VerifyCode(g) PROVE CodeInv'
  <2>1. /\ guest[g].at = "idle" /\ otp.code # 0 /\ UNCHANGED <<otp, codes, tried, accepted, stale>>
        /\ guest'[g] = Fresh("check", otp.code, otp.attempts) /\ \A h \in Guests \ {g} : guest'[h] = guest[h]
    BY <1>3, Alone DEF VerifyCode
  <2>2. guest'[g].at = "check" /\ guest'[g].code = otp.code /\ guest'[g].attempts = otp.attempts /\ otp.code >= 1
    BY <2>1 DEF Fresh, GuestTypeOK
  <2>3. CodesValid' /\ CopiesFresh'
    BY <2>1, <2>2 DEF CodeInv, CodesValid, CopiesFresh, Holder, Spends, HolderAts
  <2>4. ASSUME NEW c \in 1 .. MaxCodes, c \notin stale' PROVE TriesOf(c)'
    <3>1. TriesOf(c)
      BY <2>1, <2>4 DEF CodeInv, TriesCounted
    <3>2. \A h \in Guests : Spends(h, c)' <=> Spends(h, c)
      BY <2>1, <2>2 DEF Spends
    <3>3. \A h \in Guests : Spends(h, c) => guest'[h] = guest[h]
      BY <2>1 DEF Spends
    <3> QED BY <2>1, <3>1, <3>2, <3>3 DEF TriesOf
  <2> QED BY <2>3, <2>4 DEF CodeInv, TriesCounted
<1>4. ASSUME NEW g \in Guests, CompareCode(g) PROVE CodeInv'
  <2>1. /\ guest[g].at = "check" /\ UNCHANGED <<otp, codes, accepted>>
        /\ stale' = IF guest[g].stale \/ \E h \in Guests \ {g} : guest[h].at \in {"ttl", "write", "accept"}
                    THEN stale \cup {guest[g].code} ELSE stale
    BY <1>4 DEF CompareCode
  <2> DEFINE d == guest[g].code
  <2>2. d \in 1 .. MaxCodes /\ d <= codes /\ guest[g].attempts \in Nat /\ otp.attempts \in Nat
    BY <2>1 DEF CodeInv, CodesValid, Holder, HolderAts, GuestTypeOK, GuestRec
  <2>3. CASE AttemptsLeft(g)
    <3>1. PICK at \in {"ttl", "accept"} : guest' = [guest EXCEPT ![g] = Moved(g, at, guest[g].attempts + 1, TRUE)]
      BY <1>4, <2>3 DEF CompareCode, GuestTypeOK
    <3>2. /\ tried' = [tried EXCEPT ![d] = @ + 1]
          /\ guest'[g] = Moved(g, at, guest[g].attempts + 1, TRUE) /\ \A h \in Guests \ {g} : guest'[h] = guest[h]
      BY <1>4, <2>3, <3>1, Alone DEF CompareCode
    <3>3. /\ guest'[g].at = at /\ guest'[g].code = d /\ guest'[g].attempts = guest[g].attempts + 1
          /\ guest'[g].stale = guest[g].stale
      BY <3>2 DEF Moved
    <3>4. CodesValid'
      <4>1. \A c \in 1 .. MaxCodes : c > codes => tried'[c] = tried[c]
        <5> SUFFICES ASSUME NEW c \in 1 .. MaxCodes, c > codes PROVE tried'[c] = tried[c]
          OBVIOUS
        <5>1. codes \in Nat /\ d \in Nat /\ tried \in [1 .. MaxCodes -> Nat]
          BY SMTT(30), <2>2 DEF GuestTypeOK
        <5>2. c # d
          BY <2>2, <5>1
        <5> HIDE DEF d
        <5> QED BY <3>2, <5>1, <5>2
      <4>2. \A h \in Guests : Holder(h)' => guest'[h].code >= 1 /\ guest'[h].code <= codes
        <5>1. guest'[g].code >= 1 /\ guest'[g].code <= codes
          BY <2>2, <3>3 DEF GuestTypeOK
        <5>2. \A h \in Guests \ {g} : Holder(h)' <=> Holder(h)
          BY <3>2 DEF Holder
        <5>3. \A h \in Guests : Holder(h) => guest[h].code >= 1 /\ guest[h].code <= codes
          BY DEF CodeInv, CodesValid
        <5> HIDE DEF d
        <5> QED BY <5>1, <5>2, <5>3, <3>2
      <4> QED BY <2>1, <4>1, <4>2 DEF CodeInv, CodesValid
    <3>5. CopiesFresh'
      BY ZenonT(30), <2>1, <2>2, <3>2, <3>3 DEF CodeInv, CopiesFresh, Holder, Spends, HolderAts
    <3>6. ASSUME NEW c \in 1 .. MaxCodes, c \notin stale' PROVE TriesOf(c)'
      <4>1. TriesOf(c)
        BY <2>1, <3>6 DEF CodeInv, TriesCounted
      <4>2. \A h \in Guests \ {g} : Spends(h, c)' <=> Spends(h, c)
        BY <3>2 DEF Spends
      <4>3. CASE c # d
        <5>1. \A h \in Guests : (Spends(h, c)' <=> Spends(h, c)) /\ (Spends(h, c) => guest'[h] = guest[h])
          BY <4>2, <4>3, <3>2, <3>3 DEF Spends
        <5>2. tried'[c] = tried[c]
          BY <3>2, <4>3 DEF GuestTypeOK
        <5> QED BY <2>1, <4>1, <5>1, <5>2 DEF TriesOf
      <4>4. CASE c = d
        <5>1. ~guest[g].stale /\ \A h \in Guests \ {g} : ~Spends(h, c)
          BY <2>1, <3>6, <4>4 DEF Spends
        <5>2. otp.code = c /\ guest[g].attempts = otp.attempts
          BY <2>1, <4>4, <5>1 DEF CodeInv, CopiesFresh, Holder, HolderAts, Spends
        <5>3. \A h \in Guests : ~Spends(h, c)
          BY <2>1, <5>1 DEF Spends
        <5>4. tried[c] <= otp.attempts /\ accepted[c] = 0 /\ c = codes /\ otp.expires
          BY <4>1, <5>2, <5>3 DEF TriesOf
        <5>5. tried'[c] = tried[c] + 1 /\ tried[c] \in Nat
          BY <3>2, <4>4 DEF GuestTypeOK
        <5>6. otp.attempts + 1 <= MaxAttempts
          BY <2>3, <5>2 DEF AttemptsLeft
        <5>7. Spends(g, c)' /\ ~guest'[g].stale /\ guest'[g].at # "write"
          BY <3>1, <3>3, <4>4, <5>1 DEF Spends
        <5>8. tried'[c] <= otp.attempts + 1 /\ tried'[c] <= MaxAttempts
          BY <2>2, <5>4, <5>5, <5>6
        <5>9. \A h \in Guests : Spends(h, c)' => h = g
          BY <4>2, <5>1
        <5> QED BY <2>1, <5>4, <5>7, <5>8, <5>9 DEF TriesOf
      <4> QED BY <4>3, <4>4
    <3> QED BY <3>4, <3>5, <3>6 DEF CodeInv, TriesCounted
  <2>4. CASE ~AttemptsLeft(g)
    <3>2. /\ tried' = tried
          /\ guest'[g] = Moved(g, "discard", guest[g].attempts, TRUE) /\ \A h \in Guests \ {g} : guest'[h] = guest[h]
      BY <1>4, <2>4, Alone DEF CompareCode, GuestTypeOK
    <3>3. /\ guest'[g].at = "discard" /\ guest'[g].code = d /\ guest'[g].attempts = guest[g].attempts
          /\ guest'[g].stale = guest[g].stale
      BY <3>2 DEF Moved
    <3>4. CodesValid' /\ CopiesFresh'
      BY ZenonT(30), <2>1, <2>2, <3>2, <3>3 DEF CodeInv, CodesValid, CopiesFresh, Holder, Spends, HolderAts
    <3>6. ASSUME NEW c \in 1 .. MaxCodes, c \notin stale' PROVE TriesOf(c)'
      <4>1. TriesOf(c)
        BY <2>1, <3>6 DEF CodeInv, TriesCounted
      <4>2. \A h \in Guests : (Spends(h, c)' <=> Spends(h, c)) /\ (Spends(h, c) => guest'[h] = guest[h])
        BY <2>1, <3>2, <3>3 DEF Spends
      <4> QED BY <2>1, <3>2, <4>1, <4>2 DEF TriesOf
    <3> QED BY <3>4, <3>6 DEF CodeInv, TriesCounted
  <2> QED BY <2>3, <2>4
<1>5. ASSUME NEW g \in Guests, ReadTTL(g) PROVE CodeInv'
  <2>1. /\ guest[g].at = "ttl" /\ UNCHANGED <<otp, codes, tried, accepted, stale>>
        /\ guest'[g] = Moved(g, "write", guest[g].attempts, otp.code # 0 /\ otp.expires)
        /\ \A h \in Guests \ {g} : guest'[h] = guest[h]
    BY <1>5, Alone DEF ReadTTL, GuestTypeOK
  <2>2. /\ guest'[g].at = "write" /\ guest'[g].code = guest[g].code /\ guest'[g].attempts = guest[g].attempts
        /\ guest'[g].stale = guest[g].stale /\ guest'[g].ttl = (otp.code # 0 /\ otp.expires)
    BY <2>1 DEF Moved
  <2>3. CodesValid' /\ CopiesFresh'
    BY <2>1, <2>2 DEF CodeInv, CodesValid, CopiesFresh, Holder, Spends, HolderAts
  <2>4. ASSUME NEW c \in 1 .. MaxCodes, c \notin stale' PROVE TriesOf(c)'
    <3>1. TriesOf(c)
      BY <2>1, <2>4 DEF CodeInv, TriesCounted
    <3>2. \A h \in Guests : (Spends(h, c)' <=> Spends(h, c)) /\ guest'[h].stale = guest[h].stale
      BY <2>1, <2>2 DEF Spends
    <3>3. \A h \in Guests : otp.code = c /\ Spends(h, c) => (guest'[h].at = "write" => guest'[h].ttl)
      <4>1. otp.code = c => otp.code # 0 /\ otp.expires
        BY <3>1 DEF TriesOf
      <4>2. otp.code = c => guest'[g].ttl
        BY <2>2, <4>1
      <4>3. \A h \in Guests \ {g} : otp.code = c /\ Spends(h, c) => (guest[h].at = "write" => guest[h].ttl)
        BY <3>1 DEF TriesOf
      <4> QED BY <2>1, <4>2, <4>3
    <3> QED BY <2>1, <3>1, <3>2, <3>3 DEF TriesOf
  <2> QED BY <2>3, <2>4 DEF CodeInv, TriesCounted
<1>6. ASSUME NEW g \in Guests, WriteAttempt(g) PROVE CodeInv'
  <2>1. /\ guest[g].at = "write" /\ otp' = WrittenBack(g) /\ Overtakes(g, Away)
        /\ stale' = IF guest[g].stale THEN stale \cup {guest[g].code} ELSE stale
        /\ UNCHANGED <<codes, tried, accepted>>
    BY <1>6 DEF WriteAttempt
  <2>2. /\ otp' \in [code : Nat, attempts : Nat, expires : BOOLEAN]
        /\ otp'.code = guest[g].code /\ otp'.attempts = guest[g].attempts /\ otp'.expires = guest[g].ttl
    BY <2>1 DEF WrittenBack, GuestTypeOK, GuestRec
  <2>3. otp'.code <= codes
    BY <2>1, <2>2 DEF CodeInv, CodesValid, Holder, HolderAts
  <2>4. ASSUME NEW c \in 1 .. MaxCodes, c \notin stale', otp'.code = c
        PROVE  /\ otp.code = c /\ otp'.expires
               /\ Spends(g, c) /\ otp'.attempts = otp.attempts + 1
    <3>1. Spends(g, c) /\ ~guest[g].stale /\ c \notin stale
      BY <2>1, <2>2, <2>4 DEF Spends
    <3>2. otp.code = c /\ guest[g].attempts = otp.attempts + 1
      BY <2>1, <3>1 DEF CodeInv, CopiesFresh, Holder, HolderAts, Spends
    <3>3. TriesOf(c)
      BY <3>1 DEF CodeInv, TriesCounted
    <3>4. guest[g].ttl
      BY <2>1, <3>1, <3>2, <3>3 DEF TriesOf
    <3> QED BY <2>2, <3>1, <3>2, <3>4
  <2> QED BY <2>1, <2>2, <2>3, <2>4, <1>0, <1>c, RecordReplaced
<1>7. ASSUME NEW g \in Guests, AcceptCode(g) PROVE CodeInv'
  <2>1. /\ guest[g].at = "accept" /\ otp' = NoCode /\ Overtakes(g, Away)
        /\ accepted' = [accepted EXCEPT ![guest[g].code] = @ + 1]
        /\ stale' = IF guest[g].stale THEN stale \cup {guest[g].code} ELSE stale
        /\ UNCHANGED <<codes, tried>>
    BY <1>7 DEF AcceptCode
  <2> DEFINE d == guest[g].code
  <2>2. d \in 1 .. MaxCodes /\ d <= codes /\ codes \in Nat
    BY <2>1 DEF CodeInv, CodesValid, Holder, HolderAts, GuestTypeOK, GuestRec
  <2>3. accepted' \in [1 .. MaxCodes -> Nat] /\ \A c \in 1 .. MaxCodes : c > codes => accepted'[c] = 0
    BY <2>1, <2>2, <1>c
  <2>4. ASSUME NEW c \in 1 .. MaxCodes, c \notin stale' PROVE accepted'[c] <= 1
    <3>1. CASE c # d
      BY <2>1, <2>4, <3>1, <1>c
    <3>2. CASE c = d
      <4>1. Spends(g, c) /\ ~guest[g].stale /\ c \notin stale
        BY <2>1, <2>4, <3>2 DEF Spends
      <4>2. otp.code = c
        BY <2>1, <3>2, <4>1 DEF CodeInv, CopiesFresh, Holder, HolderAts
      <4>3. accepted[c] = 0
        BY <4>1, <4>2 DEF CodeInv, TriesCounted, TriesOf
      <4> QED BY <2>1, <2>2, <3>2, <4>3, <1>c
    <3> QED BY <3>1, <3>2
  <2> QED BY <2>1, <2>3, <2>4, <1>b
<1>8. ASSUME NEW g \in Guests, DiscardCode(g) PROVE CodeInv'
  BY <1>8, <1>b, <1>c DEF DiscardCode
<1>9. ASSUME NEW g \in Guests, EnterPIN(g) PROVE CodeInv'
  <2>1. Fresh("pin", 0, 0).at \notin HolderAts /\ guest[g].at = "idle"
    BY <1>9 DEF Fresh, HolderAts, EnterPIN
  <2> QED BY <2>1, <1>9, <1>a DEF EnterPIN, Spends
<1>10. ASSUME NEW g \in Guests, WrongPIN(g) PROVE CodeInv'
  <2>1. Fresh("window", 0, pin.count + 1).at \notin HolderAts /\ guest[g].at = "pin"
    BY <1>10 DEF Fresh, HolderAts, WrongPIN
  <2> QED BY <2>1, <1>10, <1>a DEF WrongPIN, Spends
<1>11. ASSUME NEW g \in Guests, StartWindow(g) PROVE CodeInv'
  <2> DEFINE next == IF LockAt(guest[g].attempts) THEN Fresh("lock", 0, guest[g].attempts) ELSE Away
  <2>1. next.at \notin HolderAts /\ guest[g].at = "window"
    BY <1>11, <1>0 DEF Fresh, HolderAts, StartWindow
  <2>2. guest' = [guest EXCEPT ![g] = next]
    BY <1>11 DEF StartWindow, GuestTypeOK
  <2> QED BY <2>1, <2>2, <1>11, <1>a DEF StartWindow, Spends
<1>12. ASSUME NEW g \in Guests, LockPIN(g) \/ RightPIN(g) PROVE CodeInv'
  <2>1. guest' = [guest EXCEPT ![g] = Away] /\ guest[g].at \in {"lock", "pin"}
        /\ UNCHANGED <<otp, codes, tried, accepted, stale>>
    BY <1>12 DEF LockPIN, RightPIN
  <2> QED BY <2>1, <1>0, <1>a DEF Spends
<1>13. ASSUME NEW g \in Guests, GuestLeaves(g) PROVE CodeInv'
  <2>1. /\ guest' = [guest EXCEPT ![g] = Away] /\ UNCHANGED <<otp, codes, tried, accepted>>
        /\ stale \subseteq stale'
        /\ guest[g].at \in {"ttl", "write", "accept"} => guest[g].code \in stale'
    BY <1>13 DEF GuestLeaves
  <2> QED BY <2>1, <1>0, <1>a DEF Spends
<1>14. CASE CodeExpires
  BY <1>14, <1>b, <1>c DEF CodeExpires
<1>15. CASE CountExpires \/ LockExpires \/ UNCHANGED guestVars
  <2>1. UNCHANGED <<otp, codes, guest, tried, accepted, stale>>
    BY <1>15 DEF CountExpires, LockExpires, guestVars
  <2>2. CodesValid' /\ CopiesFresh'
    BY <2>1 DEF CodeInv, CodesValid, CopiesFresh, Holder, Spends
  <2>3. ASSUME NEW c \in 1 .. MaxCodes, c \notin stale' PROVE TriesOf(c)'
    BY <2>1, <2>3 DEF CodeInv, TriesCounted, TriesOf, Spends
  <2> QED BY <2>2, <2>3 DEF CodeInv, TriesCounted
<1> QED
  BY <1>1, <1>2, <1>3, <1>4, <1>5, <1>6, <1>7, <1>8, <1>9, <1>10, <1>11, <1>12, <1>13, <1>14, <1>15 DEF GuestNext, Refused

\* Every step of the PIN keeps its invariant.
LEMMA PinCountedStep == GuestTypeOK /\ PinCounted /\ [GuestNext]_guestVars => PinCounted'
<1> SUFFICES ASSUME GuestTypeOK, PinCounted, [GuestNext]_guestVars PROVE PinCounted'
  OBVIOUS
<1> USE GuestLoginAssumption
<1>0. Away.at = "idle" /\ \A n \in Nat : Fresh("send", n, 0).at = "send"
  BY DEF Away, Fresh
<1>a. ASSUME UNCHANGED <<pin, guesses>>, "pin" \notin stale' => "pin" \notin stale,
             \A h \in Guests : AtPin(h)' => AtPin(h),
             "pin" \notin stale' => \A h \in Guests : guest[h].at \in {"window", "lock"} => AtPin(h)',
             \A h \in Guests : AtPin(h)' => guest'[h].at = guest[h].at /\ guest'[h].attempts = guest[h].attempts
      PROVE  PinCounted'
  BY <1>a DEF PinCounted, AtPin, PinAts
<1>b. ASSUME NEW g, NEW next, Overtakes(g, next), g \in Guests => ~AtPin(g), next.at \notin PinAts,
             UNCHANGED <<pin, guesses>>, "pin" \notin stale' => "pin" \notin stale
      PROVE  PinCounted'
  <2>1. /\ g \in Guests => guest'[g] = next
        /\ \A h \in Guests \ {g} : guest'[h].at = guest[h].at /\ guest'[h].attempts = guest[h].attempts
    BY <1>b, Overtaken
  <2> QED BY <1>a, <1>b, <2>1 DEF AtPin, PinAts
<1>c. ASSUME NEW g \in Guests, NEW next, guest' = [guest EXCEPT ![g] = next], ~AtPin(g), next.at \notin PinAts,
             UNCHANGED <<pin, guesses>>, "pin" \notin stale' => "pin" \notin stale
      PROVE  PinCounted'
  <2>1. guest'[g] = next /\ \A h \in Guests \ {g} : guest'[h] = guest[h]
    BY <1>c, Alone
  <2> QED BY <1>a, <1>c, <2>1 DEF AtPin, PinAts
<1>1. ASSUME NEW g \in Guests, RequestCode(g) PROVE PinCounted'
  <2>1. Fresh("send", codes + 1, 0).at \notin PinAts /\ ~AtPin(g)
    BY <1>1 DEF Fresh, PinAts, AtPin, RequestCode
  <2> QED BY <1>1, <1>b, <2>1 DEF RequestCode
<1>2. ASSUME NEW g \in Guests, SendCode(g) PROVE PinCounted'
  <2>1. Away.at \notin PinAts /\ ~AtPin(g)
    BY <1>0, <1>2 DEF PinAts, AtPin, SendCode
  <2> QED BY <1>2, <1>b, <1>c, <2>1 DEF SendCode
<1>3. ASSUME NEW g \in Guests, VerifyCode(g) PROVE PinCounted'
  <2>1. Fresh("check", otp.code, otp.attempts).at \notin PinAts /\ ~AtPin(g)
    BY <1>3 DEF Fresh, PinAts, AtPin, VerifyCode
  <2> QED BY <1>3, <1>c, <2>1 DEF VerifyCode
<1>4. ASSUME NEW g \in Guests, CompareCode(g) PROVE PinCounted'
  <2>1. \A at \in HolderAts, n \in Nat : Moved(g, at, n, TRUE).at \notin PinAts
    BY DEF Moved, PinAts, HolderAts
  <2>2. guest[g].attempts \in Nat /\ guest[g].attempts + 1 \in Nat
    BY DEF GuestTypeOK, GuestRec
  <2>3. PICK at \in HolderAts, n \in Nat : guest' = [guest EXCEPT ![g] = Moved(g, at, n, TRUE)]
    BY <1>4, <2>2 DEF CompareCode, HolderAts, GuestTypeOK
  <2>4. /\ ~AtPin(g) /\ UNCHANGED <<pin, guesses>>
        /\ "pin" \notin stale' => "pin" \notin stale
    BY <1>4 DEF CompareCode, AtPin, PinAts
  <2> QED BY <1>c, <2>1, <2>3, <2>4
<1>5. ASSUME NEW g \in Guests, ReadTTL(g) PROVE PinCounted'
  <2>1. Moved(g, "write", guest[g].attempts, otp.code # 0 /\ otp.expires).at \notin PinAts
    BY DEF Moved, PinAts
  <2>2. guest' = [guest EXCEPT ![g] = Moved(g, "write", guest[g].attempts, otp.code # 0 /\ otp.expires)]
    BY <1>5 DEF ReadTTL, GuestTypeOK
  <2>3. ~AtPin(g) /\ UNCHANGED <<pin, guesses, stale>>
    BY <1>5 DEF ReadTTL, AtPin, PinAts
  <2> QED BY <1>c, <2>1, <2>2, <2>3
<1>6. ASSUME NEW g \in Guests, WriteAttempt(g) \/ AcceptCode(g) \/ DiscardCode(g) PROVE PinCounted'
  <2>1. /\ ~AtPin(g) /\ Overtakes(g, Away) /\ UNCHANGED <<pin, guesses>>
        /\ "pin" \notin stale' => "pin" \notin stale
    BY <1>6 DEF WriteAttempt, AcceptCode, DiscardCode, AtPin, PinAts
  <2>2. Away.at \notin PinAts
    BY <1>0 DEF PinAts
  <2> QED BY <1>b, <2>1, <2>2
<1>7. CASE CodeExpires
  <2>1. Away.at \notin PinAts
    BY <1>0 DEF PinAts
  <2> QED BY <1>7, <1>b, <2>1 DEF CodeExpires
<1>d. /\ pin.count \in Nat /\ MaxAttempts \in Nat \ {0} /\ guesses = pin.count
      /\ \A h \in Guests : guest[h].attempts \in Nat
  BY DEF GuestTypeOK, GuestRec, PinCounted
<1>8. ASSUME NEW g \in Guests, EnterPIN(g) PROVE PinCounted'
  <2>1. /\ guest[g].at = "idle" /\ ~pin.locked /\ UNCHANGED <<pin, guesses>>
        /\ guest'[g] = Fresh("pin", 0, 0) /\ \A h \in Guests \ {g} : guest'[h] = guest[h]
        /\ "pin" \notin stale' => "pin" \notin stale /\ \A h \in Guests : ~AtPin(h)
    BY <1>8, Alone DEF EnterPIN, AtPin, PinAts
  <2>2. guest'[g].at = "pin"
    BY <2>1 DEF Fresh
  <2>3. "pin" \notin stale' => pin.count < MaxAttempts
    BY <2>1, <1>d DEF PinCounted, AtPin, PinAts
  <2> QED BY <2>1, <2>2, <2>3, <1>d DEF PinCounted, AtPin, PinAts
<1>9. ASSUME NEW g \in Guests, WrongPIN(g) PROVE PinCounted'
  <2>1. /\ guest[g].at = "pin" /\ guesses' = guesses + 1 /\ stale' = stale
        /\ pin' = [count |-> pin.count + 1, expires |-> pin.count > 0 /\ pin.expires, locked |-> pin.locked]
        /\ guest'[g] = Fresh("window", 0, pin.count + 1) /\ \A h \in Guests \ {g} : guest'[h] = guest[h]
    BY <1>9, Alone DEF WrongPIN
  <2>2. /\ guest'[g].at = "window" /\ guest'[g].attempts = pin.count + 1
        /\ pin'.count = pin.count + 1 /\ pin'.expires = (pin.count > 0 /\ pin.expires) /\ pin'.locked = pin.locked
    BY <2>1 DEF Fresh
  <2>3. guesses' = pin'.count
    BY <2>1, <2>2, <1>d
  <2>4. ASSUME "pin" \notin stale' PROVE PinCounted'
    <3>1. /\ \A h \in Guests \ {g} : ~AtPin(h) /\ ~AtPin(h)'
          /\ ~pin.locked /\ pin.count < MaxAttempts
      BY <2>1, <2>4 DEF PinCounted, AtPin, PinAts
    <3>2. pin.count > 0 => pin.expires
      BY <2>1, <2>4, <3>1 DEF PinCounted, AtPin, PinAts
    <3>3. pin'.count > 0 /\ ~pin'.expires => pin.count = 0
      <4>1. pin.count > 0 => pin'.expires
        BY <2>2, <3>2
      <4> QED BY <4>1, <1>d
    <3> QED BY <2>2, <2>3, <3>1, <3>3, <1>d DEF PinCounted, AtPin, PinAts
  <2> QED BY <2>3, <2>4 DEF PinCounted
<1>10. ASSUME NEW g \in Guests, StartWindow(g) PROVE PinCounted'
  <2>1. /\ guest[g].at = "window" /\ UNCHANGED <<guesses, stale>>
        /\ pin' = IF guest[g].attempts = 1 /\ pin.count > 0
                  THEN [count |-> pin.count, expires |-> TRUE, locked |-> pin.locked] ELSE pin
        /\ guest'[g] = (IF LockAt(guest[g].attempts) THEN Fresh("lock", 0, guest[g].attempts) ELSE Away)
        /\ \A h \in Guests \ {g} : guest'[h] = guest[h]
    BY <1>10, Alone DEF StartWindow, GuestTypeOK
  <2>2. /\ guest'[g].at = (IF LockAt(guest[g].attempts) THEN "lock" ELSE "idle")
        /\ pin'.count = pin.count /\ pin'.locked = pin.locked
        /\ guest[g].attempts = 1 /\ pin.count > 0 => pin'.expires
        /\ ~(guest[g].attempts = 1 /\ pin.count > 0) => pin'.expires = pin.expires
    <3>1. guest'[g].at = (IF LockAt(guest[g].attempts) THEN "lock" ELSE "idle")
      BY <2>1, <1>0 DEF Fresh
    <3>2. CASE guest[g].attempts = 1 /\ pin.count > 0
      <4>1. pin' = [count |-> pin.count, expires |-> TRUE, locked |-> pin.locked]
        BY <2>1, <3>2
      <4>2. pin'.count = pin.count /\ pin'.expires = TRUE /\ pin'.locked = pin.locked
        BY <4>1
      <4> QED BY <3>1, <3>2, <4>2
    <3>3. CASE ~(guest[g].attempts = 1 /\ pin.count > 0)
      <4>1. pin' = pin
        BY <2>1, <3>3
      <4> QED BY <3>1, <3>3, <4>1
    <3> QED BY <3>2, <3>3
  <2>3. ASSUME "pin" \notin stale' PROVE PinCounted'
    <3>1. /\ \A h \in Guests \ {g} : ~AtPin(h) /\ ~AtPin(h)'
          /\ ~pin.locked /\ (pin.count = 0 \/ guest[g].attempts = pin.count) /\ pin.count <= MaxAttempts
      BY <2>1, <2>3 DEF PinCounted, AtPin, PinAts
    <3>2. pin.count > 0 => pin'.expires
      BY <2>1, <2>2, <2>3, <3>1 DEF PinCounted, AtPin, PinAts
    <3>3. pin.count >= MaxAttempts => guest'[g].at = "lock"
      BY <2>2, <3>1, <1>d DEF LockAt
    <3> QED BY <2>1, <2>2, <3>1, <3>2, <3>3, <1>d DEF PinCounted, AtPin, PinAts
  <2> QED BY <2>1, <2>2, <2>3, <1>d DEF PinCounted
<1>11. ASSUME NEW g \in Guests, LockPIN(g) PROVE PinCounted'
  <2>1. /\ guest[g].at = "lock" /\ UNCHANGED <<guesses, stale>>
        /\ pin'.count = pin.count /\ pin'.expires = pin.expires /\ pin'.locked
        /\ guest'[g].at = "idle" /\ \A h \in Guests \ {g} : guest'[h] = guest[h]
    BY <1>11, <1>0, Alone DEF LockPIN
  <2>2. "pin" \notin stale' => \A h \in Guests \ {g} : ~AtPin(h)
    BY <2>1 DEF PinCounted, AtPin, PinAts
  <2> QED BY <2>1, <2>2, <1>d DEF PinCounted, AtPin, PinAts
<1>12. ASSUME NEW g \in Guests, RightPIN(g) PROVE PinCounted'
  <2>1. /\ guest[g].at = "pin" /\ guesses' = 0 /\ stale' = stale
        /\ pin'.count = 0 /\ pin'.expires /\ pin'.locked = pin.locked
        /\ guest'[g].at = "idle" /\ \A h \in Guests \ {g} : guest'[h] = guest[h]
    BY <1>12, <1>0, Alone DEF RightPIN, NoCount
  <2> QED BY <2>1, <1>d DEF PinCounted, AtPin, PinAts
<1>13. ASSUME NEW g \in Guests, GuestLeaves(g) PROVE PinCounted'
  <2>1. /\ UNCHANGED <<pin, guesses>>
        /\ guest'[g].at = "idle" /\ \A h \in Guests \ {g} : guest'[h] = guest[h]
        /\ "pin" \notin stale' => "pin" \notin stale
        /\ "pin" \notin stale' => guest[g].at \notin {"window", "lock"}
    BY <1>13, <1>0, Alone DEF GuestLeaves
  <2> QED BY <2>1, <1>a DEF AtPin, PinAts
<1>14. CASE CountExpires
  <2>1. guesses' = 0 /\ pin'.count = 0 /\ pin'.expires /\ pin'.locked = pin.locked /\ UNCHANGED <<guest, stale>>
    BY <1>14 DEF CountExpires, NoCount
  <2> QED BY <2>1, <1>d DEF PinCounted, AtPin, PinAts
<1>15. CASE LockExpires
  <2>1. /\ pin.locked /\ pin'.count = pin.count /\ pin'.expires = pin.expires /\ ~pin'.locked
        /\ UNCHANGED <<guesses, guest, stale>>
        /\ pin.expires => pin.count = 0
    BY <1>15 DEF LockExpires
  <2>2. "pin" \notin stale => \A h \in Guests : ~AtPin(h)
    BY <2>1 DEF PinCounted
  <2>3. "pin" \notin stale => pin.count = 0
    BY <2>1, <2>2, <1>d DEF PinCounted, AtPin, PinAts
  <2> QED BY <2>1, <2>2, <2>3, <1>d DEF PinCounted, AtPin, PinAts
<1>16. CASE UNCHANGED guestVars
  BY <1>16, <1>a DEF guestVars, AtPin, PinAts
<1> QED
  BY <1>1, <1>2, <1>3, <1>4, <1>5, <1>6, <1>7, <1>8, <1>9, <1>10, <1>11, <1>12, <1>13, <1>14, <1>15, <1>16
  DEF GuestNext, Refused

(***************************************************************************)
(* customerOTPVerify and customerLogin, for any number of requests, codes  *)
(* and attempts: a code is compared no more often than the limit and opens *)
(* once, the code in force is the newest and expires, and wrong PINs are   *)
(* no more than the limit before the lock, unless handlers held one record *)
(* at once or one was left half way (whatsapp_otp.go, portals.go).         *)
(***************************************************************************)
THEOREM GuestLoginIsBounded == GuestSpec => []GuestLoginBounded
<1>1. GuestInv => GuestLoginBounded
  <2> SUFFICES ASSUME GuestInv PROVE GuestLoginBounded
    OBVIOUS
  <2> USE GuestLoginAssumption DEF GuestInv, GuestTypeOK
  <2>1. DOMAIN tried = 1 .. MaxCodes /\ DOMAIN accepted = 1 .. MaxCodes
    OBVIOUS
  <2>2. \A c \in 1 .. MaxCodes : c \notin stale =>
          /\ tried[c] <= MaxAttempts /\ accepted[c] <= 1
          /\ otp.code = c => otp.code = codes /\ otp.expires
    BY DEF CodeInv, TriesCounted, TriesOf
  <2>3. otp.code # 0 => otp.code \in 1 .. MaxCodes
    BY DEF CodeInv, CodesValid
  <2>n. /\ MaxAttempts \in Nat /\ \A c \in 1 .. MaxCodes : tried[c] \in Nat /\ accepted[c] \in Nat
    OBVIOUS
  <2>4. CodeTriesBounded /\ CodeOpensOnce
    BY SMTT(30), <2>1, <2>2, <2>n DEF CodeTriesBounded, CodeOpensOnce
  <2>5. CodeInForceIsFresh
    BY <2>2, <2>3 DEF CodeInForceIsFresh
  <2>6. PinGuessesBounded
    BY DEF PinCounted, PinGuessesBounded
  <2> QED BY <2>4, <2>5, <2>6 DEF GuestLoginBounded
<1>2. GuestInv /\ [GuestNext]_guestVars => GuestInv'
  BY GuestTypeStep, CodeInvStep, PinCountedStep DEF GuestInv, CodeInv
<1> QED BY <1>1, <1>2, GuestInvInit, PTL DEF GuestSpec

-----------------------------------------------------------------------------
\* The row of a customer card.
CardRec == [phone : Phones, live : BOOLEAN, welcome : BOOLEAN, attributed : BOOLEAN]

\* The cards in order of creation, the clicks with the card each was given to, and the requests under way.
RegTypeOK ==
  /\ cards \in Seq(CardRec) /\ clicks \in Seq(Nat)
  /\ applicant \in [Applicants -> [at : {"idle", "lookup", "insert"}, phone : Phones \cup {"none"},
                                   coded : BOOLEAN, byStaff : BOOLEAN]]
  /\ \A q \in Applicants : applicant[q].at # "idle" => applicant[q].phone \in Phones
  /\ program \in BOOLEAN

\* No two live cards have one phone: the unique index.
PhonesApart == \A i, j \in LiveCards : cards[i].phone = cards[j].phone => i = j

\* While no two requests counted at once there is room for the one that has counted.
RoomKept ==
  ~crowded =>
    /\ Cardinality(LiveCards) <= CustomerLimit
    /\ \A p, q \in Counting : p = q
    /\ Counting # {} => HasRoom

\* A card is attributed by the direct code or by one click, and a click to one card.
Attributions ==
  /\ direct \subseteq CardIds
  /\ \A j \in 1 .. Len(clicks) : clicks[j] # 0 => clicks[j] \in CardIds
  /\ \A j, k \in 1 .. Len(clicks) : clicks[j] = clicks[k] /\ clicks[j] # 0 => j = k
  /\ \A i \in direct : cards[i].attributed /\ \A j \in 1 .. Len(clicks) : clicks[j] # i
  /\ \A j \in 1 .. Len(clicks) : clicks[j] # 0 => cards[clicks[j]].attributed
  /\ \A i \in CardIds : cards[i].attributed => i \in direct \/ \E j \in 1 .. Len(clicks) : clicks[j] = i

RegInv == RegTypeOK /\ PhonesApart /\ RoomKept /\ Attributions

\* The live cards are finitely many.
LEMMA LiveCardsFinite ==
  ASSUME RegTypeOK PROVE LiveCards \subseteq CardIds /\ IsFiniteSet(LiveCards) /\ Cardinality(LiveCards) \in Nat
<1>1. LiveCards \subseteq CardIds
  BY DEF LiveCards
<1>2. Len(cards) \in Nat
  BY DEF RegTypeOK
<1>3. IsFiniteSet(CardIds)
  BY <1>2, FS_Interval DEF CardIds
<1> QED BY <1>1, <1>3, FS_Subset, FS_CardinalityType

\* There are no cards and no clicks.
LEMMA RegInvInit == RegInit => RegInv
<1> SUFFICES ASSUME RegInit PROVE RegInv
  OBVIOUS
<1> USE RegistrationAssumption DEF RegInit
<1>1. Len(cards) = 0 /\ Len(clicks) = 0 /\ cards \in Seq(CardRec) /\ clicks \in Seq(Nat)
  OBVIOUS
<1>2. CardIds = {} /\ LiveCards = {}
  BY <1>1 DEF CardIds, LiveCards
<1>3. RegTypeOK
  BY <1>1 DEF RegTypeOK, NoApplicant, Applying
<1>4. Counting = {}
  BY DEF Counting, NoApplicant, Applying
<1>5. RoomKept
  BY <1>2, <1>4, FS_EmptySet DEF RoomKept
<1>6. PhonesApart
  BY <1>2 DEF PhonesApart
<1>7. Attributions
  BY <1>1, <1>2 DEF Attributions
<1> QED BY <1>3, <1>5, <1>6, <1>7 DEF RegInv

\* What a step does to the requests that are counting leaves the room for the customer they will insert.
LEMMA RegInvStep == RegInv /\ [RegNext]_regVars => RegInv'
<1> SUFFICES ASSUME RegInv, [RegNext]_regVars PROVE RegInv'
  OBVIOUS
<1> USE RegistrationAssumption
<1>t. RegTypeOK /\ Len(cards) \in Nat /\ Len(clicks) \in Nat /\ CustomerLimit \in Nat /\ Cardinality(LiveCards) \in Nat
  BY LiveCardsFinite DEF RegInv, RegTypeOK
\* Steps that leave the cards alone.
<1>c. ASSUME UNCHANGED cards
      PROVE  LiveCards' = LiveCards /\ CardIds' = CardIds /\ (HasRoom' <=> HasRoom) /\ PhonesApart'
  BY <1>c DEF RegInv, LiveCards, CardIds, HasRoom, PhonesApart
<1>a. ASSUME UNCHANGED <<cards, clicks, direct>> PROVE Attributions'
  BY <1>a, <1>c DEF RegInv, Attributions
<1>r. ASSUME UNCHANGED <<cards, applicant, crowded>> PROVE RoomKept'
  BY <1>r, <1>c DEF RegInv, RoomKept, Counting
<1>1. CASE PublicReferral
  <2>1. UNCHANGED <<cards, direct, program, applicant, crowded>> /\ clicks' = Append(clicks, 0)
    BY <1>1 DEF PublicReferral
  <2>2. clicks' \in Seq(Nat) /\ Len(clicks') = Len(clicks) + 1
        /\ (\A j \in 1 .. Len(clicks) : clicks'[j] = clicks[j]) /\ clicks'[Len(clicks) + 1] = 0
    BY <2>1, <1>t, AppendProperties DEF RegTypeOK
  <2>3. RegTypeOK'
    BY <2>1, <2>2 DEF RegInv, RegTypeOK
  <2>4. \A j \in 1 .. Len(clicks') : clicks'[j] # 0 => j \in 1 .. Len(clicks) /\ clicks'[j] = clicks[j]
    BY <2>2, <1>t
  <2>5. \A i \in CardIds, j \in 1 .. Len(clicks) : clicks[j] = i => j \in 1 .. Len(clicks') /\ clicks'[j] = i
    BY SMTT(30), <2>2, <1>t
  <2>6. \A i \in CardIds : i # 0
    BY DEF CardIds
  <2>7. Attributions'
    BY <2>1, <2>4, <2>5, <2>6, <1>c DEF RegInv, Attributions
  <2> QED BY <2>1, <2>3, <2>7, <1>c, <1>r DEF RegInv
<1>2. CASE SaveReferralProgram
  <2>1. UNCHANGED <<cards, clicks, direct, applicant, crowded>> /\ program' \in BOOLEAN
    BY <1>2 DEF SaveReferralProgram
  <2> QED BY <2>1, <1>c, <1>a, <1>r DEF RegInv, RegTypeOK
<1>3. ASSUME NEW q \in Applicants, NEW phone \in Phones, NEW coded \in BOOLEAN, ScanDevice(q, phone, coded)
      PROVE  RegInv'
  <2>1. UNCHANGED <<cards, clicks, direct, program, crowded>> /\ applicant[q].at = "idle"
        /\ applicant' = [applicant EXCEPT ![q] = Applying("lookup", phone, coded, FALSE)]
    BY <1>3 DEF ScanDevice
  <2>2. RegTypeOK'
    BY <2>1, <1>t DEF RegTypeOK, Applying
  <2>3. Counting' = Counting
    BY <2>1, <1>t DEF RegTypeOK, Counting, Applying
  <2>4. RoomKept'
    BY <2>1, <2>3, <1>c DEF RegInv, RoomKept
  <2> QED BY <2>1, <2>2, <2>4, <1>c, <1>a DEF RegInv
<1>4. ASSUME NEW q \in Applicants, LookUpCard(q) PROVE RegInv'
  <2> DEFINE new == LiveCardsOf(applicant[q].phone) = {} /\ HasRoom
  <2>1. UNCHANGED <<cards, clicks, direct, program>> /\ applicant[q].at = "lookup"
        /\ crowded' = (crowded \/ (new /\ Counting # {}))
    BY <1>4 DEF LookUpCard
  <2>2. applicant' = [applicant EXCEPT ![q] = IF new THEN Applying("insert", applicant[q].phone, applicant[q].coded, applicant[q].byStaff) ELSE NoApplicant]
    BY <1>4, <1>t DEF LookUpCard, RegTypeOK
  <2>3. CASE new
    <3>1. applicant' = [applicant EXCEPT ![q] = Applying("insert", applicant[q].phone, applicant[q].coded, applicant[q].byStaff)]
      BY <2>2, <2>3
    <3>2. RegTypeOK'
      BY <2>1, <3>1, <1>t DEF RegTypeOK, Applying
    <3>3. Counting' = Counting \cup {q}
      BY <3>1, <1>t DEF RegTypeOK, Counting, Applying
    <3>4. HasRoom /\ (~crowded' => ~crowded /\ Counting = {})
      BY <2>1, <2>3
    <3>5. RoomKept'
      BY <2>1, <3>3, <3>4, <1>c, <1>t DEF RegInv, RoomKept
    <3> QED BY <2>1, <3>2, <3>5, <1>c, <1>a DEF RegInv
  <2>4. CASE ~new
    <3>1. applicant' = [applicant EXCEPT ![q] = NoApplicant] /\ (~crowded' => ~crowded)
      BY <2>1, <2>2, <2>4
    <3>2. RegTypeOK'
      BY <2>1, <3>1, <1>t DEF RegTypeOK, Applying, NoApplicant
    <3>3. Counting' = Counting
      BY <2>1, <3>1, <1>t DEF RegTypeOK, Counting, Applying, NoApplicant
    <3>5. RoomKept'
      BY <2>1, <3>1, <3>3, <1>c, <1>t DEF RegInv, RoomKept
    <3> QED BY <2>1, <3>2, <3>5, <1>c, <1>a DEF RegInv
  <2> QED BY <2>3, <2>4
<1>5. ASSUME NEW q \in Applicants, NEW phone \in Phones, CreateCustomer(q, phone) PROVE RegInv'
  <2>1. UNCHANGED <<cards, clicks, direct, program>> /\ HasRoom /\ crowded' = (crowded \/ Counting # {})
        /\ applicant' = [applicant EXCEPT ![q] = Applying("insert", phone, FALSE, TRUE)]
    BY <1>5 DEF CreateCustomer
  <2>2. RegTypeOK'
    BY <2>1, <1>t DEF RegTypeOK, Applying
  <2>3. Counting' = Counting \cup {q}
    BY <2>1, <1>t DEF RegTypeOK, Counting, Applying
  <2>4. ~crowded' => ~crowded /\ Counting = {}
    BY <2>1
  <2>5. RoomKept'
    BY <2>1, <2>3, <2>4, <1>c, <1>t DEF RegInv, RoomKept
  <2> QED BY <2>1, <2>2, <2>5, <1>c, <1>a DEF RegInv
<1>6. ASSUME NEW q \in Applicants, InsertCard(q) PROVE RegInv'
  <2> DEFINE x == applicant[q]
             card == Len(cards) + 1
             attributed == x.coded /\ program
             new == Card(x.phone, TRUE, ~x.byStaff, attributed)
  <2>1. /\ x.at = "insert" /\ applicant' = [applicant EXCEPT ![q] = NoApplicant]
        /\ UNCHANGED <<program, crowded>>
    BY <1>6 DEF InsertCard
  <2>2. Counting' = Counting \ {q} /\ q \in Counting
    BY <2>1, <1>t DEF RegTypeOK, Counting, Applying, NoApplicant
  <2>3. applicant' \in [Applicants -> [at : {"idle", "lookup", "insert"}, phone : Phones \cup {"none"},
                                   coded : BOOLEAN, byStaff : BOOLEAN]]
        /\ \A p \in Applicants : applicant'[p].at # "idle" => applicant'[p].phone \in Phones
    BY <2>1, <1>t DEF RegTypeOK, Applying, NoApplicant
  <2>4. CASE UNCHANGED <<cards, clicks, direct>>
    <3>1. RegTypeOK'
      BY <2>1, <2>3, <2>4, <1>t DEF RegTypeOK
    <3>2. RoomKept'
      BY <2>1, <2>2, <2>4, <1>c DEF RegInv, RoomKept
    <3> QED BY <2>4, <3>1, <3>2, <1>c, <1>a DEF RegInv
  <2>5. CASE /\ PhoneFree(x.phone)
             /\ cards' = Append(cards, new)
             /\ IF attributed /\ FreeClicks # {} THEN TakeClick(card) ELSE UNCHANGED clicks
             /\ direct' = IF attributed /\ FreeClicks = {} THEN direct \cup {card} ELSE direct
    <3>1. x.phone \in Phones /\ x.coded \in BOOLEAN /\ x.byStaff \in BOOLEAN /\ program \in BOOLEAN
      BY <2>1, <1>t DEF RegTypeOK
    <3>2. new \in CardRec /\ new.live /\ new.phone = x.phone /\ new.attributed = attributed
      BY <3>1 DEF CardRec, Card
    <3> HIDE DEF new
    <3>3. /\ cards' \in Seq(CardRec) /\ Len(cards') = card
          /\ (\A i \in 1 .. Len(cards) : cards'[i] = cards[i]) /\ cards'[card] = new
      BY <2>5, <3>2, <1>t, AppendProperties DEF RegTypeOK
    <3>4. CardIds' = CardIds \cup {card} /\ card \notin CardIds /\ \A i \in CardIds : cards'[i] = cards[i]
      BY <3>3, <1>t DEF CardIds
    <3>5. LiveCards' = LiveCards \cup {card} /\ card \notin LiveCards
      BY <3>2, <3>3, <3>4 DEF LiveCards
    <3>6. PhonesApart'
      <4>1. \A i \in LiveCards : cards[i].phone # x.phone
        BY <2>5 DEF PhoneFree, LiveCardsOf
      <4>2. \A i \in LiveCards : cards'[i] = cards[i]
        BY <3>4 DEF LiveCards
      <4> QED BY SMTT(30), <3>2, <3>3, <3>5, <4>1, <4>2 DEF RegInv, PhonesApart
    <3>7. RoomKept'
      <4>1. Cardinality(LiveCards') = Cardinality(LiveCards) + 1
        BY <3>5, <1>t, LiveCardsFinite, FS_AddElement
      <4>2. ~crowded => Counting' = {} /\ Cardinality(LiveCards) < CustomerLimit
        BY <2>2 DEF RegInv, RoomKept, HasRoom
      <4> QED BY <2>1, <4>1, <4>2, <1>t DEF RoomKept
    <3> HIDE DEF card, attributed
    <3>8. /\ attributed \in BOOLEAN /\ card \in Nat /\ card # 0
          /\ Attributions
      BY <3>1, <1>t DEF attributed, card, RegInv
    <3>9. CASE attributed /\ FreeClicks # {}
      <4>1. PICK k \in FreeClicks : clicks' = [clicks EXCEPT ![k] = card]
        BY <2>5, <3>9 DEF TakeClick
      <4>2. k \in 1 .. Len(clicks) /\ clicks[k] = 0 /\ direct' = direct
        BY <4>1, <2>5, <3>9 DEF FreeClicks
      <4>3. /\ clicks' \in Seq(Nat) /\ Len(clicks') = Len(clicks)
            /\ clicks'[k] = card /\ \A j \in 1 .. Len(clicks) \ {k} : clicks'[j] = clicks[j]
        BY <4>1, <4>2, <3>8, <1>t, ExceptSeq DEF RegTypeOK
      <4>4. RegTypeOK'
        BY <2>1, <2>3, <3>3, <4>3, <1>t DEF RegTypeOK
      <4>5. Attributions'
        <5>1. /\ direct \subseteq CardIds
              /\ \A j \in 1 .. Len(clicks) : clicks[j] # 0 => clicks[j] \in CardIds
          BY <3>8 DEF Attributions
        <5>2. \A j \in 1 .. Len(clicks) : clicks[j] # card
          BY <5>1, <3>4, <3>8
        <5>3. cards'[card].attributed
          BY <3>2, <3>3, <3>9
        <5>4. \A j \in 1 .. Len(clicks') : clicks'[j] # 0 => clicks'[j] \in CardIds' /\ cards'[clicks'[j]].attributed
          BY SMTT(30), <3>4, <3>8, <4>2, <4>3, <5>1, <5>3 DEF Attributions
        <5>5. \A j, l \in 1 .. Len(clicks') : clicks'[j] = clicks'[l] /\ clicks'[j] # 0 => j = l
          <6>1. PICK taken, before, n : taken = clicks' /\ before = clicks /\ n = Len(clicks)
            BY Zenon
          <6>2. \A j, l \in 1 .. n : before[j] = before[l] /\ before[j] # 0 => j = l
            BY <3>8, <6>1, Zenon DEF Attributions
          <6>3. /\ taken[k] = card /\ \A j \in 1 .. n : j # k => taken[j] = before[j]
                /\ \A j \in 1 .. n : before[j] # card
            BY <4>3, <5>2, <6>1
          <6>4. \A j, l \in 1 .. n : taken[j] = taken[l] /\ taken[j] # 0 => j = l
            BY <6>2, <6>3, Zenon
          <6> QED BY <4>3, <6>1, <6>4
        <5>6. \A i \in direct : cards'[i].attributed /\ i # card /\ \A j \in 1 .. Len(clicks') : clicks'[j] # i
          <6> SUFFICES ASSUME NEW i \in direct
                       PROVE  cards'[i].attributed /\ i # card /\ \A j \in 1 .. Len(clicks') : clicks'[j] # i
            OBVIOUS
          <6>1. i \in CardIds /\ i # card /\ cards'[i] = cards[i]
            BY <3>4, <5>1
          <6>2. cards[i].attributed /\ \A j \in 1 .. Len(clicks) : clicks[j] # i
            BY <3>8 DEF Attributions
          <6> QED BY <4>3, <6>1, <6>2
        <5>7. \A i \in CardIds' : cards'[i].attributed => i \in direct' \/ \E j \in 1 .. Len(clicks') : clicks'[j] = i
          <6> SUFFICES ASSUME NEW i \in CardIds, cards[i].attributed, i \notin direct
                       PROVE  \E j \in 1 .. Len(clicks') : clicks'[j] = i
            BY <3>4, <4>2, <4>3
          <6>1. PICK j \in 1 .. Len(clicks) : clicks[j] = i
            BY <3>8 DEF Attributions
          <6>2. i # 0
            BY DEF CardIds
          <6> QED BY <4>2, <4>3, <6>1, <6>2
        <5> QED BY <3>4, <4>2, <5>1, <5>4, <5>5, <5>6, <5>7 DEF Attributions
      <4> QED BY <3>6, <3>7, <4>4, <4>5 DEF RegInv
    <3>10. CASE ~(attributed /\ FreeClicks # {})
      <4>1. UNCHANGED clicks /\ direct' = (IF attributed THEN direct \cup {card} ELSE direct)
        BY <2>5, <3>10
      <4>4. RegTypeOK'
        BY <2>1, <2>3, <3>3, <4>1, <1>t DEF RegTypeOK
      <4>5. Attributions'
        <5>1. /\ direct \subseteq CardIds
              /\ \A j \in 1 .. Len(clicks) : clicks[j] # 0 => clicks[j] \in CardIds
          BY <3>8 DEF Attributions
        <5>2. \A j \in 1 .. Len(clicks) : clicks[j] # card
          BY <5>1, <3>4, <3>8
        <5>3. cards'[card].attributed = attributed
          BY <3>2, <3>3
        <5> QED BY ZenonT(30), <3>4, <3>8, <4>1, <5>1, <5>2, <5>3 DEF Attributions
      <4> QED BY <3>6, <3>7, <4>4, <4>5 DEF RegInv
    <3> QED BY <3>9, <3>10
  <2> QED BY <1>6, <2>4, <2>5 DEF InsertCard
<1>7. ASSUME NEW i \in 1 .. MaxCards, DeleteCustomer(i) PROVE RegInv'
  <2> DEFINE gone == Card(cards[i].phone, FALSE, cards[i].welcome, cards[i].attributed)
  <2>1. /\ i \in LiveCards /\ i \in CardIds /\ UNCHANGED <<clicks, direct, program, applicant, crowded>>
        /\ cards' = [cards EXCEPT ![i] = gone]
    BY <1>7, <1>t DEF DeleteCustomer, LiveCards, CardIds, RegTypeOK
  <2>2. gone \in CardRec /\ ~gone.live /\ gone.phone = cards[i].phone /\ gone.attributed = cards[i].attributed
    <3>1. cards[i] \in CardRec
      BY <2>1, <1>t, ElementOfSeq DEF RegTypeOK, CardIds
    <3> QED BY <3>1 DEF CardRec, Card
  <2> HIDE DEF gone
  <2>3. /\ cards' \in Seq(CardRec) /\ Len(cards') = Len(cards)
        /\ cards'[i] = gone /\ \A j \in CardIds \ {i} : cards'[j] = cards[j]
    BY <2>1, <2>2, <1>t, ExceptSeq DEF RegTypeOK, CardIds
  <2>4. CardIds' = CardIds /\ LiveCards' = LiveCards \ {i}
    BY <2>2, <2>3 DEF CardIds, LiveCards
  <2>5. \A j \in CardIds : cards'[j].phone = cards[j].phone /\ cards'[j].attributed = cards[j].attributed
    BY <2>2, <2>3
  <2>6. Cardinality(LiveCards') = Cardinality(LiveCards) - 1
    BY <2>1, <2>4, <1>t, LiveCardsFinite, FS_RemoveElement
  <2>7. RegTypeOK'
    BY <2>1, <2>3, <1>t DEF RegTypeOK
  <2>8. PhonesApart'
    BY <2>4, <2>5, LiveCardsFinite, <1>t DEF RegInv, PhonesApart
  <2>9. RoomKept'
    BY <2>1, <2>6, <1>t DEF RegInv, RoomKept, HasRoom, Counting
  <2>10. Attributions'
    BY <2>1, <2>4, <2>5 DEF RegInv, Attributions
  <2> QED BY <2>7, <2>8, <2>9, <2>10 DEF RegInv
<1>8. CASE UNCHANGED regVars
  <2>1. UNCHANGED <<cards, clicks, direct, program, applicant, crowded>>
    BY <1>8 DEF regVars
  <2> QED BY <2>1, <1>c, <1>a, <1>r DEF RegInv, RegTypeOK
<1> QED BY <1>1, <1>2, <1>3, <1>4, <1>5, <1>6, <1>7, <1>8 DEF RegNext

\* A set whose members are all equal has one member at most.
LEMMA AtMostOne ==
  ASSUME NEW S, \A x, y \in S : x = y
  PROVE  /\ IsFiniteSet(S) /\ Cardinality(S) = IF S = {} THEN 0 ELSE 1
<1>1. CASE S = {}
  BY <1>1, FS_EmptySet
<1>2. ASSUME NEW x \in S PROVE IsFiniteSet(S) /\ Cardinality(S) = 1
  <2>1. S = {x}
    OBVIOUS
  <2> QED BY <2>1, FS_Singleton
<1> QED BY <1>1, <1>2

(***************************************************************************)
(* customerRegister and createCustomer, for any phones, limit and number   *)
(* of requests: a phone has one live card at most, the plan's limit is     *)
(* exceeded only after requests counted at once, and a card that came with *)
(* a code is attributed once, by one click or directly (portals.go,        *)
(* api.go).                                                                *)
(***************************************************************************)
THEOREM CardsAreInOrder == RegSpec => []CardsInOrder
<1>1. RegInv => CardsInOrder
  <2> SUFFICES ASSUME RegInv PROVE CardsInOrder
    OBVIOUS
  <2>1. OneCardPerPhone
    <3> SUFFICES ASSUME NEW phone \in Phones PROVE Cardinality(LiveCardsOf(phone)) <= 1
      BY DEF OneCardPerPhone
    <3>1. \A i, j \in LiveCardsOf(phone) : i = j
      BY DEF LiveCardsOf, RegInv, PhonesApart
    <3> QED BY <3>1, AtMostOne
  <2>2. CardLimitHeld
    BY LiveCardsFinite, RegistrationAssumption DEF RegInv, RoomKept, CardLimitHeld
  <2>3. AttributedOnce
    <3> SUFFICES ASSUME NEW i \in CardIds
                 PROVE  LET byClick == {j \in 1 .. Len(clicks) : clicks[j] = i} IN
                        Cardinality(byClick) + (IF i \in direct THEN 1 ELSE 0) = IF cards[i].attributed THEN 1 ELSE 0
      BY DEF AttributedOnce
    <3> DEFINE byClick == {j \in 1 .. Len(clicks) : clicks[j] = i}
    <3>1. i # 0
      BY DEF CardIds
    <3>2. /\ \A j, k \in byClick : j = k
          /\ i \in direct => byClick = {} /\ cards[i].attributed
          /\ byClick # {} => cards[i].attributed
          /\ cards[i].attributed => i \in direct \/ byClick # {}
      BY <3>1 DEF RegInv, Attributions
    <3>3. Cardinality(byClick) = IF byClick = {} THEN 0 ELSE 1
      BY <3>2, AtMostOne
    <3> QED BY <3>2, <3>3
  <2> QED BY <2>1, <2>2, <2>3 DEF CardsInOrder
<1> QED BY <1>1, RegInvInit, RegInvStep, PTL DEF RegSpec
=============================================================================
