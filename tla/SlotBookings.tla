---------------------------- MODULE SlotBookings -----------------------------
(***************************************************************************)
(* Bookings from a company's public site. publicCreateBooking checks the   *)
(* site, the module, the subscription and the branch, and again in the     *)
(* INSERT; the owner confirms, completes and cancels (updateBooking reads  *)
(* the status before it writes). One branch; a slot is a start time.       *)
(***************************************************************************)
EXTENDS Integers, FiniteSets

CONSTANTS Bookings, Slots, Owners   \* Owners: requests of the owner

VARIABLES
  open,       \* does all that the checks ask for hold?
  booking,    \* bookings
  owner,      \* updates between reading and writing
  overruled   \* history: bookings cancelled while an update to another status was under way

bookVars == <<open, booking, owner, overruled>>

Unbooked == [status |-> "none", slot |-> "none"]
NoUpdateOf == [of |-> "none", status |-> "none"]
Holds(b, slot) == booking[b].slot = slot /\ booking[b].status \in {"new", "confirmed"}

BookInit ==
  /\ open = TRUE
  /\ booking = [b \in Bookings |-> Unbooked]
  /\ owner = [q \in Owners |-> NoUpdateOf]
  /\ overruled = {}

\* The site is published or withdrawn, the module or the branch switched, the subscription ends.
OpenOrClose ==
  /\ open' = ~open
  /\ UNCHANGED <<booking, owner, overruled>>

\* The checks before the INSERT pass.
PublicCheck(b, slot) ==
  /\ booking[b].status = "none"
  /\ open
  /\ booking' = [booking EXCEPT ![b] = [status |-> "checked", slot |-> slot]]
  /\ UNCHANGED <<open, owner, overruled>>

SlotAlwaysFree(b, slot) == TRUE

\* bookings_active_slot_uidx.
SlotFree(b, slot) == \A c \in Bookings \ {b} : ~Holds(c, slot)

InsertUnchecked(b) == SlotFree(b, booking[b].slot)

InsertAllowed(b) == open /\ SlotFree(b, booking[b].slot)

PublicInsert(b) ==
  /\ booking[b].status = "checked"
  /\ booking' = [booking EXCEPT ![b] = IF InsertAllowed(b) THEN [status |-> "new", slot |-> @.slot] ELSE Unbooked]
  /\ UNCHANGED <<open, owner, overruled>>

Kept == {"new", "confirmed", "completed", "cancelled"}

ReadIgnoresCancelled(b, status) == booking[b].status \in Kept

\* A cancelled booking takes no other status; cancelling asks for nothing.
ReadAllows(b, status) == booking[b].status \in Kept /\ (status = "cancelled" \/ booking[b].status # "cancelled")

UpdateRead(q, b, status) ==
  /\ owner[q] = NoUpdateOf
  /\ ReadAllows(b, status)
  /\ owner' = [owner EXCEPT ![q] = [of |-> b, status |-> status]]
  /\ UNCHANGED <<open, booking, overruled>>

\* The UPDATE does not ask for the status again; the slot's index may refuse it.
UpdateWrite(q) ==
  LET b == owner[q].of
      status == owner[q].status
      refused == status \in {"new", "confirmed"} /\ ~SlotFree(b, booking[b].slot)
      others == {p \in Owners \ {q} : owner[p].of = b /\ owner[p].status # "cancelled"}
  IN /\ owner[q] # NoUpdateOf
     /\ booking' = IF refused THEN booking ELSE [booking EXCEPT ![b] = [status |-> status, slot |-> @.slot]]
     /\ overruled' = IF status = "cancelled" /\ others # {} THEN overruled \cup {b} ELSE overruled
     /\ owner' = [owner EXCEPT ![q] = NoUpdateOf]
     /\ UNCHANGED open

BookNext ==
  \/ OpenOrClose
  \/ \E b \in Bookings : PublicInsert(b) \/ \E slot \in Slots : PublicCheck(b, slot)
  \/ \E q \in Owners : UpdateWrite(q) \/ \E b \in Bookings, status \in Kept : UpdateRead(q, b, status)

BookSpec == BookInit /\ [][BookNext]_bookVars

-----------------------------------------------------------------------------
\* A slot is held by one booking, new or confirmed, also after completed ones are taken up again.
SlotHeldOnce ==
  \A slot \in Slots : Cardinality({b \in Bookings : Holds(b, slot)}) <= 1

\* A cancelled booking stays cancelled, unless it was cancelled under an update that had read its status before.
CancelledStays ==
  [][\A b \in Bookings :
       booking[b].status = "cancelled" => booking'[b].status = "cancelled" \/ b \in overruled]_bookVars

\* A booking is taken only while the site is open, though it may have been closed after the first check.
BookedWhileOpen ==
  [][\A b \in Bookings : booking[b].status = "checked" /\ booking'[b].status = "new" => open]_bookVars

(***************************************************************************)
(* Guests and owners at once do not double-book a slot, book a closed site *)
(* or bring a cancelled booking back, except under an update already       *)
(* running.                                                                *)
(***************************************************************************)
BookingsKept ==
  /\ []SlotHeldOnce
  /\ CancelledStays
  /\ BookedWhileOpen
=============================================================================
