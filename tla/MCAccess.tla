------------------------------ MODULE MCAccess -------------------------------
(***************************************************************************)
(* One run for who gets in and what is given out once: staff sessions,     *)
(* guest logins, customers' cards, employees' access, bookings and         *)
(* partners' offers. They share no state, so each behaviour exercises one  *)
(* part; sessions are split into tokens exchanged and ended by their       *)
(* owner, password resets, resets against logouts, and MFA, guest logins   *)
(* into codes and PINs.                                                    *)
(***************************************************************************)
EXTENDS Sessions, GuestLogin, Registration, Employees, SlotBookings, Partnerships, TLC

CONSTANTS q1, q2, g1, g2

VARIABLE part

deskVars == <<regVars, staffVars, bookVars, partVars>>
mcVars == <<part, sessVars, guestVars, deskVars>>
Alike == Permutations(Requests) \cup Permutations(Guests)

MCInit ==
  /\ part \in {"owner", "reset", "signout", "mfa", "code", "pin", "cards", "staff", "booking", "partner"}
  /\ SessInit /\ GuestInit
  /\ RegInit /\ StaffInit /\ BookInit /\ PartInit

Ops == [owner |-> {"login", "refresh", "logout", "end", "switch"},
        reset |-> {"login", "refresh", "reset", "switch"},
        signout |-> {"login", "logout", "refresh", "reset"},
        mfa |-> {"login", "mfa"}]

SessPart ==
  /\ part \in DOMAIN Ops
  /\ SessNext
  /\ \A q \in Requests : req'[q].op \in Ops[part] \cup {"none"}
  /\ part \in {"reset", "signout"} \/ made'.link = 0
  /\ part = "mfa" \/ made'.totp = 0
  /\ part \in {"mfa", "signout"} => Len(proven') <= 2
  /\ part \notin {"reset", "signout"} \/ req' # req \/ made' # made   \* nothing expires

GuestPart ==
  /\ part \in {"code", "pin"}
  /\ GuestNext
  /\ IF part = "code" THEN pin' = pin /\ \A g \in Guests : guest'[g].at # "pin" ELSE codes' = 0

DeskPart ==
  \/ part = "cards" /\ RegNext /\ UNCHANGED <<staffVars, bookVars, partVars>>
  \/ part = "staff" /\ StaffNext /\ UNCHANGED <<regVars, bookVars, partVars>>
  \/ part = "booking" /\ BookNext /\ UNCHANGED <<regVars, staffVars, partVars>>
  \/ part = "partner" /\ PartNext /\ UNCHANGED <<regVars, staffVars, bookVars>>

MCNext ==
  /\ UNCHANGED part
  /\ \/ SessPart /\ UNCHANGED <<guestVars, deskVars>>
     \/ GuestPart /\ UNCHANGED <<sessVars, deskVars>>
     \/ DeskPart /\ UNCHANGED <<sessVars, guestVars>>

MCSpec == MCInit /\ [][MCNext]_mcVars
=============================================================================
