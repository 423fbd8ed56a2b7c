----------------------------- MODULE GuestLogin ------------------------------
(***************************************************************************)
(* How a guest opens a card, for one phone number: a code sent by WhatsApp *)
(* (customerOTPRequest, customerOTPVerify) or a PIN (customerLogin). The   *)
(* code's record and the counters of wrong attempts are Redis keys that a  *)
(* handler reads and writes back in separate commands; they expire by      *)
(* themselves. A code is its number in the order it was stored.            *)
(***************************************************************************)
EXTENDS Integers, FiniteSets

CONSTANTS
  Guests,       \* requests being served at the same time
  MaxAttempts,  \* attempts for a code (5), and wrong PINs before the lock (5)
  MaxCodes,     \* bound on codes requested
  MaxGuesses,   \* bound on wrong PINs compared
  MaxLeft       \* bound on clients that leave

ASSUME GuestLoginAssumption ==
  /\ {MaxAttempts, MaxCodes, MaxGuesses} \subseteq Nat \ {0}
  /\ MaxLeft \in Nat /\ "nobody" \notin Guests

VARIABLES
  otp,       \* the code's record: code, attempts, and whether it will expire
  codes,     \* codes stored so far
  pin,       \* customer-pin-fail (count, whether it will expire), customer-pin-lock
  guest,     \* the handlers at work
  left,      \* clients that left
  tried,     \* history: times each code was compared
  accepted,  \* history: times each code opened the card
  guesses,   \* history: wrong PINs since the count last began
  stale      \* history: codes, and "pin", whose record changed under a handler

guestVars == <<otp, codes, pin, guest, left, tried, accepted, guesses, stale>>

NoCode == [code |-> 0, attempts |-> 0, expires |-> TRUE]
Fresh(at, code, attempts) == [at |-> at, code |-> code, attempts |-> attempts, ttl |-> TRUE, stale |-> FALSE]
Away == Fresh("idle", 0, 0)

GuestInit ==
  /\ otp = NoCode /\ codes = 0
  /\ pin = [count |-> 0, expires |-> TRUE, locked |-> FALSE]
  /\ guest = [g \in Guests |-> Away] /\ left = 0
  /\ tried = [c \in 1 .. MaxCodes |-> 0] /\ accepted = [c \in 1 .. MaxCodes |-> 0]
  /\ guesses = 0 /\ stale = {}

\* g goes on with its copy of the record.
Moved(g, at, attempts, ttl) ==
  [at |-> at, code |-> guest[g].code, attempts |-> attempts, ttl |-> ttl, stale |-> guest[g].stale]

\* g goes on; the others that hold the code's record hold an old copy now.
Overtakes(g, next) ==
  guest' = [h \in Guests |->
              IF h = g THEN next
              ELSE IF guest[h].at \in {"check", "ttl", "write", "accept", "discard"}
                   THEN [at |-> guest[h].at, code |-> guest[h].code, attempts |-> guest[h].attempts,
                         ttl |-> guest[h].ttl, stale |-> TRUE]
                   ELSE guest[h]]

-----------------------------------------------------------------------------
\* customerOTPRequest: SET for five minutes, over any earlier code.
RequestCode(g) ==
  /\ guest[g].at = "idle"
  /\ codes < MaxCodes
  /\ codes' = codes + 1
  /\ otp' = [code |-> codes + 1, attempts |-> 0, expires |-> TRUE]
  /\ Overtakes(g, Fresh("send", codes + 1, 0))
  /\ UNCHANGED <<pin, left, tried, accepted, guesses, stale>>

\* The message is sent, or it is not and the key is deleted.
SendCode(g) ==
  /\ guest[g].at = "send"
  /\ \/ guest' = [guest EXCEPT ![g] = Away] /\ UNCHANGED otp
     \/ otp' = NoCode /\ Overtakes(g, Away)
  /\ UNCHANGED <<codes, pin, left, tried, accepted, guesses, stale>>

CodeExpires ==
  /\ otp.code # 0 /\ otp.expires
  /\ otp' = NoCode
  /\ Overtakes("nobody", Away)
  /\ UNCHANGED <<codes, pin, left, tried, accepted, guesses, stale>>

\* customerOTPVerify without a record (OTP_EXPIRED), customerLogin under the lock (PIN_LOCKED).
Refused(g) ==
  /\ guest[g].at = "idle"
  /\ otp.code = 0 \/ pin.locked
  /\ UNCHANGED guestVars

\* customerOTPVerify: GET the record.
VerifyCode(g) ==
  /\ guest[g].at = "idle"
  /\ otp.code # 0
  /\ guest' = [guest EXCEPT ![g] = Fresh("check", otp.code, otp.attempts)]
  /\ UNCHANGED <<otp, codes, pin, left, tried, accepted, guesses, stale>>

AttemptsLeftOneMore(g) == guest[g].attempts + 1 <= MaxAttempts + 1

AttemptsLeft(g) == guest[g].attempts + 1 <= MaxAttempts

\* The attempt is counted in the copy; beyond the limit the code is not compared.
CompareCode(g) ==
  /\ guest[g].at = "check"
  /\ IF AttemptsLeft(g)
       THEN /\ tried' = [tried EXCEPT ![guest[g].code] = @ + 1]
            /\ \E at \in {"ttl", "accept"} :
                 guest' = [guest EXCEPT ![g] = Moved(g, at, @.attempts + 1, TRUE)]
       ELSE guest' = [guest EXCEPT ![g] = Moved(g, "discard", @.attempts, TRUE)] /\ UNCHANGED tried
  /\ stale' = IF guest[g].stale \/ \E h \in Guests \ {g} : guest[h].at \in {"ttl", "write", "accept"}
              THEN stale \cup {guest[g].code} ELSE stale
  /\ UNCHANGED <<otp, codes, pin, left, accepted, guesses>>

\* A wrong code: TTL of the key, which is -2 when the key is gone.
ReadTTL(g) ==
  /\ guest[g].at = "ttl"
  /\ guest' = [guest EXCEPT ![g] = Moved(g, "write", @.attempts, otp.code # 0 /\ otp.expires)]
  /\ UNCHANGED <<otp, codes, pin, left, tried, accepted, guesses, stale>>

WriteBackForGood(g) ==
  [code |-> guest[g].code, attempts |-> guest[g].attempts, expires |-> FALSE]

\* SET with that TTL; with -2 the driver sends no expiry at all.
WrittenBack(g) ==
  [code |-> guest[g].code, attempts |-> guest[g].attempts, expires |-> guest[g].ttl]

WriteAttempt(g) ==
  /\ guest[g].at = "write"
  /\ otp' = WrittenBack(g)
  /\ stale' = IF guest[g].stale THEN stale \cup {guest[g].code} ELSE stale
  /\ Overtakes(g, Away)
  /\ UNCHANGED <<codes, pin, left, tried, accepted, guesses>>

AcceptKeepsCode(g) ==
  /\ guest[g].at = "accept"
  /\ accepted' = [accepted EXCEPT ![guest[g].code] = @ + 1]
  /\ guest' = [guest EXCEPT ![g] = Away]
  /\ UNCHANGED <<otp, codes, pin, left, tried, guesses, stale>>

\* The right code: DEL, and a session; the latter is issueTokens of Sessions.
AcceptCode(g) ==
  /\ guest[g].at = "accept"
  /\ otp' = NoCode
  /\ accepted' = [accepted EXCEPT ![guest[g].code] = @ + 1]
  /\ stale' = IF guest[g].stale THEN stale \cup {guest[g].code} ELSE stale
  /\ Overtakes(g, Away)
  /\ UNCHANGED <<codes, pin, left, tried, guesses>>

DiscardCode(g) ==
  /\ guest[g].at = "discard"
  /\ otp' = NoCode
  /\ stale' = IF guest[g].stale THEN stale \cup {guest[g].code} ELSE stale
  /\ Overtakes(g, Away)
  /\ UNCHANGED <<codes, pin, left, tried, accepted, guesses>>

-----------------------------------------------------------------------------
\* customerLogin: EXISTS the lock.
EnterPIN(g) ==
  /\ guest[g].at = "idle"
  /\ ~pin.locked
  /\ guest' = [guest EXCEPT ![g] = Fresh("pin", 0, 0)]
  /\ stale' = IF \E h \in Guests : guest[h].at \in {"pin", "window", "lock"} THEN stale \cup {"pin"} ELSE stale
  /\ UNCHANGED <<otp, codes, pin, left, tried, accepted, guesses>>

\* INCR; the first wrong PIN sets an expiry and the fifth the lock.
WrongPIN(g) ==
  /\ guest[g].at = "pin"
  /\ guesses < MaxGuesses
  /\ guesses' = guesses + 1
  /\ pin' = [count |-> pin.count + 1, expires |-> pin.count > 0 /\ pin.expires, locked |-> pin.locked]
  /\ guest' = [guest EXCEPT ![g] = Fresh("window", 0, pin.count + 1)]
  /\ UNCHANGED <<otp, codes, left, tried, accepted, stale>>

LockAtOneLater(n) == n > MaxAttempts

LockAt(n) == n >= MaxAttempts

StartWindow(g) ==
  /\ guest[g].at = "window"
  /\ pin' = IF guest[g].attempts = 1 /\ pin.count > 0
            THEN [count |-> pin.count, expires |-> TRUE, locked |-> pin.locked] ELSE pin
  /\ guest' = [guest EXCEPT ![g] = IF LockAt(@.attempts) THEN Fresh("lock", 0, @.attempts) ELSE Away]
  /\ UNCHANGED <<otp, codes, left, tried, accepted, guesses, stale>>

LockPIN(g) ==
  /\ guest[g].at = "lock"
  /\ pin' = [count |-> pin.count, expires |-> pin.expires, locked |-> TRUE]
  /\ guest' = [guest EXCEPT ![g] = Away]
  /\ UNCHANGED <<otp, codes, left, tried, accepted, guesses, stale>>

NoCount(p) == [count |-> 0, expires |-> TRUE, locked |-> p.locked]

RightPIN(g) ==
  /\ guest[g].at = "pin"
  /\ pin' = NoCount(pin) /\ guesses' = 0
  /\ guest' = [guest EXCEPT ![g] = Away]
  /\ UNCHANGED <<otp, codes, left, tried, accepted, stale>>

\* The count lasts 15 minutes from the first wrong PIN, the lock from the last.
CountExpires ==
  /\ pin.count > 0 /\ pin.expires
  /\ pin' = NoCount(pin) /\ guesses' = 0
  /\ UNCHANGED <<otp, codes, guest, left, tried, accepted, stale>>

LockExpires ==
  /\ pin.locked
  /\ pin.expires => pin.count = 0
  /\ pin' = [count |-> pin.count, expires |-> pin.expires, locked |-> FALSE]
  /\ UNCHANGED <<otp, codes, guest, left, tried, accepted, guesses, stale>>

\* The client leaves, and the rest of its handler is cancelled.
GuestLeaves(g) ==
  /\ guest[g].at # "idle"
  /\ left < MaxLeft /\ left' = left + 1
  /\ guest' = [guest EXCEPT ![g] = Away]
  /\ stale' = CASE guest[g].at \in {"ttl", "write", "accept"} -> stale \cup {guest[g].code}
                 [] guest[g].at \in {"window", "lock"} -> stale \cup {"pin"}
                 [] OTHER -> stale
  /\ UNCHANGED <<otp, codes, pin, tried, accepted, guesses>>

GuestNext ==
  \/ \E g \in Guests :
       \/ RequestCode(g) \/ SendCode(g) \/ VerifyCode(g) \/ CompareCode(g) \/ ReadTTL(g) \/ WriteAttempt(g)
       \/ AcceptCode(g) \/ DiscardCode(g)
       \/ EnterPIN(g) \/ WrongPIN(g) \/ StartWindow(g) \/ LockPIN(g) \/ RightPIN(g)
       \/ GuestLeaves(g) \/ Refused(g)
  \/ CodeExpires \/ CountExpires \/ LockExpires

GuestSpec == GuestInit /\ [][GuestNext]_guestVars

-----------------------------------------------------------------------------
(***************************************************************************)
(* A code is compared with at most MaxAttempts answers, unless two         *)
(* requests counted from the same record or one was cancelled before it    *)
(* wrote its count (customerOTPVerify).                                    *)
(***************************************************************************)
CodeTriesBounded == \A c \in DOMAIN tried : tried[c] > MaxAttempts => c \in stale

\* A code opens the card once, unless two requests held its record (customerOTPVerify).
CodeOpensOnce == \A c \in DOMAIN accepted : accepted[c] > 1 => c \in stale

(***************************************************************************)
(* The code in force is the one stored last and will expire, unless a      *)
(* handler put back a record that was replaced, deleted or had expired     *)
(* while it was held (customerOTPVerify against customerOTPRequest).       *)
(***************************************************************************)
CodeInForceIsFresh ==
  otp.code # 0 => (otp.code = codes /\ otp.expires) \/ otp.code \in stale

(***************************************************************************)
(* No more than MaxAttempts wrong PINs are compared before the lock, unless*)
(* requests had passed the lock together or one was cancelled before it    *)
(* set the expiry or the lock (customerLogin).                             *)
(***************************************************************************)
PinGuessesBounded == guesses > MaxAttempts => "pin" \in stale

(***************************************************************************)
(* A guest's code and PIN withstand guessing: answers are bounded, a code  *)
(* opens once and the last one sent is in force, except through requests   *)
(* that overlapped or were cancelled half way.                             *)
(***************************************************************************)
GuestLoginBounded ==
  /\ CodeTriesBounded
  /\ CodeOpensOnce
  /\ CodeInForceIsFresh
  /\ PinGuessesBounded
=============================================================================
