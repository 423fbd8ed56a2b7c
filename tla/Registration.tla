----------------------------- MODULE Registration ----------------------------
(***************************************************************************)
(* Customers join: by the link of a device (customerRegister), perhaps     *)
(* with a friend's code, or entered by staff (createCustomer). A friend's  *)
(* link leaves clicks (publicReferral), and a registration with the code   *)
(* takes one of them, or is attributed directly.                           *)
(*                                                                         *)
(* One company, one referrer and one referral program. From the insert of  *)
(* the customer to the commit a registration holds locks on everything it  *)
(* decides by (the phone's index entry, the click and the program), and is *)
(* one step; that it does not see clicks made while it waits for a lock is *)
(* not told apart. Names, the PIN and the session issued afterwards are    *)
(* left out.                                                               *)
(***************************************************************************)
EXTENDS Integers, FiniteSets, Sequences

CONSTANTS
  Phones,
  Applicants,     \* requests
  CustomerLimit,  \* of the company's plan
  MaxCards,       \* bound on customers
  MaxClicks,      \* bound on clicks
  MaxScans        \* bound on registrations begun

ASSUME RegistrationAssumption ==
  {CustomerLimit, MaxCards, MaxClicks, MaxScans} \subseteq Nat /\ IsFiniteSet(Applicants)

VARIABLES
  cards,      \* customers, in the order of creation
  clicks,     \* referral_attributions of shared links: the customer each brought, 0 if none yet
  direct,     \* customers attributed without a click
  program,    \* is the referral program active?
  scans,      \* devices.scans_count
  applicant,  \* requests at work
  crowded     \* history: did two requests count customers at once?

regVars == <<cards, clicks, direct, program, scans, applicant, crowded>>

Applying(at, phone, coded, byStaff) == [at |-> at, phone |-> phone, coded |-> coded, byStaff |-> byStaff]
NoApplicant == Applying("idle", "none", FALSE, FALSE)
Card(phone, live, welcome, attributed) ==
  [phone |-> phone, live |-> live, welcome |-> welcome, attributed |-> attributed]
CardIds == 1 .. Len(cards)
LiveCards == {i \in CardIds : cards[i].live}
LiveCardsOf(phone) == {i \in LiveCards : cards[i].phone = phone}

RegInit ==
  /\ cards = <<>> /\ clicks = <<>> /\ direct = {}
  /\ program = TRUE
  /\ scans = 0
  /\ applicant = [q \in Applicants |-> NoApplicant]
  /\ crowded = FALSE

-----------------------------------------------------------------------------
\* publicReferral: a click under the referrer's code, while the program is active.
PublicReferral ==
  /\ program
  /\ Len(clicks) < MaxClicks
  /\ clicks' = Append(clicks, 0)
  /\ UNCHANGED <<cards, direct, program, scans, applicant, crowded>>

SaveReferralProgram ==
  /\ program' = ~program
  /\ UNCHANGED <<cards, clicks, direct, scans, applicant, crowded>>

\* The scan is counted in a statement of its own, whatever becomes of the registration.
ScanDevice(q, phone, coded) ==
  /\ applicant[q].at = "idle"
  /\ scans < MaxScans /\ scans' = scans + 1
  /\ applicant' = [applicant EXCEPT ![q] = Applying("lookup", phone, coded, FALSE)]
  /\ UNCHANGED <<cards, clicks, direct, program, crowded>>

RoomForOneMore == Cardinality(LiveCards) <= CustomerLimit

\* checkLimit: customers that are not deleted.
HasRoom == Cardinality(LiveCards) < CustomerLimit

Counting == {p \in Applicants : applicant[p].at = "insert"}

(***************************************************************************)
(* An existing customer gets a session and no second card; a new one is    *)
(* counted against the limit, over a connection of its own.                *)
(***************************************************************************)
LookUpCard(q) ==
  LET new == LiveCardsOf(applicant[q].phone) = {} /\ HasRoom IN
  /\ applicant[q].at = "lookup"
  /\ applicant' = [applicant EXCEPT ![q] = IF new THEN Applying("insert", @.phone, @.coded, @.byStaff) ELSE NoApplicant]
  /\ crowded' = (crowded \/ (new /\ Counting # {}))
  /\ UNCHANGED <<cards, clicks, direct, program, scans>>

\* createCustomer counts first and leaves the phone to the index.
CreateCustomer(q, phone) ==
  /\ applicant[q].at = "idle"
  /\ HasRoom
  /\ applicant' = [applicant EXCEPT ![q] = Applying("insert", phone, FALSE, TRUE)]
  /\ crowded' = (crowded \/ Counting # {})
  /\ UNCHANGED <<cards, clicks, direct, program, scans>>

PhoneAlwaysFree(phone) == TRUE

\* customers_company_phone_unique_active.
PhoneFree(phone) == LiveCardsOf(phone) = {}

FreeClicks == {i \in 1 .. Len(clicks) : clicks[i] = 0}

TakeLastClick(card) == clicks' = [clicks EXCEPT ![Len(clicks)] = card]

\* The newest click that brought nobody yet becomes 'registered'.
TakeClick(card) ==
  \E i \in FreeClicks : (\A j \in FreeClicks : j <= i) /\ clicks' = [clicks EXCEPT ![i] = card]

\* The customer, the welcome bonus, the attribution and the events; or an error and a rollback.
InsertCard(q) ==
  LET x == applicant[q]  card == Len(cards) + 1  attributed == x.coded /\ program IN
  /\ x.at = "insert"
  /\ \/ /\ PhoneFree(x.phone)
        /\ card <= MaxCards
        /\ cards' = Append(cards, Card(x.phone, TRUE, ~x.byStaff, attributed))
        /\ IF attributed /\ FreeClicks # {} THEN TakeClick(card) ELSE UNCHANGED clicks
        /\ direct' = IF attributed /\ FreeClicks = {} THEN direct \cup {card} ELSE direct
     \/ UNCHANGED <<cards, clicks, direct>>
  /\ applicant' = [applicant EXCEPT ![q] = NoApplicant]
  /\ UNCHANGED <<program, scans, crowded>>

DeleteCustomer(i) ==
  /\ i \in LiveCards
  /\ cards' = [cards EXCEPT ![i] = Card(@.phone, FALSE, @.welcome, @.attributed)]
  /\ UNCHANGED <<clicks, direct, program, scans, applicant, crowded>>

RegNext ==
  \/ PublicReferral \/ SaveReferralProgram
  \/ \E q \in Applicants :
       \/ \E phone \in Phones : CreateCustomer(q, phone) \/ \E coded \in BOOLEAN : ScanDevice(q, phone, coded)
       \/ LookUpCard(q) \/ InsertCard(q)
  \/ \E i \in 1 .. MaxCards : DeleteCustomer(i)

RegSpec == RegInit /\ [][RegNext]_regVars

-----------------------------------------------------------------------------
\* A phone has one live card, so one welcome bonus per card, however often its form is sent.
OneCardPerPhone == \A phone \in Phones : Cardinality(LiveCardsOf(phone)) <= 1

\* The plan's limit is exceeded only by registrations that counted before another inserted (checkLimit).
CardLimitHeld == Cardinality(LiveCards) > CustomerLimit => crowded

(***************************************************************************)
(* A customer who came with a code is attributed exactly once: by one      *)
(* click or directly, whichever registrations took the clicks before       *)
(* (customerRegister).                                                     *)
(***************************************************************************)
AttributedOnce ==
  \A i \in CardIds :
    LET byClick == {j \in 1 .. Len(clicks) : clicks[j] = i} IN
    Cardinality(byClick) + (IF i \in direct THEN 1 ELSE 0) = IF cards[i].attributed THEN 1 ELSE 0

(***************************************************************************)
(* Overlapping registrations of staff and guests leave one card per phone, *)
(* within the plan unless they overlapped, each attributed once.           *)
(***************************************************************************)
CardsInOrder ==
  /\ OneCardPerPhone
  /\ CardLimitHeld
  /\ AttributedOnce
=============================================================================
