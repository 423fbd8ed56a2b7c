------------------------------ MODULE Campaigns ------------------------------
(***************************************************************************)
(* A marketing campaign that staff send by hand: sendCampaign reads the    *)
(* status, collects the audience, and then marks the campaign, mails the   *)
(* customers one by one and writes the final status. It is one request,    *)
(* not one transaction: the errors of its writes are ignored, and the      *)
(* client may leave at any point.                                          *)
(*                                                                         *)
(* The audience is fixed here: customers who join between two requests     *)
(* would only add recipients. campaign_conversions is left out.            *)
(***************************************************************************)
EXTENDS Integers, FiniteSets

CONSTANTS
  Audience,            \* customers of the campaign's segment
  Holdout,             \* those campaignHoldout leaves out
  Staff,               \* requests sending the campaign
  MaxCampaignFaults    \* bound on clients that leave and failed writes

ASSUME CampaignsAssumption == Holdout \subseteq Audience /\ MaxCampaignFaults \in Nat

VARIABLES
  campaign,        \* marketing_campaigns.status
  recipient,       \* campaign_recipients.status
  mailed,          \* messages each customer got
  clerk,           \* the requests at work
  campaignFaults,
  mishaps          \* history: what overlapped or was left half way

campVars == <<campaign, recipient, mailed, clerk, campaignFaults, mishaps>>

NoCustomer == "none"
Clerk(at, left, customer, result, sent, failed) ==
  [at |-> at, left |-> left, customer |-> customer, result |-> result, sent |-> sent, failed |-> failed]
Idle == Clerk("idle", {}, NoCustomer, "none", 0, 0)

CampInit ==
  /\ campaign = "draft"
  /\ recipient = [c \in Audience |-> "none"]
  /\ mailed = [c \in Audience |-> 0]
  /\ clerk = [q \in Staff |-> Idle]
  /\ campaignFaults = 0
  /\ mishaps = {}

-----------------------------------------------------------------------------
MaySendAnyStatus(status) == TRUE

MaySend(status) == status = "draft"

\* The status is read; the audience is collected.
SendCampaign(q) ==
  /\ clerk[q].at = "idle"
  /\ MaySend(campaign)
  /\ clerk' = [clerk EXCEPT ![q] = Clerk("mark", Audience, NoCustomer, "none", 0, 0)]
  /\ mishaps' = IF \E p \in Staff : clerk[p].at # "idle" THEN mishaps \cup {"overlap"} ELSE mishaps
  /\ UNCHANGED <<campaign, recipient, mailed, campaignFaults>>

SendRefused(q) ==
  /\ clerk[q].at = "idle"
  /\ ~MaySend(campaign)
  /\ UNCHANGED campVars

\* A statement or message succeeds, or it fails and is named in mishaps.
Succeeds == UNCHANGED <<campaignFaults, mishaps>>
Fails(what) ==
  /\ campaignFaults < MaxCampaignFaults /\ campaignFaults' = campaignFaults + 1
  /\ mishaps' = mishaps \cup {what}

\* q goes on with the customers left.
Sending(q, left) == Clerk("send", left, NoCustomer, "none", clerk[q].sent, clerk[q].failed)

\* The UPDATE to 'sending' does not ask for the status again.
MarkSending(q) ==
  /\ clerk[q].at = "mark"
  /\ \/ campaign' = "sending" /\ Succeeds
     \/ UNCHANGED campaign /\ Fails("unmarked")
  /\ clerk' = [clerk EXCEPT ![q] = Sending(q, @.left)]
  /\ UNCHANGED <<recipient, mailed>>

\* sendEmailWithTimeout: an error after the text was taken (a failed QUIT) counts as a failure.
MailCustomer(q) ==
  \E c \in clerk[q].left \ Holdout, result \in {"sent", "failed"}, n \in {0, 1} :
    /\ clerk[q].at = "send"
    /\ result = "sent" => n = 1
    /\ mailed' = [mailed EXCEPT ![c] = @ + n]
    /\ clerk' = [clerk EXCEPT ![q] = Clerk("record", @.left \ {c}, c, result,
                                           @.sent + (IF result = "sent" THEN 1 ELSE 0),
                                           @.failed + (IF result = "failed" THEN 1 ELSE 0))]
    /\ UNCHANGED <<campaign, recipient, campaignFaults, mishaps>>

RecordMailedAsSent(q) ==
  /\ clerk[q].at = "record"
  /\ recipient' = [recipient EXCEPT ![clerk[q].customer] = "sent"]
  /\ clerk' = [clerk EXCEPT ![q] = Sending(q, @.left)]
  /\ Succeeds
  /\ UNCHANGED <<campaign, mailed>>

\* The row of a mailed customer is written over, that of one held out is not.
RecordMailed(q) ==
  LET c == clerk[q].customer IN
  /\ clerk[q].at = "record"
  /\ \/ recipient' = [recipient EXCEPT ![c] = clerk[q].result] /\ Succeeds
     \/ UNCHANGED recipient /\ Fails("unrecorded")
  /\ clerk' = [clerk EXCEPT ![q] = Sending(q, @.left)]
  /\ UNCHANGED <<campaign, mailed>>

HoldOut(q) ==
  \E c \in clerk[q].left \cap Holdout :
    /\ clerk[q].at = "send"
    /\ recipient' = [recipient EXCEPT ![c] = IF @ = "none" THEN "held_out" ELSE @]
    /\ clerk' = [clerk EXCEPT ![q] = Sending(q, @.left \ {c})]
    /\ UNCHANGED <<campaign, mailed, campaignFaults, mishaps>>

FinalByFailuresOnly(q) == IF clerk[q].failed > 0 /\ clerk[q].sent = 0 THEN "failed" ELSE "sent"

FinalStatus(q) ==
  IF clerk[q].failed = 0 THEN "sent" ELSE IF clerk[q].sent > 0 THEN "partial" ELSE "failed"

FinishWithFailuresOnly(q) ==
  /\ clerk[q].at = "send" /\ clerk[q].left = {}
  /\ campaign' = IF clerk[q].failed = 0 THEN "sent" ELSE campaign
  /\ Succeeds
  /\ clerk' = [clerk EXCEPT ![q] = Idle]
  /\ UNCHANGED <<recipient, mailed>>

FinishCampaign(q) ==
  /\ clerk[q].at = "send" /\ clerk[q].left = {}
  /\ \/ campaign' = FinalStatus(q) /\ Succeeds
     \/ UNCHANGED campaign /\ Fails("unfinished")
  /\ clerk' = [clerk EXCEPT ![q] = Idle]
  /\ UNCHANGED <<recipient, mailed>>

\* The client leaves: its context is cancelled, and every later message and statement fails.
ClerkLeaves(q) ==
  /\ clerk[q].at # "idle"
  /\ Fails(IF clerk[q].at = "mark" THEN "unsent" ELSE "unfinished")
  /\ clerk' = [clerk EXCEPT ![q] = Idle]
  /\ UNCHANGED <<campaign, recipient, mailed>>

ClerkStep(q) ==
  \/ SendCampaign(q) \/ SendRefused(q) \/ MarkSending(q) \/ MailCustomer(q) \/ RecordMailed(q) \/ HoldOut(q)
  \/ FinishCampaign(q) \/ ClerkLeaves(q)

CampNext == \E q \in Staff : ClerkStep(q)

CampSpec == CampInit /\ [][CampNext]_campVars

-----------------------------------------------------------------------------
(***************************************************************************)
(* A campaign's customer gets one message, unless two requests sent it at  *)
(* once, or the mark that keeps later requests away was not written        *)
(* (sendCampaign).                                                         *)
(***************************************************************************)
CampaignMailedOnce ==
  \A c \in Audience : mailed[c] > 1 => mishaps \cap {"overlap", "unmarked"} # {}

(***************************************************************************)
(* The status of a finished campaign tells what became of its messages,    *)
(* unless two requests sent it, each counting its own, or a row was lost.  *)
(***************************************************************************)
CampaignStatusTrue ==
  LET got(status) == \E c \in Audience \ Holdout : recipient[c] = status IN
  mishaps \cap {"overlap", "unmarked", "unrecorded"} # {} \/
    /\ campaign = "sent" => ~got("failed")
    /\ campaign = "partial" => got("sent") /\ got("failed")
    /\ campaign = "failed" => ~got("sent")

(***************************************************************************)
(* A campaign that is being sent has a request sending it, unless the last *)
(* one left or could not write the final status: nothing else ends it, and *)
(* it can be sent no more.                                                 *)
(***************************************************************************)
SendingHasASender ==
  campaign = "sending" => "unfinished" \in mishaps \/ \E q \in Staff : clerk[q].at \in {"send", "record"}

\* A customer recorded as sent was mailed, and one held out never was, whoever overlapped.
RecipientsTrue ==
  \A c \in Audience :
    /\ recipient[c] = "sent" => mailed[c] > 0
    /\ recipient[c] = "held_out" => mailed[c] = 0

(***************************************************************************)
(* A campaign is mailed once, its status and its recipients' rows say what *)
(* happened, and it does not stay in sending without a sender, unless      *)
(* requests overlapped or a statement was lost.                            *)
(***************************************************************************)
CampaignAccounted ==
  /\ CampaignMailedOnce
  /\ CampaignStatusTrue
  /\ SendingHasASender
  /\ RecipientsTrue
=============================================================================
