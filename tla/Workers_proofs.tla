--------------------------- MODULE Workers_proofs ---------------------------
(***************************************************************************)
(* Proofs about the background workers: Campaigns, Automations,            *)
(* Subscriptions, ReportRuns and ReportSchedules for every audience, set   *)
(* of triggers, plans, schedules and runs, and any number of requests and  *)
(* workers. The modules share no state; each has an inductive invariant    *)
(* that describes the requests between two of their statements.            *)
(***************************************************************************)
EXTENDS Campaigns, Automations, Subscriptions, ReportRuns, ReportSchedules, FiniteSetTheorems, TLAPS

-----------------------------------------------------------------------------
\* Where a request is in sendCampaign, with the customers it has left and its own counts.
ClerkRec ==
  [at : {"idle", "mark", "send", "record"}, left : SUBSET Audience, customer : Audience \cup {NoCustomer},
   result : {"sent", "failed", "none"}, sent : Nat, failed : Nat]

\* The rows and counters hold values of the code.
CampTypeOK ==
  /\ campaign \in {"draft", "sending", "sent", "partial", "failed"}
  /\ recipient \in [Audience -> {"none", "sent", "failed", "held_out"}]
  /\ mailed \in [Audience -> Nat]
  /\ clerk \in [Staff -> ClerkRec]

\* Holds whoever overlaps: what a request is about to record has happened, and nobody held out is mailed.
RowsTrue ==
  /\ RecipientsTrue
  /\ \A c \in Holdout : mailed[c] = 0
  /\ \A c \in Audience : recipient[c] = "held_out" => c \in Holdout
  /\ \A q \in Staff : clerk[q].at = "record" =>
       /\ clerk[q].customer \in Audience \ Holdout /\ clerk[q].result \in {"sent", "failed"}
       /\ clerk[q].customer \notin clerk[q].left
       /\ clerk[q].result = "sent" => mailed[clerk[q].customer] > 0

\* No two requests overlapped and the mark of the campaign was written.
Clean == mishaps \cap {"overlap", "unmarked"} = {}
\* A request past the mark.
Sends(q) == clerk[q].at \in {"send", "record"}

\* While requests did not overlap and the mark was written, one request at most is at work.
Alone(q) ==
  /\ \A p \in Staff : clerk[p].at # "idle" => p = q
  /\ clerk[q].at = "mark" => campaign = "draft"
  /\ Sends(q) => campaign = "sending"
  /\ Sends(q) => \A c \in clerk[q].left : mailed[c] = 0

\* While the campaign is clean every customer is mailed once at most, and a draft has mailed nobody.
MailedOnce ==
  Clean =>
    /\ \A c \in Audience : mailed[c] <= 1
    /\ campaign = "draft" => \A c \in Audience : mailed[c] = 0
    /\ \A q \in Staff : clerk[q].at # "idle" => Alone(q)

\* Some customer outside the control group has a row with this status.
Got(status) == \E c \in Audience \ Holdout : recipient[c] = status

\* And if no row was lost either, the rows are those of the messages counted so far.
Counted(q) ==
  /\ \A c \in clerk[q].left : recipient[c] = "none"
  /\ clerk[q].at = "record" => recipient[clerk[q].customer] = "none"
  /\ clerk[q].sent > 0 <=> Got("sent") \/ (clerk[q].at = "record" /\ clerk[q].result = "sent")
  /\ clerk[q].failed > 0 <=> Got("failed") \/ (clerk[q].at = "record" /\ clerk[q].result = "failed")

(***************************************************************************)
(* While the campaign is clean and no row was lost, the counters of the    *)
(* request at work are those of the rows, so that the status it writes at  *)
(* the end is theirs.                                                      *)
(***************************************************************************)
StatusTrue ==
  Clean /\ "unrecorded" \notin mishaps =>
    /\ campaign = "draft" => \A c \in Audience : recipient[c] = "none"
    /\ \A q \in Staff : clerk[q].at = "mark" => clerk[q].sent = 0 /\ clerk[q].failed = 0
    /\ \A q \in Staff : Sends(q) => Counted(q)
    /\ campaign = "sent" => ~Got("failed")
    /\ campaign = "partial" => Got("sent") /\ Got("failed")
    /\ campaign = "failed" => ~Got("sent")

CampInv == CampTypeOK /\ RowsTrue /\ SendingHasASender /\ MailedOnce /\ StatusTrue

\* A draft has no rows.
LEMMA CampInvInit == CampInit => CampInv
<1> SUFFICES ASSUME CampInit PROVE CampInv
  OBVIOUS
<1> USE CampaignsAssumption DEF CampInit
<1>1. CampTypeOK
  BY DEF CampTypeOK, ClerkRec, Idle, Clerk
<1>2. \A q \in Staff : clerk[q].at = "idle"
  BY DEF Idle, Clerk
<1>3. RowsTrue
  BY <1>2 DEF RowsTrue, RecipientsTrue
<1>4. SendingHasASender
  BY DEF SendingHasASender
<1>5. MailedOnce
  BY <1>2 DEF MailedOnce
<1>6. StatusTrue
  BY <1>2 DEF StatusTrue, Sends
<1> QED BY <1>1, <1>3, <1>4, <1>5, <1>6 DEF CampInv

\* Every step keeps the types.
LEMMA CampTypeStep == CampTypeOK /\ RowsTrue /\ [CampNext]_campVars => CampTypeOK'
<1> SUFFICES ASSUME CampTypeOK, RowsTrue, [CampNext]_campVars PROVE CampTypeOK'
  OBVIOUS
<1> USE CampaignsAssumption DEF CampTypeOK
<1>0. Idle \in ClerkRec
  BY DEF Idle, Clerk, ClerkRec
<1>1. ASSUME NEW q \in Staff, NEW left \in SUBSET Audience PROVE Sending(q, left) \in ClerkRec
  BY <1>1 DEF Sending, Clerk, ClerkRec
<1>l. \A q \in Staff : clerk[q].left \in SUBSET Audience /\ clerk[q].sent \in Nat /\ clerk[q].failed \in Nat
  BY DEF ClerkRec
<1>2. ASSUME NEW q \in Staff, SendCampaign(q) PROVE CampTypeOK'
  <2>1. Clerk("mark", Audience, NoCustomer, "none", 0, 0) \in ClerkRec
    BY DEF Clerk, ClerkRec
  <2> QED BY <1>2, <2>1 DEF SendCampaign
<1>3. ASSUME NEW q \in Staff, MarkSending(q) PROVE CampTypeOK'
  BY <1>3, <1>1, <1>l DEF MarkSending
<1>4. ASSUME NEW q \in Staff, MailCustomer(q) PROVE CampTypeOK'
  <2>1. PICK c \in clerk[q].left \ Holdout, result \in {"sent", "failed"}, n \in {0, 1} :
          /\ mailed' = [mailed EXCEPT ![c] = @ + n] /\ UNCHANGED <<campaign, recipient>>
          /\ clerk' = [clerk EXCEPT ![q] = Clerk("record", clerk[q].left \ {c}, c, result,
                                           clerk[q].sent + (IF result = "sent" THEN 1 ELSE 0),
                                           clerk[q].failed + (IF result = "failed" THEN 1 ELSE 0))]
    BY ZenonT(30), <1>4 DEF MailCustomer
  <2>2. c \in Audience
    BY <1>l
  <2>3. Clerk("record", clerk[q].left \ {c}, c, result, clerk[q].sent + (IF result = "sent" THEN 1 ELSE 0),
              clerk[q].failed + (IF result = "failed" THEN 1 ELSE 0)) \in ClerkRec
    BY <1>l, <2>2 DEF Clerk, ClerkRec
  <2> QED BY <2>1, <2>2, <2>3
<1>5. ASSUME NEW q \in Staff, RecordMailed(q) PROVE CampTypeOK'
  BY <1>5, <1>1, <1>l DEF RecordMailed, RowsTrue
<1>6. ASSUME NEW q \in Staff, HoldOut(q) PROVE CampTypeOK'
  BY <1>6, <1>1, <1>l DEF HoldOut
<1>7. ASSUME NEW q \in Staff, FinishCampaign(q) PROVE CampTypeOK'
  BY <1>7, <1>0 DEF FinishCampaign, FinalStatus
<1>8. ASSUME NEW q \in Staff, ClerkLeaves(q) PROVE CampTypeOK'
  BY <1>8, <1>0 DEF ClerkLeaves
<1>9. CASE UNCHANGED campVars
  BY <1>9 DEF campVars
<1> QED BY <1>2, <1>3, <1>4, <1>5, <1>6, <1>7, <1>8, <1>9 DEF CampNext, ClerkStep, SendRefused

\* The request at work changes its own state only.
LEMMA OtherClerks ==
  ASSUME NEW q \in Staff, NEW next, CampTypeOK, clerk' = [clerk EXCEPT ![q] = next]
  PROVE  clerk'[q] = next /\ \A p \in Staff \ {q} : clerk'[p] = clerk[p]
BY DEF CampTypeOK

\* Rows stay true and a campaign in sending has a sender or a fault, whatever overlaps.
LEMMA RowsStep == CampInv /\ [CampNext]_campVars => RowsTrue' /\ SendingHasASender'
<1> SUFFICES ASSUME CampInv, [CampNext]_campVars PROVE RowsTrue' /\ SendingHasASender'
  OBVIOUS
<1> USE CampaignsAssumption DEF CampInv
<1>t. CampTypeOK /\ Idle.at = "idle" /\ \A q \in Staff : \A left : Sending(q, left).at = "send"
  BY DEF Idle, Clerk, Sending
<1>l. /\ \A q \in Staff : clerk[q].left \in SUBSET Audience /\ clerk[q].sent \in Nat /\ clerk[q].failed \in Nat
      /\ \A c \in Audience : mailed[c] \in Nat
  BY DEF CampTypeOK, ClerkRec
\* A request that goes where it has nothing to record.
<1>r. ASSUME NEW q \in Staff, NEW next, clerk' = [clerk EXCEPT ![q] = next], next.at # "record",
             UNCHANGED <<recipient, mailed>>
      PROVE  RowsTrue'
  <2>1. clerk'[q] = next /\ \A p \in Staff \ {q} : clerk'[p] = clerk[p]
    BY <1>r, OtherClerks
  <2> QED BY <1>r, <2>1 DEF RowsTrue, RecipientsTrue
<1>2. ASSUME NEW q \in Staff, SendCampaign(q) PROVE RowsTrue' /\ SendingHasASender'
  <2> DEFINE next == Clerk("mark", Audience, NoCustomer, "none", 0, 0)
  <2>1. next.at = "mark"
    BY DEF Clerk
  <2> HIDE DEF next
  <2>2. /\ clerk[q].at = "idle" /\ clerk' = [clerk EXCEPT ![q] = next] /\ UNCHANGED <<campaign, recipient, mailed>>
        /\ "unfinished" \in mishaps => "unfinished" \in mishaps'
    BY <1>2 DEF SendCampaign, next
  <2>3. clerk'[q] = next /\ \A p \in Staff \ {q} : clerk'[p] = clerk[p]
    BY <2>2, OtherClerks
  <2>4. SendingHasASender'
    BY <2>1, <2>2, <2>3 DEF SendingHasASender
  <2> QED BY <2>1, <2>2, <2>4, <1>r
<1>3. ASSUME NEW q \in Staff, MarkSending(q) PROVE RowsTrue' /\ SendingHasASender'
  <2>1. clerk' = [clerk EXCEPT ![q] = Sending(q, clerk[q].left)] /\ UNCHANGED <<recipient, mailed>>
    BY <1>3, <1>t DEF MarkSending, CampTypeOK
  <2>1a. clerk'[q] = Sending(q, clerk[q].left)
    BY <2>1, <1>t, OtherClerks
  <2>2. clerk'[q].at = "send"
    BY <2>1a DEF Sending, Clerk
  <2>3. SendingHasASender'
    BY <2>2 DEF SendingHasASender
  <2> QED BY <2>1, <2>3, <1>r, <1>t
<1>4. ASSUME NEW q \in Staff, MailCustomer(q) PROVE RowsTrue' /\ SendingHasASender'
  <2>1. PICK c \in clerk[q].left \ Holdout, result \in {"sent", "failed"}, n \in {0, 1} :
          /\ result = "sent" => n = 1
          /\ mailed' = [mailed EXCEPT ![c] = @ + n] /\ UNCHANGED <<campaign, recipient, mishaps>>
          /\ clerk' = [clerk EXCEPT ![q] = Clerk("record", clerk[q].left \ {c}, c, result,
                                           clerk[q].sent + (IF result = "sent" THEN 1 ELSE 0),
                                           clerk[q].failed + (IF result = "failed" THEN 1 ELSE 0))]
    BY ZenonT(30), <1>4 DEF MailCustomer
  <2>2. c \in Audience
    BY <1>l
  <2>3. /\ mailed'[c] = mailed[c] + n /\ \A e \in Audience \ {c} : mailed'[e] = mailed[e]
    BY <2>1, <2>2, <1>t DEF CampTypeOK
  <2>3a. \A e \in Audience : mailed[e] > 0 => mailed'[e] > 0
    BY <2>3, <1>l, <2>2
  <2>3b. result = "sent" => mailed'[c] > 0
    BY <2>1, <2>3, <1>l, <2>2
  <2>4. /\ clerk'[q].at = "record" /\ clerk'[q].customer = c /\ clerk'[q].result = result
        /\ clerk'[q].left = clerk[q].left \ {c}
        /\ \A p \in Staff \ {q} : clerk'[p] = clerk[p]
    <3> DEFINE next == Clerk("record", clerk[q].left \ {c}, c, result,
                             clerk[q].sent + (IF result = "sent" THEN 1 ELSE 0),
                             clerk[q].failed + (IF result = "failed" THEN 1 ELSE 0))
    <3>1. next.at = "record" /\ next.customer = c /\ next.result = result /\ next.left = clerk[q].left \ {c}
      BY DEF Clerk
    <3>2. clerk' = [clerk EXCEPT ![q] = next]
      BY <2>1
    <3> HIDE DEF next
    <3> QED BY <3>1, <3>2, <1>t, OtherClerks
  <2>5. SendingHasASender'
    BY <2>4 DEF SendingHasASender
  <2>6. RecipientsTrue' /\ \A e \in Holdout : mailed'[e] = 0
    BY <2>1, <2>2, <2>3, <2>3a DEF RowsTrue, RecipientsTrue
  <2>7. \A p \in Staff : clerk'[p].at = "record" =>
       /\ clerk'[p].customer \in Audience \ Holdout /\ clerk'[p].result \in {"sent", "failed"}
       /\ clerk'[p].customer \notin clerk'[p].left
       /\ clerk'[p].result = "sent" => mailed'[clerk'[p].customer] > 0
    <3>1. CASE clerk'[q].at = "record"
      BY <2>2, <2>3a, <2>3b, <2>4 DEF RowsTrue
    <3> QED BY <3>1, <2>4
  <2> QED BY <2>1, <2>5, <2>6, <2>7 DEF RowsTrue
<1>5. ASSUME NEW q \in Staff, RecordMailed(q) PROVE RowsTrue' /\ SendingHasASender'
  <2>1. /\ clerk[q].at = "record" /\ UNCHANGED <<campaign, mailed>>
        /\ clerk' = [clerk EXCEPT ![q] = Sending(q, clerk[q].left)]
        /\ recipient' = [recipient EXCEPT ![clerk[q].customer] = clerk[q].result] \/ UNCHANGED recipient
    BY <1>5, <1>t DEF RecordMailed, CampTypeOK
  <2>1a. clerk'[q] = Sending(q, clerk[q].left) /\ \A p \in Staff \ {q} : clerk'[p] = clerk[p]
    BY <2>1, <1>t, OtherClerks
  <2>2. clerk'[q].at = "send"
    BY <2>1a DEF Sending, Clerk
  <2>3. SendingHasASender'
    BY <2>2 DEF SendingHasASender
  <2>4. \A c \in Audience : recipient'[c] = recipient[c] \/ (c = clerk[q].customer /\ recipient'[c] = clerk[q].result)
    BY <2>1, <1>t DEF CampTypeOK
  <2>5. RecipientsTrue' /\ \A c \in Audience : recipient'[c] = "held_out" => c \in Holdout
    BY <2>1, <2>4 DEF RowsTrue, RecipientsTrue
  <2> QED BY <2>1, <2>1a, <2>2, <2>3, <2>5 DEF RowsTrue
<1>6. ASSUME NEW q \in Staff, HoldOut(q) PROVE RowsTrue' /\ SendingHasASender'
  <2>1. PICK c \in clerk[q].left \cap Holdout :
          /\ clerk[q].at = "send" /\ UNCHANGED <<campaign, mailed, mishaps>>
          /\ recipient' = [recipient EXCEPT ![c] = IF @ = "none" THEN "held_out" ELSE @]
          /\ clerk' = [clerk EXCEPT ![q] = Sending(q, clerk[q].left \ {c})]
    BY <1>6, <1>t DEF HoldOut, CampTypeOK
  <2>1a. clerk'[q] = Sending(q, clerk[q].left \ {c}) /\ \A p \in Staff \ {q} : clerk'[p] = clerk[p]
    BY <2>1, <1>t, OtherClerks
  <2>2. clerk'[q].at = "send"
    BY <2>1a DEF Sending, Clerk
  <2>3. SendingHasASender'
    BY <2>2 DEF SendingHasASender
  <2>4. \A e \in Audience : recipient'[e] = recipient[e] \/ (e \in Holdout /\ recipient'[e] = "held_out")
    BY <2>1, <1>t DEF CampTypeOK
  <2>5. RecipientsTrue' /\ \A e \in Audience : recipient'[e] = "held_out" => e \in Holdout
    BY <2>1, <2>4 DEF RowsTrue, RecipientsTrue
  <2> QED BY <2>1, <2>1a, <2>2, <2>3, <2>5 DEF RowsTrue
<1>7. ASSUME NEW q \in Staff, FinishCampaign(q) PROVE RowsTrue' /\ SendingHasASender'
  <2>1. clerk' = [clerk EXCEPT ![q] = Idle] /\ UNCHANGED <<recipient, mailed>>
    BY <1>7 DEF FinishCampaign
  <2>2. "unfinished" \in mishaps' \/ campaign' # "sending"
    BY <1>7 DEF FinishCampaign, FinalStatus, Fails
  <2>3. SendingHasASender'
    BY <2>2 DEF SendingHasASender
  <2> QED BY <2>1, <2>3, <1>r, <1>t
<1>8. ASSUME NEW q \in Staff, ClerkLeaves(q) PROVE RowsTrue' /\ SendingHasASender'
  <2>1. clerk' = [clerk EXCEPT ![q] = Idle] /\ UNCHANGED <<campaign, recipient, mailed>>
    BY <1>8 DEF ClerkLeaves
  <2>2. /\ clerk[q].at # "mark" => "unfinished" \in mishaps'
        /\ "unfinished" \in mishaps => "unfinished" \in mishaps'
    BY <1>8 DEF ClerkLeaves, Fails
  <2>3. \A p \in Staff \ {q} : clerk'[p] = clerk[p]
    BY <2>1, OtherClerks
  <2>4. SendingHasASender'
    BY <2>1, <2>2, <2>3 DEF SendingHasASender
  <2> QED BY <2>1, <2>4, <1>r, <1>t
<1>9. CASE UNCHANGED campVars
  BY <1>9 DEF campVars, RowsTrue, RecipientsTrue, SendingHasASender
<1> QED BY <1>2, <1>3, <1>4, <1>5, <1>6, <1>7, <1>8, <1>9 DEF CampNext, ClerkStep, SendRefused

\* A clean campaign mails once and its request's counters follow the rows.
LEMMA CountedStep == CampInv /\ [CampNext]_campVars => MailedOnce' /\ StatusTrue'
<1> SUFFICES ASSUME CampInv, [CampNext]_campVars PROVE MailedOnce' /\ StatusTrue'
  OBVIOUS
<1> USE CampaignsAssumption DEF CampInv
<1>t. CampTypeOK /\ Idle.at = "idle"
  BY DEF Idle, Clerk
<1>l. /\ \A q \in Staff : clerk[q].left \in SUBSET Audience /\ clerk[q].sent \in Nat /\ clerk[q].failed \in Nat
      /\ \A c \in Audience : mailed[c] \in Nat
  BY DEF CampTypeOK, ClerkRec
<1>g. ASSUME UNCHANGED recipient PROVE \A status : Got(status)' <=> Got(status)
  BY <1>g DEF Got
<1>2. ASSUME NEW q \in Staff, SendCampaign(q) PROVE MailedOnce' /\ StatusTrue'
  <2> DEFINE next == Clerk("mark", Audience, NoCustomer, "none", 0, 0)
  <2>1. next.at = "mark" /\ next.sent = 0 /\ next.failed = 0
    BY DEF Clerk
  <2> HIDE DEF next
  <2>2. /\ clerk' = [clerk EXCEPT ![q] = next] /\ UNCHANGED <<campaign, recipient, mailed>> /\ campaign = "draft"
        /\ Clean' => Clean /\ \A p \in Staff : clerk[p].at = "idle"
        /\ "unrecorded" \notin mishaps' => "unrecorded" \notin mishaps
    BY <1>2 DEF SendCampaign, MaySend, Clean, next
  <2>3. clerk'[q] = next /\ \A p \in Staff \ {q} : clerk'[p] = clerk[p]
    BY <2>2, OtherClerks
  <2>4. MailedOnce'
    BY <2>1, <2>2, <2>3 DEF MailedOnce, Alone, Sends
  <2>5. StatusTrue'
    BY <2>1, <2>2, <2>3, <1>g DEF StatusTrue, Sends
  <2> QED BY <2>4, <2>5
<1>3. ASSUME NEW q \in Staff, MarkSending(q) PROVE MailedOnce' /\ StatusTrue'
  <2>1. /\ clerk[q].at = "mark" /\ UNCHANGED <<recipient, mailed>>
        /\ clerk' = [clerk EXCEPT ![q] = Sending(q, clerk[q].left)]
        /\ Clean' => campaign' = "sending" /\ Clean
        /\ "unrecorded" \notin mishaps' => "unrecorded" \notin mishaps
    BY <1>3, <1>t DEF MarkSending, CampTypeOK, Succeeds, Fails, Clean
  <2>2. clerk'[q] = Sending(q, clerk[q].left) /\ \A p \in Staff \ {q} : clerk'[p] = clerk[p]
    BY <2>1, OtherClerks
  <2>3. clerk'[q].at = "send" /\ clerk'[q].left = clerk[q].left /\ clerk'[q].sent = clerk[q].sent
        /\ clerk'[q].failed = clerk[q].failed
    BY <2>2 DEF Sending, Clerk
  <2>4. Clean' => Alone(q) /\ campaign = "draft" /\ \A c \in Audience : mailed[c] = 0
    BY <2>1 DEF MailedOnce, Alone
  <2>5. MailedOnce'
    BY <2>1, <2>2, <2>3, <2>4, <1>l DEF MailedOnce, Alone, Sends
  <2>6. ASSUME Clean', "unrecorded" \notin mishaps' PROVE StatusTrue'
    <3>1. clerk[q].sent = 0 /\ clerk[q].failed = 0 /\ (\A c \in Audience : recipient[c] = "none")
      BY <2>1, <2>4, <2>6 DEF StatusTrue
    <3>2. ~Got("sent") /\ ~Got("failed")
      BY <3>1 DEF Got
    <3>3. Counted(q)'
      BY <2>1, <2>3, <3>1, <3>2, <1>g, <1>l DEF Counted
    <3> QED BY <2>1, <2>2, <2>3, <2>4, <2>6, <3>3 DEF StatusTrue, Sends, Alone
  <2>7. StatusTrue'
    BY <2>6 DEF StatusTrue
  <2> QED BY <2>5, <2>7
<1>4. ASSUME NEW q \in Staff, MailCustomer(q) PROVE MailedOnce' /\ StatusTrue'
  <2>1. PICK c \in clerk[q].left \ Holdout, result \in {"sent", "failed"}, n \in {0, 1} :
          /\ clerk[q].at = "send"
          /\ mailed' = [mailed EXCEPT ![c] = @ + n] /\ UNCHANGED <<campaign, recipient, mishaps>>
          /\ clerk' = [clerk EXCEPT ![q] = Clerk("record", clerk[q].left \ {c}, c, result,
                                           clerk[q].sent + (IF result = "sent" THEN 1 ELSE 0),
                                           clerk[q].failed + (IF result = "failed" THEN 1 ELSE 0))]
    BY <1>4 DEF MailCustomer
  <2>2. c \in Audience
    BY <1>l
  <2>3. /\ mailed'[c] = mailed[c] + n /\ \A e \in Audience \ {c} : mailed'[e] = mailed[e]
    BY <2>1, <2>2, <1>t DEF CampTypeOK
  <2>4. /\ clerk'[q].at = "record" /\ clerk'[q].customer = c /\ clerk'[q].result = result
        /\ clerk'[q].left = clerk[q].left \ {c}
        /\ clerk'[q].sent = clerk[q].sent + (IF result = "sent" THEN 1 ELSE 0)
        /\ clerk'[q].failed = clerk[q].failed + (IF result = "failed" THEN 1 ELSE 0)
        /\ \A p \in Staff \ {q} : clerk'[p] = clerk[p]
    <3> DEFINE sent == clerk[q].sent + (IF result = "sent" THEN 1 ELSE 0)
               failed == clerk[q].failed + (IF result = "failed" THEN 1 ELSE 0)
               next == Clerk("record", clerk[q].left \ {c}, c, result, sent, failed)
    <3> HIDE DEF sent, failed
    <3>1. /\ next.at = "record" /\ next.customer = c /\ next.result = result /\ next.left = clerk[q].left \ {c}
          /\ next.sent = sent /\ next.failed = failed
      BY DEF Clerk
    <3>2. clerk' = [clerk EXCEPT ![q] = next]
      BY <2>1 DEF sent, failed
    <3> HIDE DEF next
    <3>3. clerk'[q] = next /\ \A p \in Staff \ {q} : clerk'[p] = clerk[p]
      BY <3>2, <1>t, OtherClerks
    <3> QED BY <3>1, <3>3 DEF sent, failed
  <2>5. Clean' <=> Clean
    BY <2>1 DEF Clean
  <2>6. Clean => Alone(q) /\ campaign = "sending" /\ mailed[c] = 0 /\ \A e \in clerk[q].left : mailed[e] = 0
    BY <2>1, <2>2 DEF MailedOnce, Alone, Sends
  <2>7. MailedOnce'
    <3>1. Clean => \A e \in Audience : mailed'[e] <= 1
      BY <2>2, <2>3, <2>6, <1>l DEF MailedOnce
    <3>2. Clean => Alone(q)'
      BY ZenonT(30), <2>1, <2>3, <2>4, <2>6, <1>l DEF Alone, Sends
    <3>3. Clean => \A p \in Staff \ {q} : clerk'[p].at = "idle"
      BY <2>4, <2>6 DEF Alone
    <3> QED BY <2>1, <2>5, <2>6, <3>1, <3>2, <3>3 DEF MailedOnce
  <2>8. ASSUME Clean, "unrecorded" \notin mishaps PROVE StatusTrue'
    <3>1. Counted(q)
      BY <2>1, <2>8 DEF StatusTrue, Sends
    <3>2. Counted(q)'
      <4>1. (clerk'[q].sent > 0 <=> clerk[q].sent > 0 \/ result = "sent")
            /\ (clerk'[q].failed > 0 <=> clerk[q].failed > 0 \/ result = "failed")
        BY <2>4, <1>l
      <4>2. (clerk[q].sent > 0 <=> Got("sent")) /\ (clerk[q].failed > 0 <=> Got("failed"))
        BY <3>1, <2>1 DEF Counted
      <4>3. (Got("sent")' <=> Got("sent")) /\ (Got("failed")' <=> Got("failed"))
        BY <2>1, <1>g
      <4>4. (\A e \in clerk'[q].left : recipient'[e] = "none") /\ recipient'[clerk'[q].customer] = "none"
        BY ZenonT(30), <3>1, <2>1, <2>4 DEF Counted
      <4> QED BY <2>4, <4>1, <4>2, <4>3, <4>4 DEF Counted
    <3>3. \A p \in Staff \ {q} : clerk'[p].at = "idle"
      BY <2>4, <2>6, <2>8 DEF Alone
    <3> QED BY <2>1, <2>4, <2>6, <2>8, <3>2, <3>3 DEF StatusTrue, Sends
  <2>9. StatusTrue'
    BY <2>1, <2>5, <2>8 DEF StatusTrue
  <2> QED BY <2>7, <2>9
<1>5. ASSUME NEW q \in Staff, RecordMailed(q) PROVE MailedOnce' /\ StatusTrue'
  <2> DEFINE c == clerk[q].customer
  <2>1. /\ clerk[q].at = "record" /\ UNCHANGED <<campaign, mailed>>
        /\ clerk' = [clerk EXCEPT ![q] = Sending(q, clerk[q].left)]
        /\ Clean' => Clean
        /\ "unrecorded" \notin mishaps' =>
             "unrecorded" \notin mishaps /\ recipient' = [recipient EXCEPT ![c] = clerk[q].result]
    BY <1>5, <1>t DEF RecordMailed, CampTypeOK, Succeeds, Fails, Clean
  <2>2. clerk'[q] = Sending(q, clerk[q].left) /\ \A p \in Staff \ {q} : clerk'[p] = clerk[p]
    BY <2>1, <1>t, OtherClerks
  <2>3. clerk'[q].at = "send" /\ clerk'[q].left = clerk[q].left /\ clerk'[q].sent = clerk[q].sent
        /\ clerk'[q].failed = clerk[q].failed
    BY <2>2 DEF Sending, Clerk
  <2>4. Clean => Alone(q) /\ campaign = "sending"
    BY <2>1 DEF MailedOnce, Alone, Sends
  <2>5. MailedOnce'
    <3>1. Clean => Alone(q)'
      BY <2>1, <2>2, <2>3, <2>4 DEF Alone, Sends
    <3>2. Clean => \A p \in Staff \ {q} : clerk'[p].at = "idle"
      BY <2>2, <2>4 DEF Alone
    <3> QED BY <2>1, <2>4, <3>1, <3>2 DEF MailedOnce
  <2>6. ASSUME Clean', "unrecorded" \notin mishaps' PROVE StatusTrue'
    <3>1. Counted(q) /\ recipient' = [recipient EXCEPT ![c] = clerk[q].result]
      BY <2>1, <2>6 DEF StatusTrue, Sends
    <3>2. c \in Audience \ Holdout /\ clerk[q].result \in {"sent", "failed"} /\ c \notin clerk[q].left
      BY <2>1 DEF RowsTrue
    <3>3. recipient'[c] = clerk[q].result /\ \A e \in Audience \ {c} : recipient'[e] = recipient[e]
      BY <3>1, <3>2, <1>t DEF CampTypeOK
    <3>4. recipient[c] = "none" /\ \A e \in clerk[q].left : recipient[e] = "none"
      BY <2>1, <3>1 DEF Counted
    <3> HIDE DEF c
    <3>5. /\ Got("sent")' <=> Got("sent") \/ clerk[q].result = "sent"
      BY <3>2, <3>3, <3>4 DEF Got
    <3>6. /\ Got("failed")' <=> Got("failed") \/ clerk[q].result = "failed"
      BY <3>2, <3>3, <3>4 DEF Got
    <3>7. /\ clerk[q].sent > 0 <=> Got("sent") \/ clerk[q].result = "sent"
          /\ clerk[q].failed > 0 <=> Got("failed") \/ clerk[q].result = "failed"
      BY <2>1, <3>1 DEF Counted
    <3>8. \A e \in clerk'[q].left : recipient'[e] = "none"
      BY <2>3, <3>2, <3>3, <3>4, <1>l
    <3>9. Counted(q)'
      BY <2>3, <3>5, <3>6, <3>7, <3>8 DEF Counted
    <3>10. \A p \in Staff \ {q} : clerk'[p].at = "idle"
      BY <2>1, <2>2, <2>4, <2>6 DEF Alone
    <3> QED BY <2>1, <2>3, <2>4, <2>6, <3>9, <3>10 DEF StatusTrue, Sends
  <2>7. StatusTrue'
    BY <2>6 DEF StatusTrue
  <2> QED BY <2>5, <2>7
<1>6. ASSUME NEW q \in Staff, HoldOut(q) PROVE MailedOnce' /\ StatusTrue'
  <2>1. PICK c \in clerk[q].left \cap Holdout :
          /\ clerk[q].at = "send" /\ UNCHANGED <<campaign, mailed, mishaps>>
          /\ recipient' = [recipient EXCEPT ![c] = IF @ = "none" THEN "held_out" ELSE @]
          /\ clerk' = [clerk EXCEPT ![q] = Sending(q, clerk[q].left \ {c})]
    BY <1>6, <1>t DEF HoldOut, CampTypeOK
  <2>2. clerk'[q] = Sending(q, clerk[q].left \ {c}) /\ \A p \in Staff \ {q} : clerk'[p] = clerk[p]
    BY <2>1, <1>t, OtherClerks
  <2>3. clerk'[q].at = "send" /\ clerk'[q].left = clerk[q].left \ {c} /\ clerk'[q].sent = clerk[q].sent
        /\ clerk'[q].failed = clerk[q].failed
    BY <2>2 DEF Sending, Clerk
  <2>4. (Clean' <=> Clean) /\ (Clean => Alone(q) /\ campaign = "sending")
    BY <2>1 DEF MailedOnce, Alone, Sends, Clean
  <2>5. MailedOnce'
    <3>1. Clean => Alone(q)'
      BY <2>1, <2>2, <2>3, <2>4 DEF Alone, Sends
    <3>2. Clean => \A p \in Staff \ {q} : clerk'[p].at = "idle"
      BY <2>2, <2>4 DEF Alone
    <3> QED BY <2>1, <2>4, <3>1, <3>2 DEF MailedOnce
  <2>6. ASSUME Clean, "unrecorded" \notin mishaps PROVE StatusTrue'
    <3>1. \A e \in Audience \ {c} : recipient'[e] = recipient[e]
      BY <2>1, <1>t DEF CampTypeOK
    <3>2. (Got("sent")' <=> Got("sent")) /\ (Got("failed")' <=> Got("failed"))
      BY <2>1, <3>1 DEF Got
    <3>3. Counted(q)
      BY <2>1, <2>6 DEF StatusTrue, Sends
    <3>4. \A e \in clerk'[q].left : recipient'[e] = "none"
      BY <2>3, <3>1, <3>3, <1>l DEF Counted
    <3>5. Counted(q)'
      BY <2>1, <2>3, <3>2, <3>3, <3>4 DEF Counted
    <3>6. \A p \in Staff \ {q} : clerk'[p].at = "idle"
      BY <2>2, <2>4, <2>6 DEF Alone
    <3> QED BY <2>1, <2>3, <2>4, <2>6, <3>5, <3>6 DEF StatusTrue, Sends
  <2>7. StatusTrue'
    BY <2>1, <2>4, <2>6 DEF StatusTrue
  <2> QED BY <2>5, <2>7
<1>7. ASSUME NEW q \in Staff, FinishCampaign(q) PROVE MailedOnce' /\ StatusTrue'
  <2>1. /\ clerk[q].at = "send" /\ clerk' = [clerk EXCEPT ![q] = Idle] /\ UNCHANGED <<recipient, mailed>>
        /\ campaign' = FinalStatus(q) \/ campaign' = campaign
        /\ Clean' => Clean
        /\ "unrecorded" \notin mishaps' => "unrecorded" \notin mishaps
    BY <1>7 DEF FinishCampaign, Succeeds, Fails, Clean
  <2>2. clerk'[q] = Idle /\ \A p \in Staff \ {q} : clerk'[p] = clerk[p]
    BY <2>1, <1>t, OtherClerks
  <2>3. Clean => Alone(q) /\ campaign = "sending"
    BY <2>1 DEF MailedOnce, Alone, Sends
  <2>4. Clean => \A p \in Staff : clerk'[p].at = "idle"
    BY <2>2, <2>3, <1>t DEF Alone
  <2>5. FinalStatus(q) # "draft"
    BY DEF FinalStatus
  <2>6. MailedOnce'
    BY <2>1, <2>3, <2>4, <2>5 DEF MailedOnce
  <2>7. ASSUME Clean', "unrecorded" \notin mishaps' PROVE StatusTrue'
    <3>1. (clerk[q].sent > 0 <=> Got("sent")) /\ (clerk[q].failed > 0 <=> Got("failed"))
      BY <2>1, <2>7 DEF StatusTrue, Sends, Counted
    <3>2. (Got("sent")' <=> Got("sent")) /\ (Got("failed")' <=> Got("failed"))
      BY <2>1, <1>g
    <3>3. /\ FinalStatus(q) = "sent" => clerk[q].failed = 0
          /\ FinalStatus(q) = "partial" => clerk[q].sent > 0 /\ clerk[q].failed > 0
          /\ FinalStatus(q) = "failed" => ~(clerk[q].sent > 0)
      BY <1>l DEF FinalStatus
    <3>4. /\ campaign' = "sent" => ~Got("failed")'
          /\ campaign' = "partial" => Got("sent")' /\ Got("failed")'
          /\ campaign' = "failed" => ~Got("sent")'
      BY <2>1, <2>3, <2>7, <3>1, <3>2, <3>3, <1>l
    <3> QED BY <2>1, <2>3, <2>4, <2>5, <2>7, <3>4 DEF StatusTrue, Sends
  <2>8. StatusTrue'
    BY <2>7 DEF StatusTrue
  <2> QED BY <2>6, <2>8
<1>8. ASSUME NEW q \in Staff, ClerkLeaves(q) PROVE MailedOnce' /\ StatusTrue'
  <2>1. /\ clerk[q].at # "idle" /\ clerk' = [clerk EXCEPT ![q] = Idle] /\ UNCHANGED <<campaign, recipient, mailed>>
        /\ Clean' => Clean
        /\ "unrecorded" \notin mishaps' => "unrecorded" \notin mishaps
    BY <1>8 DEF ClerkLeaves, Fails, Clean
  <2>2. clerk'[q] = Idle /\ \A p \in Staff \ {q} : clerk'[p] = clerk[p]
    BY <2>1, <1>t, OtherClerks
  <2>3. Clean => Alone(q)
    BY <2>1 DEF MailedOnce
  <2>4. Clean => \A p \in Staff : clerk'[p].at = "idle"
    BY <2>2, <2>3, <1>t DEF Alone
  <2>5. MailedOnce'
    BY <2>1, <2>4 DEF MailedOnce
  <2>6. \A status : Got(status)' <=> Got(status)
    BY <2>1, <1>g
  <2>7. StatusTrue'
    BY <2>1, <2>4, <2>6 DEF StatusTrue, Sends
  <2> QED BY <2>5, <2>7
<1>9. CASE UNCHANGED campVars
  <2>1. UNCHANGED <<campaign, recipient, mailed, clerk, mishaps>>
    BY <1>9 DEF campVars
  <2>2. MailedOnce'
    BY <2>1 DEF MailedOnce, Clean, Alone, Sends
  <2>3. StatusTrue'
    BY <2>1, <1>g DEF StatusTrue, Clean, Sends, Counted
  <2> QED BY <2>2, <2>3
<1> QED BY <1>2, <1>3, <1>4, <1>5, <1>6, <1>7, <1>8, <1>9 DEF CampNext, ClerkStep, SendRefused

(***************************************************************************)
(* sendCampaign, for any audience, holdout and number of requests: a       *)
(* customer is mailed once unless requests overlapped or the first mark    *)
(* failed, the final status is that of the rows unless one was lost too, a *)
(* campaign in sending has its request unless that was lost, and no row    *)
(* claims a message that was not sent (campaigns.go).                      *)
(***************************************************************************)
THEOREM CampaignIsAccountedFor == CampSpec => []CampaignAccounted
<1>1. CampInv => CampaignAccounted
  <2> SUFFICES ASSUME CampInv PROVE CampaignAccounted
    OBVIOUS
  <2>1. CampaignMailedOnce
    <3>1. \A c \in Audience : mailed[c] \in Nat
      BY DEF CampInv, CampTypeOK
    <3>2. ASSUME NEW c \in Audience, mailed[c] > 1 PROVE ~Clean
      BY <3>1, <3>2 DEF CampInv, MailedOnce
    <3> QED BY <3>2 DEF CampaignMailedOnce, Clean
  <2>2. CampaignStatusTrue
    BY DEF CampInv, StatusTrue, CampaignStatusTrue, Clean, Got
  <2> QED BY <2>1, <2>2 DEF CampInv, RowsTrue, CampaignAccounted
<1>2. CampInv /\ [CampNext]_campVars => CampInv'
  BY CampTypeStep, RowsStep, CountedStep DEF CampInv
<1> QED BY <1>1, <1>2, CampInvInit, PTL DEF CampSpec

-----------------------------------------------------------------------------
\* Where a worker of the automations is, with the batch it collected and the message it has in hand.
BusyRec ==
  [at : {"idle", "claim", "send", "record", "event"}, batch : SUBSET Triggers, trigger : Triggers \cup {NoTrigger},
   result : {"none", "sent", "failed", "skipped"}, id : Nat]
\* The row of a trigger in automation_runs.
OutcomeRec ==
  [status : {"none", "pending", "sent", "failed", "skipped"}, attempts : Nat, id : Nat,
   delivered : BOOLEAN, event : BOOLEAN]

\* The rows, the workers and the provider's reports hold values of the code.
AutoTypeOK ==
  /\ current \subseteq Triggers
  /\ outcome \in [Triggers -> OutcomeRec]
  /\ automaton \in [Automata -> BusyRec]
  /\ received \in [Triggers -> Nat] /\ accepted \in Nat
  /\ reports \in [delivered : SUBSET (1 .. accepted), early : SUBSET Nat]

\* A worker has a trigger exactly while it sends, records or reports a message.
At(w, k) == automaton[w].trigger = k
WorkersBusy ==
  /\ \A w \in Automata : automaton[w].at \in {"send", "record", "event"} <=> automaton[w].trigger \in Triggers
  /\ \A w \in Automata : automaton[w].at = "record" => automaton[w].result \in {"sent", "failed", "skipped"}

(***************************************************************************)
(* A trigger whose attempts were neither taken over nor lost nor failed    *)
(* after sending: one worker at most has it, and its status tells what     *)
(* the customer received.                                                  *)
(***************************************************************************)
Held(w, k) ==
  /\ automaton[w].at = "send" => outcome[k].status = "pending" /\ received[k] = 0
  /\ automaton[w].at = "record" =>
       outcome[k].status = "pending" /\ received[k] = IF automaton[w].result = "sent" THEN 1 ELSE 0
  /\ automaton[w].at = "event" => outcome[k].status = "sent"

TriggerInv(k) ==
  /\ received[k] <= 1
  /\ outcome[k].status \in {"none", "failed"} => received[k] = 0
  /\ outcome[k].status = "none" => outcome[k].attempts = 0
  /\ outcome[k].attempts <= MaxMessageAttempts
  /\ \A v, w \in Automata : At(v, k) /\ At(w, k) => v = w
  /\ \A w \in Automata : At(w, k) => Held(w, k)

\* Every trigger no fault concerns is in order.
TriggersCounted == \A k \in Triggers : k \notin doubtful => TriggerInv(k)

\* An id about to be recorded is no run's and no other worker's, and what was reported of it came early.
Records(w) == automaton[w].at = "record" /\ automaton[w].id # 0
IdsApart ==
  /\ \A k \in Triggers : outcome[k].id <= accepted
  /\ \A w \in Automata : automaton[w].id <= accepted
  /\ \A w \in Automata : Records(w) =>
       /\ \A k \in Triggers : outcome[k].id # automaton[w].id
       /\ automaton[w].id \in reports.delivered => automaton[w].id \in reports.early
  /\ \A v, w \in Automata : Records(v) /\ Records(w) /\ automaton[v].id = automaton[w].id => v = w

AutoInv == AutoTypeOK /\ WorkersBusy /\ TriggersCounted /\ IdsApart /\ DeliveryReportCounts

\* No trigger has a row and nobody works.
LEMMA AutoInvInit == AutoInit => AutoInv
<1> SUFFICES ASSUME AutoInit PROVE AutoInv
  OBVIOUS
<1> USE AutomationsAssumption DEF AutoInit
<1>1. AutoTypeOK
  BY DEF AutoTypeOK, BusyRec, OutcomeRec, Asleep, Busy, NoOutcome, Outcome
<1>2. /\ \A w \in Automata : automaton[w].at = "idle" /\ automaton[w].trigger = "none" /\ automaton[w].id = 0
      /\ \A k \in Triggers : outcome[k].status = "none" /\ outcome[k].attempts = 0 /\ outcome[k].id = 0
  BY DEF Asleep, Busy, NoOutcome, Outcome, NoTrigger
<1>3. WorkersBusy
  BY <1>2 DEF WorkersBusy
<1>4. TriggersCounted
  BY <1>2 DEF TriggersCounted, TriggerInv, At
<1>5. IdsApart
  BY <1>2 DEF IdsApart, Records
<1>6. DeliveryReportCounts
  BY <1>2 DEF DeliveryReportCounts
<1> QED BY <1>1, <1>3, <1>4, <1>5, <1>6 DEF AutoInv

\* A worker's step changes that worker only, a run's update that run only.
LEMMA OneWorker ==
  ASSUME NEW w \in Automata, NEW next, AutoTypeOK, automaton' = [automaton EXCEPT ![w] = next]
  PROVE  automaton'[w] = next /\ \A v \in Automata \ {w} : automaton'[v] = automaton[v]
BY DEF AutoTypeOK

\* A row's update leaves the other rows as they are.
LEMMA OneOutcome ==
  ASSUME NEW k \in Triggers, NEW next, AutoTypeOK, outcome' = [outcome EXCEPT ![k] = next]
  PROVE  outcome'[k] = next /\ \A j \in Triggers \ {k} : outcome'[j] = outcome[j]
BY DEF AutoTypeOK

\* A worker that goes on has no message in hand.
LEMMA ContinueFields ==
  ASSUME NEW rest \in SUBSET Triggers
  PROVE  /\ Continue(rest) \in BusyRec /\ Continue(rest).at \in {"idle", "claim"}
         /\ Continue(rest).trigger = NoTrigger /\ Continue(rest).id = 0
<1>1. CASE rest = {}
  BY <1>1 DEF Continue, Asleep, Busy, BusyRec
<1>2. CASE rest # {}
  BY <1>2 DEF Continue, Busy, BusyRec
<1> QED BY <1>1, <1>2

\* A worker that goes on without a trigger has nothing to keep.
LEMMA WorkerGoesOn ==
  ASSUME AutoInv, NEW w \in Automata, NEW rest \in SUBSET Triggers,
         automaton' = [automaton EXCEPT ![w] = Continue(rest)],
         UNCHANGED <<current, received, accepted, reports>>,
         UNCHANGED outcome, \A k \in Triggers \ doubtful' : k \notin doubtful
  PROVE  AutoInv'
<1> USE DEF AutoInv
<1>1. automaton'[w] = Continue(rest) /\ \A v \in Automata \ {w} : automaton'[v] = automaton[v]
  BY OneWorker
<1>2. automaton'[w] \in BusyRec /\ automaton'[w].at \in {"idle", "claim"} /\ automaton'[w].trigger = NoTrigger /\ automaton'[w].id = 0
  BY <1>1, ContinueFields
<1>3. NoTrigger \notin Triggers
  BY AutomationsAssumption DEF NoTrigger
<1>4. AutoTypeOK'
  BY <1>1, <1>2 DEF AutoTypeOK
<1>5. WorkersBusy'
  BY <1>1, <1>2, <1>3 DEF WorkersBusy
<1>6. TriggersCounted'
  BY <1>1, <1>2, <1>3 DEF TriggersCounted, TriggerInv, Held, At
<1>7. IdsApart'
  BY <1>1, <1>2 DEF IdsApart, Records, AutoTypeOK
<1>8. DeliveryReportCounts'
  BY DEF DeliveryReportCounts
<1> QED BY <1>4, <1>5, <1>6, <1>7, <1>8

(***************************************************************************)
(* The claim: a pending, failed or unclaimed row with an attempt left is   *)
(* taken, and one taken from a worker still at it is doubtful from then    *)
(* on.                                                                     *)
(***************************************************************************)
LEMMA ClaimStep ==
  ASSUME AutoInv, NEW w \in Automata, ClaimTrigger(w) PROVE AutoInv'
<1> USE DEF AutoInv
<1>n. NoTrigger \notin Triggers /\ MaxMessageAttempts \in Nat \ {0}
  BY AutomationsAssumption DEF NoTrigger
<1>1. PICK k \in automaton[w].batch :
        /\ automaton[w].at = "claim" /\ MayClaim(outcome[k])
        /\ outcome' = [outcome EXCEPT ![k] = Outcome("pending", @.attempts + 1, @.id, @.delivered, @.event)]
        /\ automaton' = [automaton EXCEPT ![w] = Busy("send", @.batch \ {k}, k, "none", 0)]
        /\ doubtful' = IF outcome[k].status = "pending" THEN doubtful \cup {k} ELSE doubtful
        /\ UNCHANGED <<current, received, accepted, reports>>
  BY DEF ClaimTrigger
<1>2. k \in Triggers /\ automaton[w].batch \in SUBSET Triggers /\ outcome[k] \in OutcomeRec
  BY DEF AutoTypeOK, BusyRec
<1> DEFINE now == Outcome("pending", outcome[k].attempts + 1, outcome[k].id, outcome[k].delivered, outcome[k].event)
           busy == Busy("send", automaton[w].batch \ {k}, k, "none", 0)
<1>3. now \in OutcomeRec /\ busy \in BusyRec
  BY <1>2 DEF OutcomeRec, BusyRec, Outcome, Busy
<1>4. /\ now.status = "pending" /\ now.attempts = outcome[k].attempts + 1 /\ now.id = outcome[k].id
      /\ now.delivered = outcome[k].delivered
      /\ busy.at = "send" /\ busy.trigger = k /\ busy.id = 0
  BY DEF Outcome, Busy
<1> HIDE DEF now, busy
<1>5. outcome' = [outcome EXCEPT ![k] = now] /\ automaton' = [automaton EXCEPT ![w] = busy]
  BY <1>1, <1>2 DEF AutoTypeOK, now, busy
<1>6. outcome'[k] = now /\ \A j \in Triggers \ {k} : outcome'[j] = outcome[j]
  BY <1>2, <1>5, OneOutcome
<1>7. automaton'[w] = busy /\ \A v \in Automata \ {w} : automaton'[v] = automaton[v]
  BY <1>5, OneWorker
<1>8. AutoTypeOK'
  BY ZenonT(30), <1>1, <1>3, <1>5 DEF AutoTypeOK
<1>9. WorkersBusy'
  BY <1>2, <1>4, <1>7 DEF WorkersBusy
<1>10. automaton[w].trigger \notin Triggers
  BY <1>1 DEF WorkersBusy
<1>11. TriggersCounted'
  <2> SUFFICES ASSUME NEW j \in Triggers, j \notin doubtful' PROVE TriggerInv(j)'
    BY DEF TriggersCounted
  <2>1. TriggerInv(j)
    BY <1>1 DEF TriggersCounted
  <2>2. CASE j # k
    <3>1. \A v \in Automata : (At(v, j)' <=> At(v, j)) /\ (At(v, j) => automaton'[v] = automaton[v])
      BY <1>4, <1>7, <1>10, <2>2 DEF At
    <3>2. received' = received /\ outcome'[j] = outcome[j]
      BY <1>1, <1>6, <2>2
    <3> QED BY <2>1, <3>1, <3>2 DEF TriggerInv, Held
  <2>3. CASE j = k
    <3>1. outcome[k].status # "pending" /\ MayClaim(outcome[k])
      BY <1>1, <2>3
    <3>2. outcome[k].status = "none" \/ (outcome[k].status = "failed" /\ outcome[k].attempts < MaxMessageAttempts)
      BY <3>1 DEF MayClaim
    <3>3. outcome[k].attempts \in Nat /\ received[k] = 0 /\ received[k] \in Nat
      BY <1>2, <2>1, <2>3, <3>2 DEF TriggerInv, AutoTypeOK, OutcomeRec
    <3>4. outcome[k].attempts + 1 <= MaxMessageAttempts
      BY <1>n, <2>1, <2>3, <3>2, <3>3 DEF TriggerInv
    <3>5. \A v \in Automata : ~At(v, k)
      <4> SUFFICES ASSUME NEW v \in Automata, At(v, k) PROVE FALSE
        OBVIOUS
      <4>1. automaton[v].at \in {"send", "record", "event"} /\ Held(v, k)
        BY <1>2, <2>1, <2>3 DEF WorkersBusy, At, TriggerInv
      <4> QED BY <4>1, <3>2 DEF Held
    <3>6. \A v \in Automata : At(v, k)' => v = w
      BY <1>7, <3>5 DEF At
    <3>7. Held(w, k)'
      BY <1>1, <1>4, <1>6, <1>7, <3>3 DEF Held
    <3>8. received'[k] = 0 /\ outcome'[k].status = "pending" /\ outcome'[k].attempts <= MaxMessageAttempts
      BY <1>1, <1>4, <1>6, <3>3, <3>4
    <3> QED BY <2>3, <3>6, <3>7, <3>8 DEF TriggerInv
  <2> QED BY <2>2, <2>3
<1>12. \A j \in Triggers : outcome'[j].id = outcome[j].id /\ outcome'[j].delivered = outcome[j].delivered
  BY <1>4, <1>6
<1>13. IdsApart'
  <2>1. accepted \in Nat /\ automaton'[w].id = 0 /\ automaton'[w].at = "send"
    BY <1>4, <1>7 DEF AutoTypeOK
  <2>2. \A v \in Automata : Records(v)' => Records(v) /\ automaton'[v] = automaton[v]
    BY <1>7, <2>1 DEF Records
  <2>3. \A v \in Automata : automaton'[v].id <= accepted
    BY <1>7, <2>1 DEF IdsApart
  <2>4. UNCHANGED <<accepted, reports>>
    BY <1>1
  <2>5. \A j \in Triggers : outcome'[j].id <= accepted'
    BY <1>12, <2>4 DEF IdsApart
  <2> QED BY <1>12, <2>2, <2>3, <2>4, <2>5 DEF IdsApart
<1>14. DeliveryReportCounts'
  BY <1>1, <1>12 DEF DeliveryReportCounts
<1> QED BY <1>8, <1>9, <1>11, <1>13, <1>14

\* The message is handed to the provider, which names it with an id nobody has.
LEMMA SendStep ==
  ASSUME AutoInv, NEW w \in Automata, SendMessage(w) PROVE AutoInv'
<1> USE DEF AutoInv
<1>n. NoTrigger \notin Triggers
  BY AutomationsAssumption DEF NoTrigger
<1>k. automaton[w].at = "send"
  BY DEF SendMessage
<1>0. PICK k \in Triggers : k = automaton[w].trigger
  BY <1>k DEF WorkersBusy
<1>1. PICK result \in {"sent", "failed", "skipped"}, n \in {0, 1} :
        /\ automaton[w].at = "send"
        /\ result = "sent" => n = 1
        /\ result = "skipped" => n = 0
        /\ accepted' = accepted + n
        /\ received' = [received EXCEPT ![k] = @ + n]
        /\ automaton' = [automaton EXCEPT ![w] =
             Busy("record", @.batch, k, result, IF result = "sent" THEN accepted + 1 ELSE 0)]
        /\ doubtful' = IF result = "failed" /\ n = 1 THEN doubtful \cup {k} ELSE doubtful
        /\ UNCHANGED <<current, outcome, reports>>
  BY <1>0 DEF SendMessage
<1>2. automaton[w].batch \in SUBSET Triggers /\ accepted \in Nat
  BY <1>1 DEF WorkersBusy, AutoTypeOK, BusyRec
<1> DEFINE id == IF result = "sent" THEN accepted + 1 ELSE 0
           busy == Busy("record", automaton[w].batch, k, result, id)
<1>3. /\ id \in Nat /\ id <= accepted' /\ accepted' \in Nat /\ accepted <= accepted'
      /\ id # 0 => id > accepted
  BY <1>1, <1>2
<1> HIDE DEF id
<1>4. /\ busy \in BusyRec /\ busy.at = "record" /\ busy.trigger = k /\ busy.result = result /\ busy.id = id
  BY <1>2, <1>3 DEF BusyRec, Busy
<1>5. automaton' = [automaton EXCEPT ![w] = busy]
  BY <1>1 DEF AutoTypeOK, busy, id
<1> HIDE DEF busy
<1>6. automaton'[w] = busy /\ \A v \in Automata \ {w} : automaton'[v] = automaton[v]
  BY <1>5, OneWorker
<1>7. received'[k] = received[k] + n /\ \A j \in Triggers \ {k} : received'[j] = received[j]
  BY <1>1, <1>2 DEF AutoTypeOK
<1>8. AutoTypeOK'
  <2>1. received' \in [Triggers -> Nat]
    BY <1>1, <1>2 DEF AutoTypeOK
  <2>2. 1 .. accepted \subseteq 1 .. accepted'
    BY <1>2, <1>3
  <2>3. reports' \in [delivered : SUBSET (1 .. accepted'), early : SUBSET Nat]
    BY <1>1, <2>2 DEF AutoTypeOK
  <2> QED BY <1>1, <1>3, <1>4, <1>5, <2>1, <2>3 DEF AutoTypeOK
<1>9. WorkersBusy'
  BY <1>2, <1>4, <1>6 DEF WorkersBusy
<1>10. TriggersCounted'
  <2> SUFFICES ASSUME NEW j \in Triggers, j \notin doubtful' PROVE TriggerInv(j)'
    BY DEF TriggersCounted
  <2>1. TriggerInv(j)
    BY <1>1 DEF TriggersCounted
  <2>0. \A v \in Automata : At(v, j)' <=> At(v, j)
    BY <1>0, <1>4, <1>6 DEF At
  <2>2. CASE j # k
    <3>1. \A v \in Automata : At(v, j) => automaton'[v] = automaton[v]
      BY <1>0, <1>6, <2>2 DEF At
    <3> QED BY <1>1, <1>7, <2>0, <2>1, <2>2, <3>1 DEF TriggerInv, Held
  <2>3. CASE j = k
    <3>1. At(w, k) /\ \A v \in Automata : At(v, k) => v = w
      BY <1>0, <2>1, <2>3 DEF TriggerInv, At
    <3>2. outcome[k].status = "pending" /\ received[k] = 0
      BY <1>1, <2>1, <2>3, <3>1 DEF TriggerInv, Held
    <3>3. received'[k] = IF result = "sent" THEN 1 ELSE 0
      BY <1>1, <1>7, <2>3, <3>2
    <3>4. Held(w, k)'
      BY <1>1, <1>4, <1>6, <3>2, <3>3 DEF Held
    <3>5. received'[k] <= 1 /\ outcome'[k] = outcome[k] /\ outcome'[k].status = "pending"
      BY <1>1, <3>2, <3>3
    <3> QED BY <2>0, <2>1, <2>3, <3>1, <3>4, <3>5 DEF TriggerInv
  <2> QED BY <2>2, <2>3
<1>11. IdsApart'
  <2>1. /\ \A j \in Triggers : outcome'[j].id \in Nat /\ outcome'[j].id <= accepted
        /\ \A v \in Automata \ {w} : automaton'[v].id \in Nat /\ automaton'[v].id <= accepted
        /\ \A x \in reports'.delivered : x \in Nat /\ x <= accepted
    BY <1>1, <1>2, <1>6 DEF IdsApart, AutoTypeOK, OutcomeRec, BusyRec
  <2>2. /\ \A j \in Triggers : outcome'[j].id <= accepted'
        /\ \A v \in Automata : automaton'[v].id <= accepted'
    BY <2>1, <1>2, <1>3, <1>4, <1>6
  <2>3. id # 0 => /\ \A j \in Triggers : outcome'[j].id # id
                  /\ \A v \in Automata \ {w} : automaton'[v].id # id
                  /\ id \notin reports'.delivered
    BY <2>1, <1>2, <1>3
  <2> QED BY <1>1, <1>4, <1>6, <2>2, <2>3 DEF IdsApart, Records
<1>12. DeliveryReportCounts'
  BY <1>1 DEF DeliveryReportCounts
<1> QED BY <1>8, <1>9, <1>10, <1>11, <1>12

\* The outcome is written, with a delivery report that came before it.
LEMMA RecordStep ==
  ASSUME AutoInv, NEW w \in Automata, RecordMessage(w) PROVE AutoInv'
<1> USE DEF AutoInv
<1>n. NoTrigger \notin Triggers
  BY AutomationsAssumption DEF NoTrigger
<1>k. automaton[w].at = "record"
  BY DEF RecordMessage
<1>0. PICK k \in Triggers : k = automaton[w].trigger
  BY <1>k DEF WorkersBusy
<1> DEFINE result == automaton[w].result
           id == automaton[w].id
           now == Outcome(result, outcome[k].attempts, id, outcome[k].delivered, outcome[k].event)
           busy == IF result = "sent" THEN Busy("event", automaton[w].batch, k, result, id)
                   ELSE Continue(automaton[w].batch)
<1>1. /\ automaton[w].at = "record" /\ UNCHANGED <<current, received, accepted, reports, doubtful>>
      /\ outcome' = [outcome EXCEPT ![k] = now]
      /\ automaton' = [automaton EXCEPT ![w] = busy]
  BY <1>0 DEF RecordMessage, AutoTypeOK
<1>2. /\ k \in Triggers /\ result \in {"sent", "failed", "skipped"} /\ id \in Nat
      /\ automaton[w].batch \in SUBSET Triggers /\ outcome[k] \in OutcomeRec
  BY <1>1 DEF WorkersBusy, AutoTypeOK, BusyRec
<1>3. /\ now \in OutcomeRec /\ now.status = result /\ now.id = id /\ now.attempts = outcome[k].attempts
      /\ now.delivered = outcome[k].delivered
  BY <1>2 DEF OutcomeRec, Outcome
<1>4. /\ busy \in BusyRec
      /\ \/ busy.at \in {"idle", "claim"} /\ busy.trigger = NoTrigger
         \/ busy.at = "event" /\ busy.trigger = k /\ result = "sent"
      /\ busy.at # "record" /\ (busy.id = 0 \/ busy.id = id)
  <2>1. CASE result = "sent"
    BY <1>2, <2>1 DEF Busy, BusyRec
  <2>2. CASE result # "sent"
    BY <1>2, <2>2, ContinueFields
  <2> QED BY <2>1, <2>2
<1> HIDE DEF now, busy
<1>5. automaton'[w] = busy /\ \A v \in Automata \ {w} : automaton'[v] = automaton[v]
  BY <1>1, OneWorker
<1>6. outcome'[k] = now /\ \A j \in Triggers \ {k} : outcome'[j] = outcome[j]
  BY <1>1, <1>2, OneOutcome
<1>7. AutoTypeOK'
  BY <1>1, <1>3, <1>4 DEF AutoTypeOK
<1>8. WorkersBusy'
  BY <1>2, <1>4, <1>5, <1>n DEF WorkersBusy
<1> HIDE DEF result, id
<1>9. TriggersCounted'
  <2> SUFFICES ASSUME NEW j \in Triggers, j \notin doubtful PROVE TriggerInv(j)'
    BY <1>1 DEF TriggersCounted
  <2>1. TriggerInv(j)
    BY DEF TriggersCounted
  <2>2. CASE j # k
    <3>1. \A v \in Automata : (At(v, j)' <=> At(v, j)) /\ (At(v, j) => automaton'[v] = automaton[v])
      BY <1>0, <1>4, <1>5, <1>n, <2>2 DEF At
    <3> QED BY <1>1, <1>6, <2>1, <2>2, <3>1 DEF TriggerInv, Held
  <2>3. CASE j = k
    <3>1. At(w, k) /\ \A v \in Automata : At(v, k) => v = w
      BY <1>0, <2>1, <2>3 DEF TriggerInv, At
    <3>2. outcome[k].status = "pending" /\ received[k] = IF result = "sent" THEN 1 ELSE 0
      BY <1>1, <2>1, <2>3, <3>1 DEF TriggerInv, Held, result
    <3>3. \A v \in Automata : At(v, k)' => v = w
      BY <1>5, <3>1 DEF At
    <3>4. At(w, k)' => Held(w, k)'
      BY <1>2, <1>3, <1>4, <1>5, <1>6, <1>n DEF Held, At
    <3>5. /\ received'[k] <= 1 /\ outcome'[k].status # "none"
          /\ outcome'[k].status = "failed" => received'[k] = 0
      BY <1>1, <1>2, <1>3, <1>6, <3>2
    <3>6. outcome'[k].attempts <= MaxMessageAttempts
      BY <1>3, <1>6, <2>1, <2>3 DEF TriggerInv
    <3> QED BY <2>3, <3>3, <3>4, <3>5, <3>6 DEF TriggerInv
  <2> QED BY <2>2, <2>3
<1>10. id <= accepted
  BY DEF IdsApart, id
<1>11. IdsApart'
  <2>1. \A j \in Triggers : outcome'[j].id <= accepted'
    BY <1>1, <1>3, <1>6, <1>10 DEF IdsApart
  <2>2. \A v \in Automata : automaton'[v].id <= accepted'
    BY <1>1, <1>4, <1>5, <1>10 DEF IdsApart, AutoTypeOK
  <2>3. \A v \in Automata : Records(v)' => v # w /\ Records(v) /\ automaton'[v] = automaton[v]
    BY <1>4, <1>5 DEF Records
  <2>4. \A v \in Automata \ {w} : Records(v) => automaton[v].id # id
    BY <1>1 DEF IdsApart, Records, id
  <2>5. \A v \in Automata : Records(v)' => \A j \in Triggers : outcome'[j].id # automaton'[v].id
    BY <1>3, <1>6, <2>3, <2>4 DEF IdsApart
  <2> QED BY <1>1, <2>1, <2>2, <2>3, <2>5 DEF IdsApart
<1>12. DeliveryReportCounts'
  <2>1. id \in reports.delivered => id \in reports.early
    BY <1>1 DEF IdsApart, Records, AutoTypeOK, id
  <2> QED BY <1>1, <1>3, <1>6, <2>1 DEF DeliveryReportCounts
<1> QED BY <1>7, <1>8, <1>9, <1>11, <1>12

\* The domain event of a sent message.
LEMMA EventStep ==
  ASSUME AutoInv, NEW w \in Automata, AppendSent(w) PROVE AutoInv'
<1> USE DEF AutoInv
<1>n. NoTrigger \notin Triggers
  BY AutomationsAssumption DEF NoTrigger
<1>k. automaton[w].at = "event"
  BY DEF AppendSent
<1>0. PICK k \in Triggers : k = automaton[w].trigger
  BY <1>k DEF WorkersBusy
<1> DEFINE now == Outcome(outcome[k].status, outcome[k].attempts, outcome[k].id, outcome[k].delivered, TRUE)
           busy == Continue(automaton[w].batch)
<1>1. /\ automaton[w].at = "event" /\ UNCHANGED <<current, received, accepted, reports, doubtful>>
      /\ outcome' = [outcome EXCEPT ![k] = now]
      /\ automaton' = [automaton EXCEPT ![w] = busy]
  BY <1>0 DEF AppendSent, AutoTypeOK
<1>2. k \in Triggers /\ automaton[w].batch \in SUBSET Triggers /\ outcome[k] \in OutcomeRec
  BY <1>1 DEF WorkersBusy, AutoTypeOK, BusyRec
<1>3. /\ now \in OutcomeRec /\ now.status = outcome[k].status /\ now.id = outcome[k].id
      /\ now.attempts = outcome[k].attempts /\ now.delivered = outcome[k].delivered
  BY <1>2 DEF OutcomeRec, Outcome
<1>4. busy \in BusyRec /\ busy.at \in {"idle", "claim"} /\ busy.trigger = NoTrigger /\ busy.id = 0
  BY <1>2, ContinueFields
<1> HIDE DEF now, busy
<1>5. automaton'[w] = busy /\ \A v \in Automata \ {w} : automaton'[v] = automaton[v]
  BY <1>1, OneWorker
<1>6. outcome'[k] = now /\ \A j \in Triggers \ {k} : outcome'[j] = outcome[j]
  BY <1>1, <1>2, OneOutcome
<1>7. \A j \in Triggers :
        /\ outcome'[j].status = outcome[j].status /\ outcome'[j].id = outcome[j].id
        /\ outcome'[j].attempts = outcome[j].attempts /\ outcome'[j].delivered = outcome[j].delivered
  BY <1>3, <1>6
<1>8. AutoTypeOK'
  BY <1>1, <1>2, <1>3, <1>4 DEF AutoTypeOK
<1>9. WorkersBusy'
  BY <1>4, <1>5, <1>n DEF WorkersBusy
<1>10. \A v \in Automata : \A j \in Triggers : At(v, j)' => At(v, j) /\ automaton'[v] = automaton[v]
  BY <1>4, <1>5, <1>n DEF At
<1>11. TriggersCounted'
  BY <1>1, <1>7, <1>10 DEF TriggersCounted, TriggerInv, Held
<1>12. IdsApart'
  BY <1>1, <1>4, <1>5, <1>7 DEF IdsApart, Records, AutoTypeOK
<1>13. DeliveryReportCounts'
  BY <1>1, <1>7 DEF DeliveryReportCounts
<1> QED BY <1>8, <1>9, <1>11, <1>12, <1>13

\* A status report of the provider changes the row that has its id, or is kept for the row to come.
LEMMA ReportStep ==
  ASSUME AutoInv, NEW id \in 1 .. MaxMessages, NEW status \in {"sent", "delivered"}, ProviderReports(id, status)
  PROVE  AutoInv'
<1> USE DEF AutoInv
<1>1. /\ id \in 1 .. accepted /\ UNCHANGED <<current, automaton, received, accepted, doubtful>>
      /\ outcome' = [k \in Triggers |-> IF outcome[k].id = id THEN StatusReported(outcome[k], status) ELSE outcome[k]]
      /\ reports' = IF status # "delivered" THEN reports ELSE
           [delivered |-> reports.delivered \cup {id},
            early |-> IF \E k \in Triggers : outcome[k].id = id THEN reports.early ELSE reports.early \cup {id}]
  BY DEF ProviderReports
<1>2. \A k \in Triggers :
        /\ outcome'[k] \in OutcomeRec
        /\ outcome'[k].status = outcome[k].status /\ outcome'[k].id = outcome[k].id
        /\ outcome'[k].attempts = outcome[k].attempts
        /\ outcome[k].delivered => outcome'[k].delivered
        /\ outcome[k].id = id /\ status = "delivered" => outcome'[k].delivered
  <2> SUFFICES ASSUME NEW k \in Triggers
               PROVE  /\ outcome'[k] \in OutcomeRec
                      /\ outcome'[k].status = outcome[k].status /\ outcome'[k].id = outcome[k].id
                      /\ outcome'[k].attempts = outcome[k].attempts
                      /\ outcome[k].delivered => outcome'[k].delivered
                      /\ outcome[k].id = id /\ status = "delivered" => outcome'[k].delivered
    OBVIOUS
  <2>1. outcome[k] \in OutcomeRec
    BY DEF AutoTypeOK
  <2>2. CASE outcome[k].id = id
    <3>1. outcome'[k] = Outcome(outcome[k].status, outcome[k].attempts, outcome[k].id,
                                outcome[k].delivered \/ status = "delivered", outcome[k].event)
      BY <1>1, <2>2 DEF StatusReported
    <3>2. PICK flag \in BOOLEAN : flag = (outcome[k].delivered \/ status = "delivered")
      OBVIOUS
    <3>3. outcome'[k] = Outcome(outcome[k].status, outcome[k].attempts, outcome[k].id, flag, outcome[k].event)
      BY <3>1, <3>2
    <3>4. /\ outcome'[k] \in OutcomeRec /\ outcome'[k].delivered = flag
          /\ outcome'[k].status = outcome[k].status /\ outcome'[k].id = outcome[k].id
          /\ outcome'[k].attempts = outcome[k].attempts
      BY <2>1, <3>3 DEF Outcome, OutcomeRec
    <3> QED BY <3>2, <3>4
  <2>3. CASE outcome[k].id # id
    BY <1>1, <2>1, <2>3
  <2> QED BY <2>2, <2>3
<1>3. /\ reports.delivered \subseteq reports'.delivered /\ reports'.delivered \subseteq reports.delivered \cup {id}
      /\ reports.early \subseteq reports'.early
      /\ status # "delivered" => reports' = reports
      /\ status = "delivered" /\ (\A k \in Triggers : outcome[k].id # id) => id \in reports'.early
  BY <1>1
<1>4. reports' \in [delivered : SUBSET (1 .. accepted'), early : SUBSET Nat]
  BY <1>1 DEF AutoTypeOK
<1>5. AutoTypeOK'
  <2>1. outcome' \in [Triggers -> OutcomeRec]
    BY <1>1, <1>2
  <2> QED BY <1>1, <1>4, <2>1 DEF AutoTypeOK
<1>6. WorkersBusy'
  BY <1>1 DEF WorkersBusy
<1>7. TriggersCounted'
  BY <1>1, <1>2 DEF TriggersCounted, TriggerInv, Held, At
<1>8. IdsApart'
  <2>1. ASSUME NEW w \in Automata, Records(w), automaton[w].id \in reports'.delivered
        PROVE  automaton[w].id \in reports'.early
    <3>1. CASE automaton[w].id \in reports.delivered
      BY <1>3, <2>1, <3>1 DEF IdsApart
    <3>2. CASE automaton[w].id \notin reports.delivered
      BY <1>3, <2>1, <3>2 DEF IdsApart
    <3> QED BY <3>1, <3>2
  <2> QED BY <1>1, <1>2, <2>1 DEF IdsApart, Records
<1>9. DeliveryReportCounts'
  <2> SUFFICES ASSUME NEW k \in Triggers, outcome'[k].id \in reports'.delivered
               PROVE  outcome'[k].delivered \/ outcome'[k].id \in reports'.early
    BY DEF DeliveryReportCounts
  <2>1. CASE outcome[k].id \in reports.delivered
    BY <1>2, <1>3, <2>1 DEF DeliveryReportCounts
  <2>2. CASE outcome[k].id \notin reports.delivered
    BY <1>2, <1>3, <2>2
  <2> QED BY <2>1, <2>2
<1> QED BY <1>5, <1>6, <1>7, <1>8, <1>9

(***************************************************************************)
(* processCampaignAutomations, for any triggers and number of workers: a   *)
(* trigger's customer gets one message and the run has no more attempts    *)
(* than the limit, unless the attempt was taken over, lost or failed after *)
(* sending; and a delivery reported is recorded unless the report came     *)
(* before the id it names (loyalty_automation.go, whatsapp_otp.go).        *)
(***************************************************************************)
THEOREM MessagesAreAccountedFor == AutoSpec => []MessagesAccounted
<1>1. AutoInv => MessagesAccounted
  <2> SUFFICES ASSUME AutoInv PROVE MessagesAccounted
    OBVIOUS
  <2>1. /\ MaxMessageAttempts \in Nat
        /\ \A k \in Triggers : received[k] \in Nat /\ outcome[k].attempts \in Nat
    BY AutomationsAssumption DEF AutoInv, AutoTypeOK, OutcomeRec
  <2>2. TriggerMailedOnce /\ MessageAttemptsBounded
    BY <2>1 DEF AutoInv, TriggersCounted, TriggerInv, TriggerMailedOnce, MessageAttemptsBounded
  <2> QED BY <2>2 DEF AutoInv, MessagesAccounted
<1>2. AutoInv /\ [AutoNext]_autoVars => AutoInv'
  <2> SUFFICES ASSUME AutoInv, [AutoNext]_autoVars PROVE AutoInv'
    OBVIOUS
  <2>0. ASSUME UNCHANGED <<outcome, automaton, received, accepted, reports, doubtful>>, current' \subseteq current
        PROVE  AutoInv'
    BY <2>0 DEF AutoInv, AutoTypeOK, WorkersBusy, TriggersCounted, TriggerInv, Held, At, IdsApart, Records,
                DeliveryReportCounts
  <2>1. CASE SwitchAutomation
    BY <2>1, <2>0 DEF SwitchAutomation
  <2>2. ASSUME NEW k \in Triggers, OccasionPasses(k) PROVE AutoInv'
    BY <2>2, <2>0 DEF OccasionPasses
  <2>3. ASSUME NEW w \in Automata, CollectCandidates(w) PROVE AutoInv'
    <3>1. (IF active THEN current ELSE {}) \in SUBSET Triggers
      BY DEF AutoInv, AutoTypeOK
    <3> QED BY <2>3, <3>1, WorkerGoesOn DEF CollectCandidates
  <2>4. ASSUME NEW w \in Automata, PassOver(w) PROVE AutoInv'
    <3>1. PICK k \in automaton[w].batch : automaton' = [automaton EXCEPT ![w] = Continue(automaton[w].batch \ {k})]
      BY <2>4 DEF PassOver, AutoInv, AutoTypeOK
    <3>2. automaton[w].batch \ {k} \in SUBSET Triggers
      BY DEF AutoInv, AutoTypeOK, BusyRec
    <3>3. UNCHANGED <<current, outcome, received, accepted, reports, doubtful>>
      BY <2>4 DEF PassOver
    <3> QED BY <3>1, <3>2, <3>3, WorkerGoesOn
  <2>5. ASSUME NEW w \in Automata, LoseAutomaton(w) PROVE AutoInv'
    <3>1. Asleep = Continue({})
      BY DEF Continue
    <3>2. /\ automaton' = [automaton EXCEPT ![w] = Continue({})]
          /\ UNCHANGED <<current, outcome, received, accepted, reports>>
          /\ \A k \in Triggers \ doubtful' : k \notin doubtful
      BY <2>5, <3>1 DEF LoseAutomaton
    <3>3. {} \in SUBSET Triggers
      OBVIOUS
    <3> QED BY <3>2, <3>3, WorkerGoesOn
  <2>6. CASE UNCHANGED autoVars
    BY <2>6, <2>0 DEF autoVars
  <2> QED BY <2>1, <2>2, <2>3, <2>4, <2>5, <2>6, ClaimStep, SendStep, RecordStep, EventStep, ReportStep
      DEF AutoNext, AutomatonStep
<1> QED BY <1>1, <1>2, AutoInvInit, PTL DEF AutoSpec

-----------------------------------------------------------------------------
\* A row of subscriptions; its moment of creation stands for its id.
RowRec == [made : Nat, plan : Plans, status : LiveStatuses \cup {"cancelled", "expired"}, over : BOOLEAN]
\* An administrator's request between its first statement and its commit.
AtWork(q) == admin[q].at # "idle"

\* The rows and the requests hold values of the code.
SubTypeOK ==
  /\ subscription \subseteq RowRec
  /\ updates \in Nat /\ modulesOf \in Nat /\ used \in Nat
  /\ admin \in [Admins -> [at : {"idle", "begun", "found"}, made : Nat, seen : SUBSET Nat]]
  /\ creator \in [Creators -> BOOLEAN]

\* Every update has a moment of its own.
MadeApart ==
  /\ \A s, t \in subscription : s.made = t.made => s = t
  /\ \A s \in subscription : s.made <= updates
  /\ \A q \in Admins : AtWork(q) => admin[q].made <= updates
  /\ \A q \in Admins : AtWork(q) => \A s \in subscription : s.made # admin[q].made
  /\ \A p, q \in Admins : AtWork(p) /\ AtWork(q) /\ admin[p].made = admin[q].made => p = q

\* One row at most is live: the unique index on live subscriptions.
OneLive == \A s, t \in LiveRows : s = t

\* While updates have not overlapped, the live row is the newest, and the update at work will replace it.
LiveIsNewest ==
  "updates" \notin overlaps =>
    /\ \A p, q \in Admins : AtWork(p) /\ AtWork(q) => p = q
    /\ \A s \in LiveRows : \A t \in subscription : t.made <= s.made
    /\ \A q \in Admins : AtWork(q) => admin[q].made = updates
    /\ \A q \in Admins : admin[q].at = "found" => \A s \in LiveRows : s.made \in admin[q].seen

\* While requests have not overlapped and no limit was lowered, there is room for the one that has counted.
RoomLeft ==
  overlaps \cap {"creators", "lowered"} = {} =>
    /\ \A c, d \in Creators : creator[c] /\ creator[d] => c = d
    /\ \A s \in LiveRows : used + InFlight <= s.plan

SubInv == SubTypeOK /\ MadeApart /\ OneLive /\ ModulesMatchPlan /\ LiveIsNewest /\ RoomLeft

\* The number of requests that have counted and not yet added is a number.
LEMMA InFlightNat ==
  ASSUME SubTypeOK PROVE IsFiniteSet({c \in Creators : creator[c]}) /\ InFlight \in Nat
<1>1. {c \in Creators : creator[c]} \subseteq Creators
  OBVIOUS
<1> QED BY <1>1, SubscriptionsAssumption, FS_Subset, FS_CardinalityType DEF InFlight

\* A business starts with one live row.
LEMMA SubInvInit == SubInit => SubInv
<1> SUFFICES ASSUME SubInit PROVE SubInv
  OBVIOUS
<1>1. PICK plan \in Plans, status \in {"trial", "active"} : subscription = {Row(0, plan, status, FALSE)}
  BY DEF SubInit
<1>2. PICK r : r = Row(0, plan, status, FALSE)
  OBVIOUS
<1>3. r \in RowRec /\ r.made = 0 /\ r.plan = plan
  BY <1>2 DEF Row, RowRec, LiveStatuses
<1>4. subscription = {r}
  BY <1>1, <1>2
<1>5. /\ updates = 0 /\ modulesOf = 0 /\ used \in {0, 1} /\ used <= plan /\ overlaps = {}
      /\ admin = [q \in Admins |-> NoUpdate] /\ creator = [c \in Creators |-> FALSE]
  BY <1>3, <1>4 DEF SubInit
<1>6. \A q \in Admins : admin[q].at = "idle"
  BY <1>5 DEF NoUpdate, Update
<1>7. SubTypeOK
  BY <1>3, <1>4, <1>5 DEF SubTypeOK, NoUpdate, Update
<1>8. {c \in Creators : creator[c]} = {}
  BY <1>5
<1>9. InFlight = 0
  BY <1>8, FS_EmptySet DEF InFlight
<1>10. MadeApart /\ OneLive /\ LiveIsNewest
  BY <1>3, <1>4, <1>5, <1>6 DEF MadeApart, OneLive, LiveIsNewest, LiveRows, AtWork
<1>11. ModulesMatchPlan
  BY <1>3, <1>4, <1>5 DEF ModulesMatchPlan, LiveRows
<1>12. plan \in Nat
  BY SubscriptionsAssumption
<1>13. RoomLeft
  BY <1>3, <1>4, <1>5, <1>9, <1>12 DEF RoomLeft, LiveRows
<1> QED BY <1>7, <1>10, <1>11, <1>13 DEF SubInv

\* Rows that keep their moment and plan and do not come to life keep everything.
LEMMA RowsFollow ==
  ASSUME SubInv, NEW f \in [subscription -> RowRec], subscription' = {f[s] : s \in subscription},
         \A s \in subscription : f[s].made = s.made /\ f[s].plan = s.plan
                                 /\ (f[s].status \in LiveStatuses => s.status \in LiveStatuses),
         UNCHANGED <<updates, admin, modulesOf, used, creator, overlaps>>
  PROVE  SubInv'
<1> USE DEF SubInv
<1>1. SubTypeOK'
  BY DEF SubTypeOK
<1>2. \A t \in subscription' : \E s \in subscription : t = f[s] /\ t.made = s.made /\ t.plan = s.plan
  OBVIOUS
<1>3. \A t \in LiveRows' : \E s \in LiveRows : t = f[s] /\ t.made = s.made /\ t.plan = s.plan
  BY DEF LiveRows
<1>4. MadeApart'
  BY <1>2 DEF MadeApart, AtWork
<1>5. OneLive'
  BY <1>3 DEF OneLive
<1>6. ModulesMatchPlan'
  BY <1>3 DEF ModulesMatchPlan
<1>7. LiveIsNewest'
  <2> SUFFICES ASSUME "updates" \notin overlaps PROVE LiveIsNewest'
    BY DEF LiveIsNewest
  <2>1. \A s \in LiveRows' : \A t \in subscription' : t.made <= s.made
    BY <1>2, <1>3 DEF LiveIsNewest
  <2>2. \A q \in Admins : admin[q].at = "found" => \A s \in LiveRows' : s.made \in admin[q].seen
    BY <1>3 DEF LiveIsNewest
  <2> QED BY <2>1, <2>2 DEF LiveIsNewest, AtWork
<1>8. RoomLeft'
  BY <1>3 DEF RoomLeft, InFlight
<1> QED BY <1>1, <1>4, <1>5, <1>6, <1>7, <1>8

\* The end of a paid period.
LEMMA PeriodStep == ASSUME SubInv, PeriodEnds PROVE SubInv'
<1>1. PICK s \in LiveRows : subscription' = (subscription \ {s}) \cup {Row(s.made, s.plan, s.status, TRUE)}
  BY DEF PeriodEnds
<1>2. s \in subscription /\ subscription \subseteq RowRec
  BY DEF LiveRows, SubInv, SubTypeOK
<1>3. PICK r : r = Row(s.made, s.plan, s.status, TRUE)
  OBVIOUS
<1>4. r \in RowRec /\ r.made = s.made /\ r.plan = s.plan /\ r.status = s.status
  BY <1>2, <1>3 DEF Row, RowRec
<1>5. PICK f : f = [t \in subscription |-> IF t = s THEN r ELSE t]
  OBVIOUS
<1>6. f \in [subscription -> RowRec] /\ subscription' = {f[t] : t \in subscription}
  BY <1>1, <1>2, <1>3, <1>4, <1>5
<1>7. \A t \in subscription : f[t].made = t.made /\ f[t].plan = t.plan
                              /\ (f[t].status \in LiveStatuses => t.status \in LiveStatuses)
  BY <1>4, <1>5
<1> QED BY <1>6, <1>7, RowsFollow DEF PeriodEnds

\* The sweep marks the rows run out as expired.
LEMMA SweepStep == ASSUME SubInv, SweepSubscriptions PROVE SubInv'
<1>1. RunOut \subseteq subscription /\ subscription \subseteq RowRec
  BY DEF RunOut, SubInv, SubTypeOK
<1>2. \A s \in subscription :
        LET r == Row(s.made, s.plan, "expired", s.over) IN
        r \in RowRec /\ r.made = s.made /\ r.plan = s.plan /\ r.status = "expired"
  BY <1>1 DEF Row, RowRec
<1>3. PICK f : f = [t \in subscription |-> IF t \in RunOut THEN Row(t.made, t.plan, "expired", t.over) ELSE t]
  OBVIOUS
<1>4. f \in [subscription -> RowRec] /\ \A t \in subscription : f[t] = IF t \in RunOut THEN Row(t.made, t.plan, "expired", t.over) ELSE t
  BY <1>1, <1>2, <1>3
<1>5. subscription' = {f[t] : t \in subscription}
  BY <1>1, <1>4 DEF SweepSubscriptions
<1>6. \A t \in subscription : f[t].made = t.made /\ f[t].plan = t.plan
                              /\ (f[t].status \in LiveStatuses => t.status \in LiveStatuses)
  BY <1>2, <1>4 DEF LiveStatuses
<1> QED BY <1>4, <1>5, <1>6, RowsFollow DEF SweepSubscriptions

\* One administrator's step leaves the others where they are.
LEMMA OneAdmin ==
  ASSUME NEW q \in Admins, NEW next, SubTypeOK, admin' = [admin EXCEPT ![q] = next]
  PROVE  admin'[q] = next /\ \A p \in Admins \ {q} : admin'[p] = admin[p]
BY DEF SubTypeOK

\* A request takes its moment.
LEMMA BeginStep == ASSUME SubInv, NEW q \in Admins, AdminBegin(q) PROVE SubInv'
<1> USE DEF SubInv
<1>1. /\ admin[q].at = "idle" /\ updates' = updates + 1 /\ updates \in Nat
      /\ admin' = [admin EXCEPT ![q] = Update("begun", updates + 1, {})]
      /\ UNCHANGED <<subscription, modulesOf, used, creator>>
      /\ overlaps \subseteq overlaps'
      /\ "updates" \notin overlaps' => \A p \in Admins : ~AtWork(p)
      /\ overlaps' \subseteq overlaps \cup {"updates"}
  BY DEF AdminBegin, AtWork, SubTypeOK
<1>2. admin'[q] = Update("begun", updates + 1, {}) /\ \A p \in Admins \ {q} : admin'[p] = admin[p]
  BY <1>1, OneAdmin
<1>3. admin'[q].at = "begun" /\ admin'[q].made = updates + 1
  BY <1>2 DEF Update
<1>4. SubTypeOK'
  BY <1>1 DEF SubTypeOK, Update
<1>5. LiveRows' = LiveRows /\ InFlight' = InFlight
  BY <1>1 DEF LiveRows, InFlight
<1>6. /\ \A s \in subscription : s.made \in Nat /\ s.made <= updates
      /\ \A p \in Admins : admin[p].made \in Nat
  BY DEF MadeApart, SubTypeOK, RowRec
<1>7. MadeApart'
  BY <1>1, <1>2, <1>3, <1>6 DEF MadeApart, AtWork
<1>8. OneLive' /\ ModulesMatchPlan'
  BY <1>1, <1>5 DEF OneLive, ModulesMatchPlan
<1>9. LiveIsNewest'
  BY <1>1, <1>2, <1>3, <1>5 DEF LiveIsNewest, AtWork
<1>10. RoomLeft'
  BY <1>1, <1>5 DEF RoomLeft
<1> QED BY <1>4, <1>7, <1>8, <1>9, <1>10

\* A request reads which rows are live.
LEMMA FindStep == ASSUME SubInv, NEW q \in Admins, AdminFindsLive(q) PROVE SubInv'
<1> USE DEF SubInv
<1> DEFINE seen == {s.made : s \in LiveRows}
<1>1. /\ admin[q].at = "begun" /\ UNCHANGED <<subscription, updates, modulesOf, used, creator, overlaps>>
      /\ admin' = [admin EXCEPT ![q] = Update("found", admin[q].made, seen)]
  BY DEF AdminFindsLive, SubTypeOK
<1>2. admin'[q] = Update("found", admin[q].made, seen) /\ \A p \in Admins \ {q} : admin'[p] = admin[p]
  BY <1>1, OneAdmin
<1>3. seen \in SUBSET Nat /\ \A s \in LiveRows : s.made \in seen
  BY DEF LiveRows, SubTypeOK, RowRec
<1> HIDE DEF seen
<1>4. admin'[q].at = "found" /\ admin'[q].made = admin[q].made /\ admin'[q].seen = seen
  BY <1>2 DEF Update
<1>5. SubTypeOK'
  BY <1>1, <1>3 DEF SubTypeOK, Update
<1>6. LiveRows' = LiveRows /\ InFlight' = InFlight
  BY <1>1 DEF LiveRows, InFlight
<1>7. \A p \in Admins : (AtWork(p)' <=> AtWork(p)) /\ admin'[p].made = admin[p].made
  BY <1>1, <1>2, <1>4 DEF AtWork
<1>8. MadeApart'
  BY <1>1, <1>7 DEF MadeApart
<1>9. OneLive' /\ ModulesMatchPlan'
  BY <1>1, <1>6 DEF OneLive, ModulesMatchPlan
<1>10. LiveIsNewest'
  BY <1>1, <1>2, <1>3, <1>4, <1>6, <1>7 DEF LiveIsNewest
<1>11. RoomLeft'
  BY <1>1, <1>6 DEF RoomLeft
<1> QED BY <1>5, <1>8, <1>9, <1>10, <1>11

(***************************************************************************)
(* A request cancels what it found and adds its row, or fails at the       *)
(* unique index; the modules are written with it.                          *)
(***************************************************************************)
LEMMA CommitStep ==
  ASSUME SubInv, NEW q \in Admins, NEW plan \in Plans, NEW status \in LiveStatuses \cup {"cancelled", "expired"},
         AdminCommit(q, plan, status)
  PROVE  SubInv'
<1> USE DEF SubInv
<1>1. PICK found : found = {s \in LiveRows : s.made \in admin[q].seen}
  OBVIOUS
<1>2. PICK new : new = Row(admin[q].made, plan, status, FALSE)
  OBVIOUS
<1> DEFINE refused == status \in LiveStatuses /\ LiveRows # found
<1>3. /\ admin[q].at = "found" /\ UNCHANGED <<updates, used, creator>>
      /\ subscription' = IF refused THEN subscription ELSE (subscription \ found) \cup CancelledRows(found) \cup {new}
      /\ modulesOf' = IF refused THEN modulesOf ELSE admin[q].made
      /\ admin' = [admin EXCEPT ![q] = NoUpdate]
      /\ overlaps' = overlaps \cup {x \in {"lowered"} : ~refused /\ used + InFlight > plan}
                             \cup {x \in {"survivor"} : ~refused /\ LiveRows # found}
  BY <1>1, <1>2 DEF AdminCommit
<1>4. admin'[q].at = "idle" /\ \A p \in Admins \ {q} : admin'[p] = admin[p]
  <2>1. admin'[q] = NoUpdate /\ \A p \in Admins \ {q} : admin'[p] = admin[p]
    BY <1>3, OneAdmin
  <2> QED BY <2>1 DEF NoUpdate, Update
<1>5. InFlight' = InFlight /\ InFlight \in Nat
  BY <1>3, InFlightNat DEF InFlight
<1>6. admin[q].made \in Nat /\ plan \in Nat /\ AtWork(q)
  BY <1>3, SubscriptionsAssumption DEF SubTypeOK, AtWork
<1>7. new \in RowRec /\ new.made = admin[q].made /\ new.plan = plan /\ new.status = status
  BY <1>2, <1>6 DEF Row, RowRec
<1>8. found \subseteq LiveRows /\ LiveRows \subseteq subscription /\ subscription \subseteq RowRec
  BY <1>1 DEF LiveRows, SubTypeOK
<1>9. admin' \in [Admins -> [at : {"idle", "begun", "found"}, made : Nat, seen : SUBSET Nat]]
  BY <1>3 DEF SubTypeOK, NoUpdate, Update
<1>10. /\ overlaps \subseteq overlaps'
       /\ "updates" \in overlaps' => "updates" \in overlaps
       /\ ~refused /\ LiveRows # found => "survivor" \in overlaps'
       /\ ~refused /\ "lowered" \notin overlaps' => ~(used + InFlight > plan)
  BY <1>3
<1>11. CASE refused
  <2>1. UNCHANGED <<subscription, modulesOf>> /\ LiveRows' = LiveRows
    BY <1>3, <1>11 DEF LiveRows
  <2>2. SubTypeOK'
    BY <1>3, <1>9, <2>1 DEF SubTypeOK
  <2>3. \A p \in Admins : AtWork(p)' => AtWork(p) /\ admin'[p] = admin[p]
    BY <1>4 DEF AtWork
  <2>4. MadeApart'
    BY <1>3, <2>1, <2>3 DEF MadeApart
  <2>5. OneLive' /\ ModulesMatchPlan'
    BY <1>10, <2>1 DEF OneLive, ModulesMatchPlan
  <2>6. LiveIsNewest'
    BY <1>3, <1>4, <1>10, <2>1, <2>3 DEF LiveIsNewest
  <2>7. RoomLeft'
    BY <1>3, <1>5, <1>10, <2>1 DEF RoomLeft
  <2> QED BY <2>2, <2>4, <2>5, <2>6, <2>7
<1>12. CASE ~refused
  <2>1. \A s \in subscription :
          LET r == Row(s.made, s.plan, "cancelled", s.over) IN
          r \in RowRec /\ r.made = s.made /\ r.plan = s.plan /\ r.status = "cancelled"
    BY <1>8 DEF Row, RowRec
  <2>2. PICK f : f = [t \in subscription |-> IF t \in found THEN Row(t.made, t.plan, "cancelled", t.over) ELSE t]
    OBVIOUS
  <2>3. /\ f \in [subscription -> RowRec]
        /\ \A t \in subscription : f[t] = IF t \in found THEN Row(t.made, t.plan, "cancelled", t.over) ELSE t
    BY <1>8, <2>1, <2>2
  <2>4. subscription' = {f[t] : t \in subscription} \cup {new}
    BY <1>3, <1>8, <1>12, <2>3 DEF CancelledRows
  <2>5. \A t \in subscription : f[t].made = t.made /\ f[t].plan = t.plan
                                /\ (f[t].status \in LiveStatuses => t \in LiveRows \ found)
    BY <2>1, <2>3 DEF LiveStatuses, LiveRows
  <2>6. \A t \in subscription' : t = new \/ \E s \in subscription : t = f[s] /\ t.made = s.made /\ t.plan = s.plan
    BY <2>4, <2>5
  <2>7. \A t \in LiveRows' : \/ t = new /\ status \in LiveStatuses
                             \/ \E s \in LiveRows \ found : t = f[s] /\ t.made = s.made /\ t.plan = s.plan
    BY <1>7, <2>4, <2>5 DEF LiveRows
  <2>8. status \in LiveStatuses => LiveRows = found
    BY <1>12
  <2>9. SubTypeOK'
    BY <1>3, <1>6, <1>7, <1>9, <1>12, <2>3, <2>4 DEF SubTypeOK
  <2>10. \A p \in Admins : AtWork(p)' => p # q /\ AtWork(p) /\ admin'[p] = admin[p]
    BY <1>4 DEF AtWork
  <2>11. MadeApart'
    <3>1. \A s \in subscription : s.made # new.made
      BY <1>6, <1>7 DEF MadeApart
    <3>2. \A s, t \in subscription' : s.made = t.made => s = t
      BY <2>6, <3>1 DEF MadeApart
    <3>3. \A s \in subscription' : s.made <= updates
      BY <1>6, <1>7, <2>6 DEF MadeApart
    <3>4. \A p \in Admins : AtWork(p)' => \A s \in subscription' : s.made # admin'[p].made
      BY <1>6, <1>7, <2>6, <2>10 DEF MadeApart
    <3> QED BY <1>3, <2>10, <3>2, <3>3, <3>4 DEF MadeApart
  <2>12. OneLive'
    BY <2>7, <2>8 DEF OneLive
  <2>13. ModulesMatchPlan'
    <3>1. modulesOf' = admin[q].made
      BY <1>3, <1>12
    <3>2. ASSUME NEW t \in LiveRows' PROVE modulesOf' = t.made \/ "survivor" \in overlaps'
      BY <1>7, <1>10, <1>12, <2>7, <3>1
    <3> QED BY <3>2 DEF ModulesMatchPlan
  <2>14. LiveIsNewest'
    <3> SUFFICES ASSUME "updates" \notin overlaps' PROVE LiveIsNewest'
      BY DEF LiveIsNewest
    <3>1. "updates" \notin overlaps
      BY <1>10
    <3>2. \A p \in Admins : ~AtWork(p)'
      BY <1>6, <2>10, <3>1 DEF LiveIsNewest
    <3>3. found = LiveRows
      BY <1>1, <1>3, <3>1 DEF LiveIsNewest
    <3>4. \A t \in LiveRows' : t = new
      BY <2>7, <3>3
    <3>5. \A t \in subscription' : t.made <= updates /\ admin[q].made = updates
      BY <1>3, <1>6, <2>11, <3>1 DEF MadeApart, LiveIsNewest
    <3> QED BY <1>7, <3>2, <3>4, <3>5 DEF LiveIsNewest, AtWork
  <2>15. RoomLeft'
    <3> SUFFICES ASSUME overlaps' \cap {"creators", "lowered"} = {} PROVE RoomLeft'
      BY DEF RoomLeft
    <3>1. overlaps \cap {"creators", "lowered"} = {} /\ ~(used + InFlight > plan)
      BY <1>10, <1>12
    <3>2. used + InFlight <= plan
      BY <1>5, <1>6, <3>1 DEF SubTypeOK
    <3>3. \A t \in LiveRows' : used + InFlight <= t.plan
      BY <1>7, <2>7, <3>1, <3>2 DEF RoomLeft
    <3> QED BY <1>3, <1>5, <3>1, <3>3 DEF RoomLeft
  <2> QED BY <2>9, <2>11, <2>12, <2>13, <2>14, <2>15
<1> QED BY <1>11, <1>12

\* Of rows with distinct moments, one that no other is newer than is the newest.
LEMMA NewestIs ==
  ASSUME NEW rows, NEW s \in rows, \A t \in rows : t.made <= s.made /\ t.made \in Nat,
         \A t \in rows : t.made = s.made => t = s
  PROVE  Newest(rows) = s
<1>1. \A t \in rows : (\A u \in rows : u.made <= t.made) => t = s
  OBVIOUS
<1>2. \E t \in rows : \A u \in rows : u.made <= t.made
  OBVIOUS
<1> QED BY <1>1, <1>2 DEF Newest

\* What the steps of the limit leave alone.
LEMMA LimitStep ==
  ASSUME SubInv, UNCHANGED <<subscription, updates, admin, modulesOf>>, overlaps \subseteq overlaps',
         overlaps' \subseteq overlaps \cup {"creators"}, used' \in Nat, creator' \in [Creators -> BOOLEAN], RoomLeft'
  PROVE  SubInv'
<1>1. LiveRows' = LiveRows
  BY DEF LiveRows
<1> QED BY <1>1 DEF SubInv, SubTypeOK, MadeApart, OneLive, ModulesMatchPlan, LiveIsNewest, AtWork

\* checkLimit counts: a request that passes has room, if none is between its count and its insert.
LEMMA CheckStep == ASSUME SubInv, NEW c \in Creators, CheckLimit(c) PROVE SubInv'
<1> USE DEF SubInv
<1>1. /\ ~creator[c] /\ WithinLimit /\ creator' = [creator EXCEPT ![c] = TRUE]
      /\ UNCHANGED <<subscription, updates, admin, modulesOf, used>>
      /\ overlaps \subseteq overlaps' /\ overlaps' \subseteq overlaps \cup {"creators"}
      /\ "creators" \notin overlaps' => \A d \in Creators : ~creator[d]
  BY DEF CheckLimit
<1>2. used \in Nat /\ creator' \in [Creators -> BOOLEAN] /\ LiveRows' = LiveRows
  BY <1>1 DEF SubTypeOK, LiveRows
<1>3. ASSUME overlaps' \cap {"creators", "lowered"} = {} PROVE RoomLeft'
  <2>1. \A d \in Creators : creator'[d] <=> d = c
    BY <1>1, <1>3 DEF SubTypeOK
  <2>2. {d \in Creators : creator'[d]} = {c}
    BY <2>1
  <2>3. InFlight' = 1
    BY <2>2, FS_Singleton DEF InFlight
  <2>4. \A s \in LiveRows : Newest(LiveRows) = s /\ s.plan \in Nat
    <3> SUFFICES ASSUME NEW s \in LiveRows PROVE Newest(LiveRows) = s /\ s.plan \in Nat
      OBVIOUS
    <3>1. \A t \in LiveRows : t = s
      BY DEF OneLive
    <3>2. s \in RowRec
      BY DEF LiveRows, SubTypeOK
    <3>3. s.made \in Nat /\ s.plan \in Plans
      BY <3>2 DEF RowRec
    <3>4. Plans \subseteq Nat
      BY SubscriptionsAssumption
    <3>5. s.plan \in Nat
      BY <3>3, <3>4
    <3>6. s.made <= s.made
      BY <3>3
    <3> QED BY <3>1, <3>3, <3>5, <3>6, NewestIs
  <2>5. \A s \in LiveRows : used + 1 <= s.plan
    BY <1>1, <1>2, <2>4 DEF WithinLimit
  <2> QED BY <1>1, <1>2, <2>1, <2>3, <2>5 DEF RoomLeft
<1>4. RoomLeft'
  BY <1>3 DEF RoomLeft
<1> QED BY <1>1, <1>2, <1>4, LimitStep

\* The request adds what it counted for, or fails.
LEMMA AddStep == ASSUME SubInv, NEW c \in Creators, AddOne(c) PROVE SubInv'
<1> USE DEF SubInv
<1>1. /\ creator[c] /\ used' \in {used, used + 1} /\ creator' = [creator EXCEPT ![c] = FALSE]
      /\ UNCHANGED <<subscription, updates, admin, modulesOf, overlaps>>
  BY DEF AddOne
<1>2. used \in Nat /\ used' \in Nat /\ creator' \in [Creators -> BOOLEAN] /\ LiveRows' = LiveRows
  BY <1>1 DEF SubTypeOK, LiveRows
<1>3. {d \in Creators : creator'[d]} = {d \in Creators : creator[d]} \ {c}
  BY <1>1 DEF SubTypeOK
<1>4. InFlight' = InFlight - 1 /\ InFlight \in Nat
  BY <1>1, <1>3, InFlightNat, FS_RemoveElement DEF InFlight
<1>5. \A d \in Creators : creator'[d] => creator[d]
  BY <1>1 DEF SubTypeOK
<1>6. \A s \in LiveRows : s.plan \in Nat
  BY SubscriptionsAssumption DEF LiveRows, SubTypeOK, RowRec
<1>7. \A s \in LiveRows : used + InFlight <= s.plan => used' + InFlight' <= s.plan
  BY <1>1, <1>2, <1>4, <1>6
<1>8. RoomLeft'
  BY <1>1, <1>2, <1>5, <1>7 DEF RoomLeft
<1> QED BY <1>1, <1>2, <1>8, LimitStep

\* Removing makes room.
LEMMA RemoveStep == ASSUME SubInv, RemoveOne PROVE SubInv'
<1> USE DEF SubInv
<1>1. /\ used > 0 /\ used' = used - 1 /\ UNCHANGED <<subscription, updates, admin, modulesOf, creator, overlaps>>
  BY DEF RemoveOne
<1>2. used \in Nat /\ used' \in Nat /\ creator' \in [Creators -> BOOLEAN] /\ LiveRows' = LiveRows
  BY <1>1 DEF SubTypeOK, LiveRows
<1>3. InFlight' = InFlight /\ InFlight \in Nat
  BY <1>1, InFlightNat DEF InFlight
<1>4. \A s \in LiveRows : s.plan \in Nat
  BY SubscriptionsAssumption DEF LiveRows, SubTypeOK, RowRec
<1>5. \A s \in LiveRows : used + InFlight <= s.plan => used' + InFlight' <= s.plan
  BY <1>1, <1>2, <1>3, <1>4
<1>6. RoomLeft'
  BY <1>1, <1>2, <1>5 DEF RoomLeft
<1> QED BY <1>1, <1>2, <1>6, LimitStep

(***************************************************************************)
(* adminUpdateSubscription, the lifecycle worker and the checks, for any   *)
(* number of requests and updates: a live subscription that is not over    *)
(* admits writes and has its modules unless updates overlapped, and a      *)
(* plan's limit is exceeded only by requests that overlapped or after the  *)
(* plan was lowered (billing_admin.go, subscription_worker.go,             *)
(* entitlements.go).                                                       *)
(***************************************************************************)
THEOREM SubscriptionsAreInForce == SubSpec => []SubscriptionInForce
<1>1. SubInv => SubscriptionInForce
  <2> SUFFICES ASSUME SubInv PROVE SubscriptionInForce
    OBVIOUS
  <2> USE DEF SubInv
  <2>t. \A s \in subscription : s.made \in Nat /\ s.plan \in Nat
    BY SubscriptionsAssumption DEF SubTypeOK, RowRec
  <2>1. WritableWhilePaid
    <3> SUFFICES ASSUME NEW s \in LiveRows, ~s.over \/ s.status = "past_due", "updates" \notin overlaps
                 PROVE  Writable
      BY DEF WritableWhilePaid
    <3>1. s \in subscription /\ s.status \in LiveStatuses
      BY DEF LiveRows
    <3>2. /\ \A t \in subscription : t.made <= s.made /\ t.made \in Nat
          /\ \A t \in subscription : t.made = s.made => t = s
      BY <3>1, <2>t DEF LiveIsNewest, MadeApart
    <3>3. LatestRow = s
      BY <3>1, <3>2, NewestIs DEF LatestRow
    <3> QED BY <3>1, <3>3 DEF Writable, LiveStatuses
  <2>2. PlanLimitHeld
    <3> SUFFICES ASSUME NEW s \in LiveRows, used > Newest(LiveRows).plan, overlaps \cap {"creators", "lowered"} = {}
                 PROVE  FALSE
      BY DEF PlanLimitHeld
    <3>1. s \in subscription /\ \A t \in LiveRows : t = s
      BY DEF OneLive, LiveRows
    <3>2. Newest(LiveRows) = s
      BY <3>1, <2>t, NewestIs
    <3>3. used + InFlight <= s.plan /\ used \in Nat /\ InFlight \in Nat /\ s.plan \in Nat
      BY <3>1, <2>t, InFlightNat DEF RoomLeft, SubTypeOK
    <3> QED BY <3>2, <3>3
  <2> QED BY <2>1, <2>2 DEF SubscriptionInForce
<1>2. SubInv /\ [SubNext]_subVars => SubInv'
  <2> SUFFICES ASSUME SubInv, [SubNext]_subVars PROVE SubInv'
    OBVIOUS
  <2>1. CASE UNCHANGED subVars
    BY <2>1 DEF subVars, SubInv, SubTypeOK, MadeApart, OneLive, ModulesMatchPlan, LiveIsNewest, RoomLeft, AtWork,
                LiveRows, InFlight
  <2> QED BY <2>1, BeginStep, FindStep, CommitStep, PeriodStep, SweepStep, CheckStep, AddStep, RemoveStep DEF SubNext
<1> QED BY <1>1, <1>2, SubInvInit, PTL DEF SubSpec

-----------------------------------------------------------------------------
\* The values of a run's row, of a worker's place in processNextReportRun, and of the copies handed over.
RunTypeOK ==
  /\ report \in [Runs -> [status : {"none", "deleted", "queued", "processing"} \cup Settled, attempts : Nat]]
  /\ courier \in [Couriers -> [at : {"idle", "deliver", "finish", "requeue", "close"},
                               run : Runs \cup {NoReport}, to : Nat, result : {"none"} \cup Settled]]
  /\ copies \in [Letters -> Nat]

\* A worker between the claim of a run and its last statement.
Delivering(w) == courier[w].at # "idle"

\* A worker at work has a run that was queued once, and an outcome once it has one.
CouriersValid ==
  \A w \in Couriers :
    /\ Delivering(w) => courier[w].run \in Runs /\ report[courier[w].run].status # "none"
    /\ courier[w].at \in {"finish", "requeue", "close"} => courier[w].result \in Settled
    /\ courier[w].at = "deliver" => courier[w].to >= 1

(***************************************************************************)
(* A run that was never taken from a worker at it has one worker at most,  *)
(* stays in processing meanwhile, and has an attempt left while it is      *)
(* queued.                                                                 *)
(***************************************************************************)
HeldByOne ==
  \A k \in Runs :
    /\ report[k].status = "none" => report[k].attempts = 0
    /\ k \notin overtaken =>
         /\ report[k].attempts <= MaxReportAttempts
         /\ report[k].status = "queued" => report[k].attempts < MaxReportAttempts
         /\ \A w \in Couriers : Delivering(w) /\ courier[w].run = k =>
              /\ report[k].status \in {"processing", "deleted"}
              /\ courier[w].at = "requeue" => report[k].attempts < MaxReportAttempts
         /\ \A v, w \in Couriers : Delivering(v) /\ Delivering(w) /\ courier[v].run = k /\ courier[w].run = k => v = w

\* What a worker has behind it: the recipients before its present one, or all of them.
Reached ==
  /\ \A w \in Couriers : \A i \in 1 .. Recipients :
       \/ courier[w].at = "deliver" /\ i < courier[w].to
       \/ courier[w].at \in {"finish", "requeue", "close"} /\ courier[w].result = "sent"
       => copies[<<courier[w].run, i>>] > 0
  /\ SentReachedEveryone

RunInv == RunTypeOK /\ CouriersValid /\ HeldByOne /\ Reached

\* Nothing is queued and nobody works.
LEMMA RunInvInit == RunInit => RunInv
BY ReportRunsAssumption DEF RunInit, RunInv, RunTypeOK, CouriersValid, Delivering, HeldByOne, Reached, SentReachedEveryone, Resting, NoReport, Settled

(***************************************************************************)
(* Every statement of the worker, the queueing and deleting of runs, the   *)
(* recovery of a stuck run and the loss of a worker keep the invariant.    *)
(***************************************************************************)
LEMMA RunInvStep == RunInv /\ [RunNext]_runVars => RunInv'
<1> SUFFICES ASSUME RunInv, [RunNext]_runVars PROVE RunInv'
  OBVIOUS
<1> USE ReportRunsAssumption DEF RunInv
<1>1. ASSUME NEW k \in Runs, QueueRun(k) PROVE RunInv'
  <2>1. RunTypeOK' /\ CouriersValid' /\ HeldByOne'
    BY <1>1 DEF QueueRun, RunTypeOK, CouriersValid, Delivering, HeldByOne, Settled
  <2>2. Reached'
    BY <1>1 DEF QueueRun, RunTypeOK, Reached, SentReachedEveryone
  <2> QED BY <2>1, <2>2
<1>2. ASSUME NEW k \in Runs, DeleteRun(k) PROVE RunInv'
  <2>1. RunTypeOK' /\ CouriersValid' /\ HeldByOne'
    BY <1>2 DEF DeleteRun, Exists, RunTypeOK, CouriersValid, Delivering, HeldByOne, Settled
  <2>2. Reached'
    BY <1>2 DEF DeleteRun, RunTypeOK, Reached, SentReachedEveryone
  <2> QED BY <2>1, <2>2
<1>3. ASSUME NEW w \in Couriers, RecoverRun(w) PROVE RunInv'
  <2>1. PICK k \in Runs :
          /\ report[k].status = "processing"
          /\ report' = [report EXCEPT ![k] = Recovered(@)]
          /\ overtaken' = IF \E v \in Couriers : courier[v].run = k THEN overtaken \cup {k} ELSE overtaken
    BY <1>3 DEF RecoverRun
  <2>2. UNCHANGED <<courier, copies, courierFaults>>
    BY <1>3 DEF RecoverRun
  <2>3. RunTypeOK' /\ CouriersValid'
    BY <2>1, <2>2 DEF Recovered, RunTypeOK, CouriersValid, Delivering, Settled
  <2>4. HeldByOne'
    BY <2>1, <2>2 DEF Recovered, RunTypeOK, Delivering, HeldByOne
  <2>5. Reached'
    BY <2>1, <2>2 DEF Recovered, RunTypeOK, Reached, SentReachedEveryone
  <2> QED BY <2>3, <2>4, <2>5
<1>4. ASSUME NEW w \in Couriers, ClaimRun(w) PROVE RunInv'
  <2>1. PICK k \in Runs :
          /\ Claimable(k)
          /\ report' = [report EXCEPT ![k] = Claimed(@)]
          /\ courier' = [courier EXCEPT ![w] = [at |-> "deliver", run |-> k, to |-> 1, result |-> "none"]]
    BY <1>4 DEF ClaimRun
  <2>2. UNCHANGED <<copies, courierFaults, overtaken>> /\ courier[w].at = "idle"
    BY <1>4 DEF ClaimRun
  <2>3. RunTypeOK' /\ CouriersValid'
    BY <2>1, <2>2 DEF Claimable, Claimed, RunTypeOK, CouriersValid, Delivering, Settled
  <2>4. HeldByOne'
    BY <2>1, <2>2 DEF Claimable, Claimed, RunTypeOK, Delivering, HeldByOne
  <2>5. Reached'
    BY <2>1, <2>2 DEF Claimable, Claimed, RunTypeOK, Reached, SentReachedEveryone
  <2> QED BY <2>3, <2>4, <2>5
<1>5. ASSUME NEW w \in Couriers, DeliverNext(w) PROVE RunInv'
  <2> DEFINE k == courier[w].run  i == courier[w].to
  <2>1. /\ courier[w].at = "deliver" /\ k \in Runs /\ i >= 1 /\ i \in Nat
        /\ UNCHANGED <<report, courierFaults, overtaken>>
    BY <1>5 DEF DeliverNext, CouriersValid, Delivering, RunTypeOK
  <2>2. ASSUME NEW at \in {"deliver", "finish"}, NEW to \in {i, i + 1}, NEW result \in {"none"} \cup Settled,
               courier' = [courier EXCEPT ![w] = Going(w, at, to, result)],
               copies' \in [Letters -> Nat],
               \A x \in Letters : copies'[x] >= copies[x],
               at = "deliver" => i <= Recipients /\ copies'[<<k, i>>] > 0,
               at = "finish" => result # "none",
               result = "sent" => i > Recipients
        PROVE  RunInv'
    <3>1. /\ \A v \in Couriers \ {w} : courier'[v] = courier[v]
          /\ courier'[w].at = at /\ courier'[w].run = k /\ courier'[w].to = to /\ courier'[w].result = result
      BY <2>2, <2>1 DEF Going, RunTypeOK
    <3>2. \A l \in Runs, j \in 1 .. Recipients : copies[<<l, j>>] > 0 => copies'[<<l, j>>] > 0
      <4>1. \A x \in Letters : copies[x] \in Nat /\ copies'[x] \in Nat
        BY <2>2 DEF RunTypeOK
      <4>2. \A x \in Letters : copies[x] > 0 => copies'[x] > 0
        BY <4>1, <2>2
      <4>3. \A l \in Runs, j \in 1 .. Recipients : <<l, j>> \in Letters
        BY DEF Letters
      <4> QED BY <4>2, <4>3
    <3>3. RunTypeOK'
      BY <2>1, <2>2 DEF Going, RunTypeOK, Settled, NoReport
    <3>4. CouriersValid' /\ HeldByOne'
      BY <2>1, <2>2, <3>1 DEF CouriersValid, Delivering, HeldByOne, Settled
    <3>5. Reached'
      <4>1. SentReachedEveryone'
        BY <2>1, <3>2 DEF Reached, SentReachedEveryone, RunTypeOK
      <4>2. ASSUME NEW v \in Couriers, NEW j \in 1 .. Recipients,
                   \/ courier'[v].at = "deliver" /\ j < courier'[v].to
                   \/ courier'[v].at \in {"finish", "requeue", "close"} /\ courier'[v].result = "sent"
            PROVE  copies'[<<courier'[v].run, j>>] > 0
        <5>1. CASE v # w
          <6>1. courier[v].run \in Runs /\ copies[<<courier[v].run, j>>] > 0
            BY <5>1, <4>2, <3>1 DEF Reached, CouriersValid, Delivering
          <6> QED BY <6>1, <5>1, <3>1, <3>2
        <5>2. CASE v = w
          <6>1. j < i => copies[<<k, j>>] > 0
            BY <2>1 DEF Reached
          <6>2. at = "deliver" => j = i \/ j < i
            BY <4>2, <5>2, <3>1, <2>1, <2>2
          <6>3. at = "finish" => j < i
            BY <4>2, <5>2, <3>1, <2>1, <2>2
          <6> QED BY <6>1, <6>2, <6>3, <5>2, <3>1, <3>2, <2>1, <2>2
        <5> QED BY <5>1, <5>2
      <4> QED BY <4>1, <4>2 DEF Reached
    <3> QED BY <3>3, <3>4, <3>5
  <2>3. ASSUME i <= Recipients, NEW n \in {0, 1}, copies' = [copies EXCEPT ![<<k, i>>] = @ + n]
        PROVE  /\ copies' \in [Letters -> Nat]
               /\ \A x \in Letters : copies'[x] >= copies[x]
               /\ n = 1 => copies'[<<k, i>>] > 0
    <3>1. <<k, i>> \in Letters
      BY <2>1, <2>3 DEF Letters
    <3>2. copies[<<k, i>>] \in Nat
      BY <3>1 DEF RunTypeOK
    <3> QED BY <2>3, <3>1, <3>2 DEF RunTypeOK
  <2>4. CASE /\ i <= Recipients /\ copies' = [copies EXCEPT ![<<k, i>>] = @ + 1]
             /\ courier' = [courier EXCEPT ![w] = Going(w, "deliver", i + 1, "none")]
    <3>1. /\ copies' \in [Letters -> Nat] /\ copies'[<<k, i>>] > 0
          /\ \A x \in Letters : copies'[x] >= copies[x]
      BY <2>3, <2>4
    <3> QED BY <2>2, <2>4, <3>1 DEF Settled
  <2>5. CASE /\ i <= Recipients /\ \E n \in {0, 1} : copies' = [copies EXCEPT ![<<k, i>>] = @ + n]
             /\ courier' = [courier EXCEPT ![w] = Going(w, "finish", i, "failed")]
    <3>1. /\ copies' \in [Letters -> Nat]
          /\ \A x \in Letters : copies'[x] >= copies[x]
      BY <2>3, <2>5
    <3> QED BY <2>2, <2>5, <3>1 DEF Settled
  <2>6. CASE UNCHANGED copies
    <3>1. /\ copies' \in [Letters -> Nat]
          /\ \A x \in Letters : copies'[x] >= copies[x]
      BY <2>6 DEF RunTypeOK
    <3>2. CASE courier' = [courier EXCEPT ![w] = Going(w, "finish", i, "skipped")]
      BY <2>2, <3>1, <3>2 DEF Settled
    <3>3. CASE i > Recipients /\ courier' = [courier EXCEPT ![w] = Going(w, "finish", i, "sent")]
      BY <2>2, <3>1, <3>3 DEF Settled
    <3> QED BY <1>5, <2>4, <2>5, <3>2, <3>3 DEF DeliverNext, AfterRefusal
  <2> QED BY <1>5, <2>4, <2>5, <2>6 DEF DeliverNext, AfterRefusal
<1>6. ASSUME NEW w \in Couriers, FinishRead(w) PROVE RunInv'
  BY <1>6 DEF FinishRead, Going, Exists, RunTypeOK, CouriersValid, Delivering, HeldByOne, Reached, SentReachedEveryone, Settled
<1>7. ASSUME NEW w \in Couriers, FinishWrite(w) PROVE RunInv'
  <2>1. RunTypeOK'
    BY <1>7 DEF FinishWrite, Exists, RunTypeOK, CouriersValid, Delivering, Resting, Settled
  <2>2. CouriersValid' /\ HeldByOne'
    BY <1>7 DEF FinishWrite, Exists, RunTypeOK, CouriersValid, Delivering, HeldByOne, Resting, Settled
  <2>3. Reached'
    BY <1>7 DEF FinishWrite, Exists, RunTypeOK, Reached, SentReachedEveryone, CouriersValid, Delivering, Resting
  <2> QED BY <2>1, <2>2, <2>3
<1>8. ASSUME NEW w \in Couriers, LoseCourier(w) PROVE RunInv'
  BY <1>8 DEF LoseCourier, RunTypeOK, CouriersValid, Delivering, HeldByOne, Reached, SentReachedEveryone, Resting
<1>9. CASE UNCHANGED runVars
  BY <1>9 DEF runVars, RunTypeOK, CouriersValid, Delivering, HeldByOne, Reached, SentReachedEveryone
<1> QED BY <1>1, <1>2, <1>3, <1>4, <1>5, <1>6, <1>7, <1>8, <1>9 DEF RunNext, CourierStep, FindNothing

-----------------------------------------------------------------------------
\* Workers that may still send a copy of run k to recipient i.
Owing(k, i) == {w \in Couriers : courier[w].at = "deliver" /\ courier[w].run = k /\ courier[w].to <= i}

(***************************************************************************)
(* Every copy a recipient got, and every one a worker may still send, has  *)
(* an attempt of the run behind it: claiming counts the attempt before the *)
(* first recipient is reached.                                             *)
(***************************************************************************)
CopiesBacked ==
  \A k \in Runs : \A i \in 1 .. Recipients : copies[<<k, i>>] + Cardinality(Owing(k, i)) <= report[k].attempts

\* Sets of workers have a size.
LEMMA CourierSets == \A S \in SUBSET Couriers : IsFiniteSet(S) /\ Cardinality(S) \in Nat
BY FS_Subset, FS_CardinalityType, ReportRunsAssumption

\* Without attempts there are no copies.
LEMMA CopiesInit == RunInit => CopiesBacked
<1> SUFFICES ASSUME RunInit, NEW k \in Runs, NEW i \in 1 .. Recipients
             PROVE  copies[<<k, i>>] + Cardinality(Owing(k, i)) <= report[k].attempts
  BY DEF CopiesBacked
<1>1. Owing(k, i) = {} /\ copies[<<k, i>>] = 0 /\ report[k].attempts = 0
  BY DEF RunInit, Owing, Resting, Letters
<1> QED BY <1>1, FS_EmptySet

(***************************************************************************)
(* Claiming adds the attempt together with the worker that may send;       *)
(* delivering turns a copy owed into a copy sent; nothing else raises      *)
(* either.                                                                 *)
(***************************************************************************)
LEMMA CopiesStep == RunInv /\ CopiesBacked /\ [RunNext]_runVars => CopiesBacked'
<1> SUFFICES ASSUME RunInv, CopiesBacked, [RunNext]_runVars, NEW k \in Runs, NEW i \in 1 .. Recipients
             PROVE  copies'[<<k, i>>] + Cardinality(Owing(k, i)') <= report'[k].attempts
  BY DEF CopiesBacked
<1> DEFINE x == <<k, i>>
           O == Cardinality(Owing(k, i))
<1>0. /\ x \in Letters /\ copies[x] \in Nat /\ O \in Nat /\ report[k].attempts \in Nat
      /\ copies[x] + O <= report[k].attempts
      /\ Owing(k, i)' \in SUBSET Couriers /\ Owing(k, i) \in SUBSET Couriers
      /\ Cardinality(Owing(k, i)') \in Nat
  BY CourierSets DEF Owing, CopiesBacked, RunInv, RunTypeOK, Letters
<1>1. ASSUME Owing(k, i)' \subseteq Owing(k, i) PROVE Cardinality(Owing(k, i)') <= O
  BY <1>0, <1>1, FS_Subset, CourierSets
<1> HIDE DEF x, O
<1>2. ASSUME copies'[x] = copies[x], report'[k].attempts = report[k].attempts, Owing(k, i)' \subseteq Owing(k, i)
      PROVE  copies'[x] + Cardinality(Owing(k, i)') <= report'[k].attempts
  BY <1>0, <1>1, <1>2
<1>3. CASE \E l \in Runs : QueueRun(l) \/ DeleteRun(l)
  <2>1. /\ UNCHANGED <<courier, copies>> /\ report'[k].attempts = report[k].attempts
    BY <1>3 DEF QueueRun, DeleteRun, RunInv, RunTypeOK
  <2>2. Owing(k, i)' \subseteq Owing(k, i)
    BY <2>1 DEF Owing
  <2> QED BY <1>2, <2>1, <2>2 DEF x
<1>4. CASE \E w \in Couriers : RecoverRun(w)
  <2>1. /\ UNCHANGED <<courier, copies>> /\ report'[k].attempts = report[k].attempts
    BY <1>4 DEF RecoverRun, Recovered, RunInv, RunTypeOK
  <2>2. Owing(k, i)' \subseteq Owing(k, i)
    BY <2>1 DEF Owing
  <2> QED BY <1>2, <2>1, <2>2 DEF x
<1>5. ASSUME NEW w \in Couriers, ClaimRun(w)
      PROVE  copies'[x] + Cardinality(Owing(k, i)') <= report'[k].attempts
  <2>1. PICK l \in Runs :
          /\ report' = [report EXCEPT ![l] = Claimed(@)]
          /\ courier' = [courier EXCEPT ![w] = [at |-> "deliver", run |-> l, to |-> 1, result |-> "none"]]
    BY <1>5 DEF ClaimRun
  <2>2. copies' = copies /\ courier[w].at = "idle"
    BY <1>5 DEF ClaimRun
  <2>3. CASE l = k
    <3>1. Owing(k, i)' = Owing(k, i) \cup {w} /\ w \notin Owing(k, i)
      BY <2>1, <2>2, <2>3 DEF Owing, RunInv, RunTypeOK
    <3>2. Cardinality(Owing(k, i)') = O + 1
      BY <1>0, <3>1, FS_AddElement, CourierSets DEF O
    <3>3. report'[k].attempts = report[k].attempts + 1
      BY <2>1, <2>3 DEF Claimed, RunInv, RunTypeOK
    <3> QED BY <1>0, <2>2, <3>2, <3>3
  <2>4. CASE l # k
    <3>1. report'[k] = report[k] /\ Owing(k, i)' \subseteq Owing(k, i)
      BY <2>1, <2>2, <2>4 DEF Owing, RunInv, RunTypeOK
    <3> QED BY <1>2, <2>2, <3>1
  <2> QED BY <2>3, <2>4
<1>6. ASSUME NEW w \in Couriers, DeliverNext(w)
      PROVE  copies'[x] + Cardinality(Owing(k, i)') <= report'[k].attempts
  <2> DEFINE j == courier[w].to
  <2>1. /\ courier[w].at = "deliver" /\ report' = report /\ j \in Nat /\ w \in Couriers
        /\ \A v \in Couriers \ {w} : courier'[v] = courier[v]
        /\ courier'[w].run = courier[w].run
        /\ courier'[w].at # "deliver" \/ courier'[w].to = j + 1
    BY <1>6 DEF DeliverNext, AfterRefusal, Going, RunInv, RunTypeOK
  <2>2. Owing(k, i)' \subseteq Owing(k, i)
    BY <2>1 DEF Owing
  <2>3. CASE courier[w].run = k /\ j = i
    <3>1. Owing(k, i)' = Owing(k, i) \ {w} /\ w \in Owing(k, i)
      BY <2>1, <2>3 DEF Owing
    <3>2. Cardinality(Owing(k, i)') = O - 1
      BY <1>0, <3>1, FS_RemoveElement, CourierSets DEF O
    <3>3. copies'[x] \in {copies[x], copies[x] + 1}
      BY <1>6, <1>0, <2>3 DEF DeliverNext, RunInv, RunTypeOK, x
    <3> QED BY <1>0, <2>1, <3>2, <3>3
  <2>4. CASE ~(courier[w].run = k /\ j = i)
    <3>1. <<courier[w].run, j>> # x
      BY <2>4 DEF x
    <3>2. copies'[x] = copies[x]
      BY <1>6, <1>0, <3>1 DEF DeliverNext, RunInv, RunTypeOK
    <3> QED BY <1>2, <2>1, <2>2, <3>2
  <2> QED BY <2>3, <2>4
<1>7. ASSUME NEW w \in Couriers, FinishRead(w) \/ FinishWrite(w) \/ LoseCourier(w)
      PROVE  copies'[x] + Cardinality(Owing(k, i)') <= report'[k].attempts
  <2>1. /\ copies' = copies /\ report'[k].attempts = report[k].attempts
        /\ \A v \in Couriers \ {w} : courier'[v] = courier[v]
        /\ courier'[w].at # "deliver"
    BY <1>7 DEF FinishRead, FinishWrite, LoseCourier, Going, Resting, RunInv, RunTypeOK
  <2>2. Owing(k, i)' \subseteq Owing(k, i)
    BY <2>1 DEF Owing
  <2> QED BY <1>2, <2>1, <2>2
<1>8. CASE UNCHANGED runVars
  <2>1. Owing(k, i)' \subseteq Owing(k, i)
    BY <1>8 DEF Owing, runVars
  <2> QED BY <1>2, <1>8, <2>1 DEF x, runVars
<1> QED
  BY <1>3, <1>4, <1>5, <1>6, <1>7, <1>8 DEF RunNext, CourierStep, FindNothing, x

(***************************************************************************)
(* processNextReportRun and finishReportRun, for any number of runs,       *)
(* recipients and workers: a run marked sent reached everyone, a recipient *)
(* gets no more copies than the run has attempts, and attempts stay within *)
(* the limit and a settled run as it is, unless it was taken from a worker *)
(* still at it (reports.go).                                               *)
(***************************************************************************)
THEOREM ReportRunsAccountedFor == RunSpec => RunsAccounted
<1>1. RunInv => ExtraAttemptsOnlyByOverlap /\ SentReachedEveryone
  BY ReportRunsAssumption DEF RunInv, HeldByOne, Reached, ExtraAttemptsOnlyByOverlap, RunTypeOK
<1>2. RunInv /\ CopiesBacked => CopiesWithinAttempts
  <2> SUFFICES ASSUME RunInv, CopiesBacked, NEW k \in Runs, NEW i \in 1 .. Recipients
               PROVE  copies[<<k, i>>] <= report[k].attempts
    BY DEF CopiesWithinAttempts
  <2>1. Cardinality(Owing(k, i)) \in Nat
    BY CourierSets DEF Owing
  <2>2. <<k, i>> \in Letters
    BY DEF Letters
  <2>3. copies[<<k, i>>] \in Nat /\ report[k].attempts \in Nat
    BY <2>2 DEF RunInv, RunTypeOK
  <2> QED BY <2>1, <2>3 DEF CopiesBacked
<1>3. RunInv /\ [RunNext]_runVars =>
        [\A k \in Runs : report[k].status \in Settled =>
           report'[k].status \in {report[k].status, "deleted"} \/ k \in overtaken]_runVars
  <2> SUFFICES ASSUME RunInv, RunNext, NEW k \in Runs, report[k].status \in Settled, k \notin overtaken
               PROVE  report'[k].status \in {report[k].status, "deleted"}
    OBVIOUS
  <2>1. CASE \E l \in Runs : QueueRun(l) \/ DeleteRun(l)
    BY <2>1 DEF QueueRun, DeleteRun, Settled, RunInv, RunTypeOK
  <2>2. CASE \E w \in Couriers : RecoverRun(w) \/ ClaimRun(w)
    BY <2>2 DEF RecoverRun, ClaimRun, Claimable, Settled, RunInv, RunTypeOK
  <2>3. CASE \E w \in Couriers : FinishWrite(w)
    BY <2>3 DEF FinishWrite, Exists, Settled, RunInv, RunTypeOK, HeldByOne, Delivering
  <2>4. CASE UNCHANGED report
    BY <2>4
  <2> QED BY <2>1, <2>2, <2>3, <2>4 DEF RunNext, CourierStep, DeliverNext, FinishRead, LoseCourier, FindNothing, runVars
<1> QED BY <1>1, <1>2, <1>3, RunInvInit, RunInvStep, CopiesInit, CopiesStep, PTL DEF RunSpec, RunsAccounted, SettledStays

-----------------------------------------------------------------------------
\* A due time: the schedule, its hour of sending and the moment it falls due.
DueRec == [schedule : Schedules, sendAt : Nat, time : Nat]
\* The row of a schedule.
SettingsRec == [life : {"new", "live", "deleted"}, active : BOOLEAN, sendAt : Nat, next : Nat]
\* Where a worker of processDueReportSchedules is, with the due times it has read and not yet dealt with.
PlannerRec == [at : {"idle", "queue", "advance"}, due : SUBSET DueRec]

\* A worker holds due times exactly while it is at work.
PlanTypeOK ==
  /\ hour \in Nat
  /\ schedule \in [Schedules -> SettingsRec]
  /\ planner \in [Planners -> PlannerRec]
  /\ \A w \in Planners : planner[w].due = {} <=> planner[w].at = "idle"

Holds(w, d) == d \in planner[w].due
(***************************************************************************)
(* A due time in a worker's hands has come, and its hour is the            *)
(* schedule's, unless the schedule was saved meanwhile.                    *)
(***************************************************************************)
HeldTrue ==
  \A w \in Planners : \A d \in planner[w].due :
    /\ schedule[d.schedule].life # "new" /\ d.time <= hour
    /\ d.sendAt = schedule[d.schedule].sendAt \/ d.schedule \in outdated

\* A queued run is of a live schedule and of a time that has come: deleting a schedule deletes its runs.
QueuedTrue ==
  \A x \in queuedFor :
    x.due \in DueRec /\ Live(x.due.schedule) /\ x.due.time <= hour /\ x.key[1] = x.due.schedule

\* Some run was queued for the due time.
Queued(d) == \E x \in queuedFor : x.due = d
\* The worker has queued the due time and is about to move the schedule on.
Answering(w, d) == planner[w].at = "advance" /\ d = Chosen(w)

\* A due time that no two workers held and no fault concerns.
DueInv(d) ==
  /\ \A v, w \in Planners : Holds(v, d) /\ Holds(w, d) => v = w
  /\ \A x, y \in queuedFor : x.due = d /\ y.due = d => x.key = y.key
  /\ Queued(d) => schedule[d.schedule].next > d.time \/ \E w \in Planners : Answering(w, d)
  /\ \A w \in Planners : Holds(w, d) /\ Queued(d) => Answering(w, d)

DuesTrue == \A d \in DueRec : d \notin troubled => DueInv(d)

\* A worker about to move a live schedule on has queued the run, or a fault concerns that due time.
AnsweredTrue ==
  \A w \in Planners :
    planner[w].at = "advance" /\ Live(Chosen(w).schedule) => Chosen(w) \in troubled \/ Queued(Chosen(w))

PlanInv ==
  PlanTypeOK /\ HeldTrue /\ QueuedTrue /\ DuesTrue /\ AnsweredTrue /\ DueTimeNotLost /\ NextRunFollowsSettings

\* No schedule exists and nobody works.
LEMMA PlanInvInit == PlanInit => PlanInv
<1> SUFFICES ASSUME PlanInit PROVE PlanInv
  OBVIOUS
<1>1. /\ hour = 0 /\ queuedFor = {} /\ passedOver = {} /\ planner = [w \in Planners |-> AtRest]
      /\ schedule = [s \in Schedules |-> Settings("new", FALSE, 0, 0)]
  BY DEF PlanInit
<1>2. \A w \in Planners : planner[w].at = "idle" /\ planner[w].due = {}
  BY <1>1 DEF AtRest
<1>3. PlanTypeOK
  BY <1>1, <1>2 DEF PlanTypeOK, AtRest, PlannerRec, Settings, SettingsRec
<1>4. \A s \in Schedules : ~Live(s)
  BY <1>1 DEF Live, Settings
<1> QED BY <1>1, <1>2, <1>3, <1>4
        DEF PlanInv, HeldTrue, QueuedTrue, DuesTrue, DueInv, Queued, Holds, AnsweredTrue, DueTimeNotLost,
            NextRunFollowsSettings

\* The due time a worker deals with is one it holds.
LEMMA ChosenHeld ==
  ASSUME NEW w \in Planners, planner[w].due # {} PROVE Chosen(w) \in planner[w].due
BY DEF Chosen

\* A worker deals with the same due time as long as it holds the same ones.
LEMMA ChosenSame ==
  ASSUME NEW w \in Planners, planner'[w].due = planner[w].due PROVE Chosen(w)' = Chosen(w)
BY DEF Chosen

\* A worker with nothing left is idle, and otherwise queues next.
LEMMA QueueingFields ==
  ASSUME NEW due \in SUBSET DueRec
  PROVE  /\ Queueing(due) \in PlannerRec /\ Queueing(due).due = due /\ Queueing(due).at # "advance"
         /\ due = {} <=> Queueing(due).at = "idle"
<1>1. CASE due = {}
  BY <1>1 DEF Queueing, AtRest, PlannerRec
<1>2. CASE due # {}
  BY <1>2 DEF Queueing, PlannerRec
<1> QED BY <1>1, <1>2

\* The owner's edits: next_run_at does not go back, and no deleted schedule comes back.
LEMMA EditStep ==
  ASSUME PlanInv, NEW s \in Schedules, NEW now \in SettingsRec, schedule' = [schedule EXCEPT ![s] = now],
         schedule[s].life = "deleted" => now.life = "deleted", now.life # "new",
         schedule[s].life = "live" \/ now.life = "live",
         UNCHANGED <<hour, planner, troubled>>,
         now.next = schedule[s].next \/ now.next > hour,
         now.life # "live" => queuedFor' = {x \in queuedFor : x.key[1] # s},
         now.life # "live" => passedOver' = {d \in passedOver : d.schedule # s},
         now.life = "live" => UNCHANGED <<queuedFor, passedOver>>,
         \A t \in Schedules \ {s} : t \in outdated <=> t \in outdated',
         now.sendAt = schedule[s].sendAt \/ s \notin HeldSchedules \/ s \in outdated',
         s \in outdated => s \in outdated' \/ s \notin HeldSchedules,
         now.life = "live" => now.next % Cycle = now.sendAt
  PROVE  PlanInv'
<1> USE DEF PlanInv
<1>1. schedule'[s] = now /\ \A t \in Schedules \ {s} : schedule'[t] = schedule[t]
  BY DEF PlanTypeOK
<1>2. PlanTypeOK'
  BY DEF PlanTypeOK
<1>3. \A w \in Planners : Chosen(w)' = Chosen(w)
  BY ChosenSame
<1>4. \A w \in Planners : \A d \in planner[w].due : d \in DueRec /\ d.schedule \in Schedules /\ d.schedule \in HeldSchedules
  BY DEF PlanTypeOK, PlannerRec, HeldSchedules, DueRec
<1>5. \A t \in Schedules : t \in HeldSchedules => schedule[t].life # "new"
  BY DEF HeldTrue, HeldSchedules
<1>6. HeldTrue'
  BY <1>1, <1>4 DEF HeldTrue
<1>7. QueuedTrue'
  <2>1. CASE now.life = "live"
    BY <1>1, <2>1 DEF QueuedTrue, Live, DueRec
  <2>2. CASE now.life # "live"
    BY <1>1, <2>2 DEF QueuedTrue, Live, DueRec
  <2> QED BY <2>1, <2>2
<1>8. \A d \in DueRec : Queued(d)' => Queued(d)
  BY DEF Queued
<1>9. DuesTrue'
  <2> SUFFICES ASSUME NEW d \in DueRec, d \notin troubled PROVE DueInv(d)'
    BY DEF DuesTrue
  <2>1. DueInv(d) /\ d.schedule \in Schedules
    BY DEF DuesTrue, DueRec
  <2>2. queuedFor' \subseteq queuedFor
    OBVIOUS
  <2>3. \A w \in Planners : (Holds(w, d)' <=> Holds(w, d)) /\ (Answering(w, d)' <=> Answering(w, d))
    BY <1>3 DEF Holds, Answering
  <2>4. Queued(d) => d.time <= hour
    BY DEF Queued, QueuedTrue
  <2>5. Queued(d)' => schedule'[d.schedule].next > d.time \/ \E w \in Planners : Answering(w, d)'
    <3> SUFFICES ASSUME Queued(d)' PROVE schedule'[d.schedule].next > d.time \/ \E w \in Planners : Answering(w, d)'
      OBVIOUS
    <3>1. Queued(d) /\ (schedule[d.schedule].next > d.time \/ \E w \in Planners : Answering(w, d))
      BY <1>8, <2>1 DEF DueInv
    <3>2. now.next > hour => now.next > d.time
      BY <2>4, <3>1 DEF PlanTypeOK, SettingsRec, DueRec
    <3> QED BY <1>1, <2>1, <2>3, <3>1, <3>2
  <2> QED BY <1>8, <2>1, <2>2, <2>3, <2>5 DEF DueInv
<1>10. AnsweredTrue'
  <2> SUFFICES ASSUME NEW w \in Planners, planner[w].at = "advance", Live(Chosen(w).schedule)',
                      Chosen(w) \notin troubled
               PROVE  Queued(Chosen(w))'
    BY <1>3 DEF AnsweredTrue
  <2>1. PICK d \in planner[w].due : d = Chosen(w)
    BY ChosenHeld DEF PlanTypeOK
  <2>2. d \in DueRec /\ d.schedule \in Schedules /\ schedule[d.schedule].life # "new"
    BY <1>4, <1>5
  <2>3. schedule'[d.schedule].life = "live"
    BY <1>3, <2>1 DEF Live
  <2>4. Live(d.schedule)
    BY <1>1, <2>2, <2>3 DEF Live, PlanTypeOK, SettingsRec
  <2>5. PICK x \in queuedFor : x.due = d
    BY <2>1, <2>4 DEF AnsweredTrue, Queued
  <2>6. x \in queuedFor'
    <3>1. CASE d.schedule = s
      BY <1>1, <2>3, <3>1
    <3>2. CASE d.schedule # s
      BY <2>5, <3>2 DEF QueuedTrue
    <3> QED BY <3>1, <3>2
  <2>7. Chosen(w)' = d
    BY <1>3, <2>1
  <2> QED BY <2>5, <2>6, <2>7 DEF Queued
<1>11. DueTimeNotLost'
  <2>1. CASE now.life = "live"
    BY <2>1 DEF DueTimeNotLost
  <2>2. CASE now.life # "live"
    <3> SUFFICES ASSUME NEW d \in passedOver, d.schedule # s, d \notin troubled PROVE \E x \in queuedFor' : x.due = d
      BY <2>2 DEF DueTimeNotLost
    <3>1. PICK x \in queuedFor : x.due = d
      BY DEF DueTimeNotLost
    <3>2. x.key[1] # s
      BY <3>1 DEF QueuedTrue
    <3> QED BY <2>2, <3>1, <3>2
  <2> QED BY <2>1, <2>2
<1>12. NextRunFollowsSettings'
  BY <1>1 DEF NextRunFollowsSettings, Live
<1> QED BY <1>2, <1>6, <1>7, <1>9, <1>10, <1>11, <1>12

\* Saving computes the next run from the present hour and the new settings.
LEMMA SaveStep ==
  ASSUME PlanInv, NEW s \in Schedules, NEW on \in BOOLEAN, NEW sendAt \in 0 .. Cycle - 1,
         SaveSchedule(s, on, sendAt)
  PROVE  PlanInv'
<1>1. /\ schedule[s].life # "deleted" /\ UNCHANGED <<hour, planner, queuedFor, passedOver, troubled>>
      /\ outdated' = IF s \in HeldSchedules THEN outdated \cup {s} ELSE outdated \ {s}
  BY DEF SaveSchedule
<1>2. PICK next \in NextReportRun(sendAt, hour) : schedule' = [schedule EXCEPT ![s] = Settings("live", on, sendAt, next)]
  BY DEF SaveSchedule
<1>3. hour \in Nat /\ Cycle \in Nat \ {0}
  BY SchedulesAssumption DEF PlanInv, PlanTypeOK
<1>4. next \in Nat /\ next > hour /\ next % Cycle = sendAt /\ sendAt \in Nat
  BY <1>3 DEF NextReportRun
<1>5. PICK now : now = Settings("live", on, sendAt, next)
  OBVIOUS
<1>6. now \in SettingsRec /\ now.life = "live" /\ now.sendAt = sendAt /\ now.next = next
  BY <1>4, <1>5 DEF Settings, SettingsRec
<1>7. schedule' = [schedule EXCEPT ![s] = now]
  BY <1>2, <1>5
<1> QED BY <1>1, <1>4, <1>6, <1>7, EditStep

\* Deleting takes the schedule's runs along.
LEMMA DeleteStep ==
  ASSUME PlanInv, NEW s \in Schedules, DeleteSchedule(s) PROVE PlanInv'
<1>1. /\ schedule[s].life = "live" /\ UNCHANGED <<hour, planner, troubled, outdated>>
      /\ queuedFor' = {x \in queuedFor : x.key[1] # s} /\ passedOver' = {d \in passedOver : d.schedule # s}
  BY DEF DeleteSchedule, Live
<1>2. schedule[s] \in SettingsRec
  BY DEF PlanInv, PlanTypeOK
<1>3. PICK now : now = Settings("deleted", schedule[s].active, schedule[s].sendAt, schedule[s].next)
  OBVIOUS
<1>4. now \in SettingsRec /\ now.life = "deleted" /\ now.sendAt = schedule[s].sendAt /\ now.next = schedule[s].next
  BY <1>2, <1>3 DEF Settings, SettingsRec
<1>5. schedule' = [schedule EXCEPT ![s] = now]
  BY <1>3 DEF DeleteSchedule, PlanInv, PlanTypeOK
<1> QED BY <1>1, <1>4, <1>5, EditStep

\* One worker's step leaves the others where they are.
LEMMA OnePlanner ==
  ASSUME NEW w \in Planners, NEW next, PlanTypeOK, planner' = [planner EXCEPT ![w] = next]
  PROVE  planner'[w] = next /\ \A v \in Planners \ {w} : planner'[v] = planner[v]
BY DEF PlanTypeOK

\* Reading the due schedules: a time another worker holds becomes one two workers answer.
LEMMA ReadStep == ASSUME PlanInv, NEW w \in Planners, ReadDue(w) PROVE PlanInv'
<1> USE DEF PlanInv
<1>1. PICK due : due = {[schedule |-> s, sendAt |-> schedule[s].sendAt, time |-> schedule[s].next] :
                          s \in {x \in Schedules : Live(x) /\ schedule[x].active /\ schedule[x].next <= hour}}
  OBVIOUS
<1>2. /\ planner[w].at = "idle" /\ planner' = [planner EXCEPT ![w] = Queueing(due)]
      /\ troubled' = troubled \cup {d \in due : \E v \in Planners : d \in planner[v].due}
      /\ UNCHANGED <<hour, schedule, queuedFor, passedOver, outdated>>
  BY <1>1 DEF ReadDue
<1>3. \A d \in due : /\ d \in DueRec /\ Live(d.schedule) /\ d.sendAt = schedule[d.schedule].sendAt
                     /\ d.time = schedule[d.schedule].next /\ d.time <= hour
  BY <1>1 DEF DueRec, PlanTypeOK, SettingsRec
<1>4. due \in SUBSET DueRec
  BY <1>3
<1>5. planner'[w] = Queueing(due) /\ \A v \in Planners \ {w} : planner'[v] = planner[v]
  BY <1>2, OnePlanner
<1>6. /\ planner'[w] \in PlannerRec /\ planner'[w].due = due /\ planner'[w].at # "advance"
      /\ due = {} <=> planner'[w].at = "idle"
  BY <1>4, <1>5, QueueingFields
<1>7. planner[w].due = {}
  BY <1>2 DEF PlanTypeOK
<1>8. PlanTypeOK'
  <2>1. planner' \in [Planners -> PlannerRec]
    BY <1>2, <1>5, <1>6 DEF PlanTypeOK
  <2> QED BY <1>2, <1>5, <1>6, <2>1 DEF PlanTypeOK
<1>9. HeldTrue'
  BY <1>2, <1>3, <1>5, <1>6 DEF HeldTrue, Live
<1>10. QueuedTrue'
  BY <1>2 DEF QueuedTrue, Live
<1>11. \A v \in Planners : planner'[v].at = "advance" => v # w /\ planner[v].at = "advance" /\ Chosen(v)' = Chosen(v)
  BY <1>5, <1>6, ChosenSame
<1>12. DuesTrue'
  <2> SUFFICES ASSUME NEW d \in DueRec, d \notin troubled' PROVE DueInv(d)'
    BY DEF DuesTrue
  <2>1. DueInv(d)
    BY <1>2 DEF DuesTrue
  <2>2. Queued(d)' <=> Queued(d)
    BY <1>2 DEF Queued
  <2>3. \A v \in Planners : Answering(v, d)' <=> Answering(v, d)
    BY <1>2, <1>5, <1>6, <1>11, ChosenSame DEF Answering
  <2>4. CASE d \in due
    <3>1. \A v \in Planners : ~Holds(v, d)
      BY <1>2, <2>4 DEF Holds
    <3>2. \A v \in Planners : ~Answering(v, d)
      BY <3>1, ChosenHeld DEF Answering, Holds, PlanTypeOK
    <3>3. ~(schedule[d.schedule].next > d.time)
      BY <1>3, <2>4 DEF DueRec
    <3>4. ~Queued(d)
      BY <2>1, <3>2, <3>3 DEF DueInv
    <3>5. \A v \in Planners : Holds(v, d)' => v = w
      BY <1>5, <3>1 DEF Holds
    <3> QED BY <1>2, <2>1, <2>2, <3>4, <3>5 DEF DueInv
  <2>5. CASE d \notin due
    <3>1. \A v \in Planners : Holds(v, d)' <=> Holds(v, d)
      BY <1>5, <1>6, <1>7, <2>5 DEF Holds
    <3> QED BY <1>2, <2>1, <2>2, <2>3, <3>1 DEF DueInv
  <2> QED BY <2>4, <2>5
<1>13. AnsweredTrue'
  BY <1>2, <1>11 DEF AnsweredTrue, Live, Queued
<1>14. DueTimeNotLost' /\ NextRunFollowsSettings'
  BY <1>2 DEF DueTimeNotLost, NextRunFollowsSettings, Live
<1> QED BY <1>8, <1>9, <1>10, <1>12, <1>13, <1>14

\* Queueing a run: the row of the unique key is found or added.
LEMMA QueueStep == ASSUME PlanInv, NEW w \in Planners, QueueDue(w) PROVE PlanInv'
<1> USE DEF PlanInv
<1>1. /\ planner[w].at = "queue" /\ planner' = [planner EXCEPT ![w] = [at |-> "advance", due |-> planner[w].due]]
      /\ UNCHANGED <<hour, schedule, passedOver, outdated>>
  BY DEF QueueDue, PlanTypeOK
<1>2. PICK d \in planner[w].due : d = Chosen(w)
  BY <1>1, ChosenHeld DEF PlanTypeOK
<1>3. d \in DueRec /\ d.schedule \in Schedules
  BY DEF PlanTypeOK, PlannerRec, DueRec
<1>4. \/ /\ queuedFor' = queuedFor \cup {[due |-> d, key |-> k] : k \in QueueReportRun(d)}
         /\ UNCHANGED troubled
      \/ troubled' = troubled \cup {d} /\ UNCHANGED queuedFor
  BY <1>2 DEF QueueDue
<1>5. /\ planner'[w].at = "advance" /\ planner'[w].due = planner[w].due /\ planner'[w] \in PlannerRec
      /\ \A v \in Planners \ {w} : planner'[v] = planner[v]
  <2>1. planner'[w] = [at |-> "advance", due |-> planner[w].due] /\ \A v \in Planners \ {w} : planner'[v] = planner[v]
    BY <1>1, OnePlanner
  <2>2. planner[w].due \in SUBSET DueRec
    BY DEF PlanTypeOK, PlannerRec
  <2> QED BY <2>1, <2>2 DEF PlannerRec
<1>6. \A v \in Planners : planner'[v].due = planner[v].due /\ Chosen(v)' = Chosen(v)
  BY <1>5, ChosenSame
<1>7. PlanTypeOK'
  <2>1. planner' \in [Planners -> PlannerRec]
    BY <1>1, <1>5 DEF PlanTypeOK
  <2> QED BY <1>1, <1>5, <2>1 DEF PlanTypeOK
<1>8. HeldTrue'
  BY <1>1, <1>6 DEF HeldTrue
<1>9. NextRunFollowsSettings'
  BY <1>1 DEF NextRunFollowsSettings, Live
<1>10. \A e \in DueRec, v \in Planners :
         /\ Holds(v, e)' <=> Holds(v, e)
         /\ Answering(v, e) => Answering(v, e)'
  BY <1>1, <1>5, <1>6 DEF Holds, Answering
<1>11. Answering(w, d)'
  BY <1>2, <1>5, <1>6 DEF Answering
<1>12. QueueReportRun(d) = IF Live(d.schedule) THEN {<<d.schedule, hour>>} ELSE {}
  BY DEF QueueReportRun
<1>13. CASE Live(d.schedule) /\ queuedFor' = queuedFor \cup {[due |-> d, key |-> k] : k \in QueueReportRun(d)} /\ UNCHANGED troubled
  <2>1. PICK y : y = [due |-> d, key |-> <<d.schedule, hour>>]
    OBVIOUS
  <2>2. y.due = d /\ y.key = <<d.schedule, hour>> /\ y.key[1] = d.schedule
    BY <2>1
  <2>3. queuedFor' = queuedFor \cup {y}
    BY <1>12, <1>13, <2>1
  <2>4. d.time <= hour
    BY DEF HeldTrue
  <2>5. QueuedTrue'
    BY <1>1, <1>3, <1>13, <2>2, <2>3, <2>4 DEF QueuedTrue, Live
  <2>6. \A e \in DueRec : Queued(e)' <=> Queued(e) \/ e = d
    BY <2>2, <2>3 DEF Queued
  <2>7. DuesTrue'
    <3> SUFFICES ASSUME NEW e \in DueRec, e \notin troubled PROVE DueInv(e)'
      BY <1>13 DEF DuesTrue
    <3>1. DueInv(e)
      BY DEF DuesTrue
    <3>2. CASE e # d
      <4>1. \A x \in queuedFor' : x.due = e => x \in queuedFor
        BY <2>2, <2>3, <3>2
      <4> QED BY <1>1, <1>10, <2>6, <3>1, <3>2, <4>1 DEF DueInv
    <3>3. CASE e = d
      <4>1. ~Queued(d)
        BY <1>1, <3>1, <3>3 DEF DueInv, Holds, Answering
      <4>2. \A x \in queuedFor' : x.due = d => x = y
        BY <2>3, <4>1 DEF Queued
      <4>3. \A v \in Planners : Holds(v, d)' => v = w
        BY <1>10, <3>1, <3>3 DEF DueInv, Holds
      <4>4. Holds(w, d)'
        BY <1>6 DEF Holds
      <4> QED BY <1>11, <3>3, <4>2, <4>3, <4>4 DEF DueInv
    <3> QED BY <3>2, <3>3
  <2>8. AnsweredTrue'
    <3> SUFFICES ASSUME NEW v \in Planners, planner'[v].at = "advance", Live(Chosen(v).schedule), Chosen(v) \notin troubled
                 PROVE  Queued(Chosen(v))'
      BY <1>1, <1>6, <1>13 DEF AnsweredTrue, Live
    <3>1. CASE v = w
      BY <1>2, <1>6, <2>2, <2>3, <3>1 DEF Queued
    <3>2. CASE v # w
      <4>1. Queued(Chosen(v))
        BY <1>5, <3>2 DEF AnsweredTrue
      <4> QED BY <1>6, <2>3, <4>1 DEF Queued
    <3> QED BY <3>1, <3>2
  <2>9. DueTimeNotLost'
    BY <1>1, <1>13, <2>3 DEF DueTimeNotLost
  <2> QED BY <1>7, <1>8, <1>9, <2>5, <2>7, <2>8, <2>9
<1>14. CASE /\ UNCHANGED queuedFor
            /\ \/ troubled' = troubled \cup {d}
               \/ UNCHANGED troubled /\ ~Live(d.schedule)
  <2>1. QueuedTrue'
    BY <1>1, <1>14 DEF QueuedTrue, Live
  <2>2. \A e \in DueRec : Queued(e)' <=> Queued(e)
    BY <1>14 DEF Queued
  <2>3. DuesTrue'
    <3> SUFFICES ASSUME NEW e \in DueRec, e \notin troubled' PROVE DueInv(e)'
      BY DEF DuesTrue
    <3>1. DueInv(e)
      BY <1>14 DEF DuesTrue
    <3> QED BY <1>1, <1>10, <1>14, <2>2, <3>1 DEF DueInv
  <2>4. AnsweredTrue'
    <3> SUFFICES ASSUME NEW v \in Planners, planner'[v].at = "advance", Live(Chosen(v).schedule), Chosen(v) \notin troubled'
                 PROVE  Queued(Chosen(v))'
      BY <1>1, <1>6 DEF AnsweredTrue, Live
    <3>1. v # w
      BY <1>2, <1>14
    <3>2. Queued(Chosen(v))
      BY <1>5, <1>14, <3>1 DEF AnsweredTrue
    <3> QED BY <1>6, <1>14, <3>2 DEF Queued
  <2>5. DueTimeNotLost'
    BY <1>1, <1>14 DEF DueTimeNotLost
  <2> QED BY <1>7, <1>8, <1>9, <2>1, <2>3, <2>4, <2>5
<1> QED BY <1>4, <1>12, <1>13, <1>14

\* Moving the schedule on, where it is still live.
LEMMA AdvanceStep == ASSUME PlanInv, NEW w \in Planners, Advance(w) PROVE PlanInv'
<1> USE DEF PlanInv
<1>0. planner[w].at = "advance"
  BY DEF Advance
<1>1. PICK d \in planner[w].due : d = Chosen(w)
  BY <1>0, ChosenHeld DEF PlanTypeOK
<1>2. PICK rest : rest = planner[w].due \ {d}
  OBVIOUS
<1>3. /\ planner' = [planner EXCEPT ![w] = Queueing(rest)]
      /\ UNCHANGED <<hour, queuedFor, troubled, outdated>>
      /\ IF Live(d.schedule)
           THEN /\ \E next \in NextReportRun(d.sendAt, hour) :
                     schedule' = [schedule EXCEPT ![d.schedule] = Settings(@.life, @.active, @.sendAt, next)]
                /\ passedOver' = passedOver \cup {d}
           ELSE UNCHANGED <<schedule, passedOver>>
  BY <1>1, <1>2 DEF Advance, PlanTypeOK
<1>4. d \in DueRec /\ d.schedule \in Schedules /\ rest \in SUBSET DueRec /\ d.sendAt \in Nat
  BY <1>2 DEF PlanTypeOK, PlannerRec, DueRec
<1>5. planner'[w] = Queueing(rest) /\ \A v \in Planners \ {w} : planner'[v] = planner[v]
  BY <1>3, OnePlanner
<1>6. /\ planner'[w] \in PlannerRec /\ planner'[w].due = rest /\ planner'[w].at # "advance"
      /\ rest = {} <=> planner'[w].at = "idle"
  BY <1>4, <1>5, QueueingFields
\* next_run_at moves beyond the present, other settings stay.
<1>7. /\ schedule' \in [Schedules -> SettingsRec]
      /\ \A t \in Schedules : schedule'[t].life = schedule[t].life /\ schedule'[t].sendAt = schedule[t].sendAt
      /\ \A t \in Schedules \ {d.schedule} : schedule'[t] = schedule[t]
      /\ Live(d.schedule) => schedule'[d.schedule].next > hour /\ schedule'[d.schedule].next % Cycle = d.sendAt
      /\ ~Live(d.schedule) => schedule' = schedule
  <2>1. CASE Live(d.schedule)
    <3>1. PICK next \in NextReportRun(d.sendAt, hour) :
             schedule' = [schedule EXCEPT ![d.schedule] = Settings(@.life, @.active, @.sendAt, next)]
      BY <1>3, <2>1
    <3>2. hour \in Nat /\ Cycle \in Nat \ {0}
      BY SchedulesAssumption DEF PlanTypeOK
    <3>3. next \in Nat /\ next > hour /\ next % Cycle = d.sendAt
      BY <3>2 DEF NextReportRun
    <3>4. PICK old : old = schedule[d.schedule]
      OBVIOUS
    <3>5. old \in SettingsRec
      BY <1>4, <3>4 DEF PlanTypeOK
    <3>6. PICK now : now = Settings(old.life, old.active, old.sendAt, next)
      OBVIOUS
    <3>7. now \in SettingsRec /\ now.life = old.life /\ now.sendAt = old.sendAt /\ now.next = next
      BY <3>3, <3>5, <3>6 DEF Settings, SettingsRec
    <3>8. schedule' = [schedule EXCEPT ![d.schedule] = now]
      BY <3>1, <3>4, <3>6 DEF PlanTypeOK
    <3>9. schedule'[d.schedule] = now /\ \A t \in Schedules \ {d.schedule} : schedule'[t] = schedule[t]
      BY <1>4, <3>8 DEF PlanTypeOK
    <3>10. schedule' \in [Schedules -> SettingsRec]
      BY <3>7, <3>8 DEF PlanTypeOK
    <3> QED BY <2>1, <3>3, <3>4, <3>7, <3>9, <3>10
  <2>2. CASE ~Live(d.schedule)
    BY <1>3, <2>2 DEF PlanTypeOK
  <2> QED BY <2>1, <2>2
<1>8. PlanTypeOK'
  <2>1. planner' \in [Planners -> PlannerRec]
    BY <1>3, <1>5, <1>6 DEF PlanTypeOK
  <2> QED BY <1>3, <1>5, <1>6, <1>7, <2>1 DEF PlanTypeOK
<1>9. \A v \in Planners : planner'[v].due \subseteq planner[v].due
  BY <1>2, <1>5, <1>6
<1>10. HeldTrue'
  <2>1. \A v \in Planners : \A e \in planner[v].due : e.schedule \in Schedules
    BY DEF PlanTypeOK, PlannerRec, DueRec
  <2> QED BY <1>3, <1>7, <1>9, <2>1 DEF HeldTrue
<1>11. QueuedTrue'
  BY <1>3, <1>7 DEF QueuedTrue, Live, DueRec
<1>12. \A v \in Planners : planner'[v].at = "advance" => v # w /\ planner[v].at = "advance" /\ Chosen(v)' = Chosen(v)
  BY <1>5, <1>6, ChosenSame
<1>13. DuesTrue'
  <2> SUFFICES ASSUME NEW e \in DueRec, e \notin troubled PROVE DueInv(e)'
    BY <1>3 DEF DuesTrue
  <2>1. DueInv(e) /\ e.schedule \in Schedules
    BY DEF DuesTrue, DueRec
  <2>2. Queued(e)' <=> Queued(e)
    BY <1>3 DEF Queued
  <2>3. \A v \in Planners : Holds(v, e)' => Holds(v, e)
    BY <1>9 DEF Holds
  <2>4. \A v \in Planners \ {w} : Answering(v, e) => Answering(v, e)'
    BY <1>5, ChosenSame DEF Answering
  <2>5. Holds(w, e)' => e # d
    BY <1>2, <1>6 DEF Holds
  <2>6. Answering(w, e) => e = d
    BY <1>1 DEF Answering
  <2>7. Queued(e) /\ e.schedule = d.schedule => schedule'[e.schedule].next > e.time
    <3> SUFFICES ASSUME Queued(e), e.schedule = d.schedule PROVE schedule'[e.schedule].next > e.time
      OBVIOUS
    <3>1. Live(d.schedule) /\ e.time <= hour
      BY DEF Queued, QueuedTrue
    <3>2. schedule'[d.schedule].next \in Nat /\ hour \in Nat /\ e.time \in Nat
      BY <1>4, <1>7 DEF PlanTypeOK, SettingsRec, DueRec
    <3> QED BY <1>7, <3>1, <3>2
  <2>8. Queued(e) => schedule'[e.schedule].next > e.time \/ \E v \in Planners : Answering(v, e)'
    BY <1>7, <2>1, <2>4, <2>6, <2>7 DEF DueInv
  <2>9. \A v \in Planners : Holds(v, e)' /\ Queued(e) => Answering(v, e)'
    BY <2>1, <2>3, <2>4, <2>5, <2>6 DEF DueInv
  <2> QED BY <1>3, <2>1, <2>2, <2>3, <2>8, <2>9 DEF DueInv
<1>14. \A v \in Planners : planner[v].at = "advance" => Chosen(v).schedule \in Schedules
  BY ChosenHeld DEF PlanTypeOK, PlannerRec, DueRec
<1>15. AnsweredTrue'
  BY <1>3, <1>7, <1>12, <1>14 DEF AnsweredTrue, Live, Queued
<1>16. DueTimeNotLost'
  <2>1. Live(d.schedule) => d \in troubled \/ Queued(d)
    BY <1>0, <1>1 DEF AnsweredTrue
  <2> QED BY <1>3, <2>1 DEF DueTimeNotLost, Queued
<1>17. NextRunFollowsSettings'
  <2>1. d.sendAt = schedule[d.schedule].sendAt \/ d.schedule \in outdated
    BY DEF HeldTrue
  <2> QED BY <1>3, <1>4, <1>7, <2>1 DEF NextRunFollowsSettings, Live
<1> QED BY <1>8, <1>10, <1>11, <1>13, <1>15, <1>16, <1>17

\* A lost worker leaves its due times to the next reading.
LEMMA LoseStep == ASSUME PlanInv, NEW w \in Planners, LosePlanner(w) PROVE PlanInv'
<1> USE DEF PlanInv
<1>1. /\ troubled' = troubled \cup planner[w].due /\ planner' = [planner EXCEPT ![w] = AtRest]
      /\ UNCHANGED <<hour, schedule, queuedFor, passedOver, outdated>>
  BY DEF LosePlanner
<1>2. planner'[w] = AtRest /\ \A v \in Planners \ {w} : planner'[v] = planner[v]
  BY <1>1, OnePlanner
<1>3. planner'[w].at = "idle" /\ planner'[w].due = {} /\ planner'[w] \in PlannerRec
  BY <1>2 DEF AtRest, PlannerRec
<1>4. PlanTypeOK'
  <2>1. planner' \in [Planners -> PlannerRec]
    BY <1>1, <1>2, <1>3 DEF PlanTypeOK
  <2> QED BY <1>1, <1>2, <1>3, <2>1 DEF PlanTypeOK
<1>5. HeldTrue'
  BY <1>1, <1>2, <1>3 DEF HeldTrue
<1>6. QueuedTrue'
  BY <1>1 DEF QueuedTrue, Live
<1>7. \A v \in Planners : planner'[v].at = "advance" => v # w /\ planner[v].at = "advance" /\ Chosen(v)' = Chosen(v)
  BY <1>2, <1>3, ChosenSame
<1>8. DuesTrue'
  <2> SUFFICES ASSUME NEW e \in DueRec, e \notin troubled' PROVE DueInv(e)'
    BY DEF DuesTrue
  <2>1. DueInv(e) /\ ~Holds(w, e)
    BY <1>1 DEF DuesTrue, Holds
  <2>2. Queued(e)' <=> Queued(e)
    BY <1>1 DEF Queued
  <2>3. \A v \in Planners : Holds(v, e)' <=> Holds(v, e)
    BY <1>2, <1>3, <2>1 DEF Holds
  <2>4. ~Answering(w, e)
    BY <2>1, ChosenHeld DEF Answering, Holds, PlanTypeOK
  <2>5. \A v \in Planners : Answering(v, e) => Answering(v, e)'
    BY <1>2, <2>4, ChosenSame DEF Answering
  <2> QED BY <1>1, <2>1, <2>2, <2>3, <2>5 DEF DueInv
<1>9. AnsweredTrue'
  BY <1>1, <1>7 DEF AnsweredTrue, Live, Queued
<1>10. DueTimeNotLost' /\ NextRunFollowsSettings'
  BY <1>1 DEF DueTimeNotLost, NextRunFollowsSettings, Live
<1> QED BY <1>4, <1>5, <1>6, <1>8, <1>9, <1>10

\* As time passes nothing that was due ceases to be.
LEMMA TimeStep ==
  ASSUME PlanInv, UNCHANGED <<schedule, planner, queuedFor, passedOver, troubled, outdated>>,
         hour' \in Nat, hour' >= hour
  PROVE  PlanInv'
<1> USE DEF PlanInv
<1>1. \A w \in Planners : Chosen(w)' = Chosen(w)
  BY ChosenSame
<1>2. PlanTypeOK'
  BY DEF PlanTypeOK
<1>3. \A d \in DueRec : d.time <= hour => d.time <= hour'
  BY DEF PlanTypeOK, DueRec
<1>4. HeldTrue'
  BY <1>3 DEF HeldTrue, PlanTypeOK, PlannerRec
<1>5. QueuedTrue'
  BY <1>3 DEF QueuedTrue, Live
<1>6. DuesTrue' /\ AnsweredTrue'
  BY <1>1 DEF DuesTrue, DueInv, Holds, Queued, Answering, AnsweredTrue, Live
<1>7. DueTimeNotLost' /\ NextRunFollowsSettings'
  BY DEF DueTimeNotLost, NextRunFollowsSettings, Live
<1> QED BY <1>2, <1>4, <1>5, <1>6, <1>7

(***************************************************************************)
(* processDueReportSchedules and the schedule's handlers, for any number   *)
(* of schedules, workers and hours: a due time has one run unless two      *)
(* workers held it or one was lost with it, next_run_at passes no due time *)
(* without a run unless the insert failed, and it follows the settings     *)
(* unless they were edited under a worker (reports.go).                    *)
(***************************************************************************)
THEOREM DueTimesAreAnswered == PlanSpec => []DueTimesAnswered
<1>1. PlanInv => DueTimesAnswered
  <2> SUFFICES ASSUME PlanInv PROVE DueTimesAnswered
    OBVIOUS
  <2>1. DueTimeRunOnce
    BY DEF PlanInv, DueTimeRunOnce, QueuedTrue, DuesTrue, DueInv
  <2> QED BY <2>1 DEF PlanInv, DueTimesAnswered
<1>2. PlanInv /\ [PlanNext]_planVars => PlanInv'
  <2> SUFFICES ASSUME PlanInv, [PlanNext]_planVars PROVE PlanInv'
    OBVIOUS
  <2>0. hour \in Nat
    BY DEF PlanInv, PlanTypeOK
  <2>1. CASE HourPasses
    BY <2>0, <2>1, TimeStep DEF HourPasses
  <2>2. CASE UNCHANGED planVars
    BY <2>0, <2>2, TimeStep DEF planVars
  <2> QED BY <2>1, <2>2, SaveStep, DeleteStep, ReadStep, QueueStep, AdvanceStep, LoseStep DEF PlanNext, PlannerStep
<1> QED BY <1>1, <1>2, PlanInvInit, PTL DEF PlanSpec
=============================================================================
