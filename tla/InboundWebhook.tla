--------------------------- MODULE InboundWebhook ----------------------------
(***************************************************************************)
(* integrationInboundWebhook: a provider posts a signed receipt. The       *)
(* handler writes the delivery first, in a statement of its own, ingests   *)
(* the receipt, and then writes the result; all of them on the context of  *)
(* the request, which ends when the provider hangs up. A notice that has a *)
(* delivery is answered as a duplicate whatever became of it, and no       *)
(* worker takes inbound deliveries.                                        *)
(***************************************************************************)
EXTENDS Integers

CONSTANTS
  Notices,    \* receipts the provider announces: provider, external id and status
  Posts       \* requests in flight at once

VARIABLES
  journal,    \* webhook_deliveries.status of the notice
  stored,     \* notices whose receipt is in sales_transactions
  post,       \* what each request is doing
  acked,      \* notices the provider was told were accepted (200 or 202)
  cut         \* notices a request was cut off on

inVars == <<journal, stored, post, acked, cut>>

NoNotice == "none"
Free == [at |-> "free", notice |-> NoNotice, ok |-> FALSE]

InInit ==
  /\ journal = [n \in Notices |-> "none"]
  /\ stored = {}
  /\ post = [s \in Posts |-> Free]
  /\ acked = {}
  /\ cut = {}

\* The signature holds. INSERT ... ON CONFLICT DO NOTHING, and the answer to a duplicate.
RegisterNotice(s, n) ==
  /\ post[s].at = "free"
  /\ IF journal[n] = "none"
     THEN /\ journal' = [journal EXCEPT ![n] = "processing"]
          /\ post' = [post EXCEPT ![s] = [at |-> "ingest", notice |-> n, ok |-> FALSE]]
          /\ UNCHANGED acked
     ELSE /\ acked' = acked \cup {n}
          /\ UNCHANGED <<journal, post>>
  /\ UNCHANGED <<stored, cut>>

\* Service.Ingest commits or returns an error.
IngestNotice(s) ==
  /\ post[s].at = "ingest"
  /\ \E ok \in BOOLEAN :
       /\ stored' = IF ok THEN stored \cup {post[s].notice} ELSE stored
       /\ post' = [post EXCEPT ![s] = [at |-> "record", notice |-> @.notice, ok |-> ok]]
  /\ UNCHANGED <<journal, acked, cut>>

\* The result of both updates is ignored; the answer is 202, or 422 after an error.
RecordNoticeSucceeded(s) ==
  /\ post[s].at = "record"
  /\ journal' = [journal EXCEPT ![post[s].notice] = "succeeded"]
  /\ acked' = IF post[s].ok THEN acked \cup {post[s].notice} ELSE acked
  /\ post' = [post EXCEPT ![s] = Free]
  /\ UNCHANGED <<stored, cut>>

RecordNotice(s) ==
  /\ post[s].at = "record"
  /\ journal' = [journal EXCEPT ![post[s].notice] = IF post[s].ok THEN "succeeded" ELSE "failed"]
  /\ acked' = IF post[s].ok THEN acked \cup {post[s].notice} ELSE acked
  /\ post' = [post EXCEPT ![s] = Free]
  /\ UNCHANGED <<stored, cut>>

\* The provider hangs up or the process ends: what the handler has not written is not written.
CutOff(s) ==
  /\ post[s].at # "free"
  /\ post' = [post EXCEPT ![s] = Free]
  /\ cut' = cut \cup {post[s].notice}
  /\ UNCHANGED <<journal, stored, acked>>

InNext ==
  \E s \in Posts :
    \/ \E n \in Notices : RegisterNotice(s, n)
    \/ IngestNotice(s)
    \/ RecordNotice(s)
    \/ CutOff(s)

InSpec == InInit /\ [][InNext]_inVars

-----------------------------------------------------------------------------
(***************************************************************************)
(* A receipt the provider was told is accepted and that is not stored can  *)
(* be found: its delivery is failed, or it is in processing and a request  *)
(* still has it or was cut off on it. No delivery marked succeeded lacks   *)
(* its receipt.                                                            *)
(***************************************************************************)
AcceptedOrVisible ==
  \A n \in Notices \ stored :
    /\ journal[n] # "succeeded"
    /\ n \in acked =>
         \/ journal[n] = "failed"
         \/ journal[n] = "processing" /\ (n \in cut \/ \E s \in Posts : post[s].notice = n)
=============================================================================
