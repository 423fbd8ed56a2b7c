--------------------------- MODULE Sessions_proofs --------------------------
(***************************************************************************)
(* Proofs about Sessions for any number of requests, tokens, links,        *)
(* challenges, secrets and faults. The inductive invariant says what a     *)
(* handler between two of its commands may rely on, unless it was crossed  *)
(* or an overlap is excused: who holds a link or a token, which keys a     *)
(* revocation has read, which password is behind what is being issued. A   *)
(* handler is quiet when a step gives it no new claim in any part of the   *)
(* invariant; most steps are quiet in all handlers but their own.          *)
(***************************************************************************)
EXTENDS Sessions, TLAPS

(***************************************************************************)
(* A handler as it can be: each operation has steps of its own.            *)
(***************************************************************************)
SessReq ==
  [op : {"none", "login", "refresh", "switch", "logout", "end", "reset", "mfa"},
   at : {"idle", "issue", "mfa", "locked", "drop", "forget", "delete", "unlist",
         "update", "burn", "members", "revoke", "enable", "disable"},
   arg : Nat, ver : Nat, snap : SUBSET Nat, crossed : BOOLEAN]

\* Which step belongs to which operation.
StepOf(r) ==
  \/ r = Free
  \/ r.op = "login" /\ r.at \in {"mfa", "locked", "issue"} /\ r.arg = 0
  \/ r.op = "refresh" /\ r.at \in {"drop", "forget", "issue"}
  \/ r.op = "switch" /\ r.at = "issue"
  \/ r.op = "logout" /\ r.at = "delete"
  \/ r.op = "end" /\ r.at = "unlist"
  \/ r.op = "reset" /\ r.at \in {"update", "burn", "members", "revoke"}
  \/ r.op = "mfa" /\ r.at \in {"enable", "disable"}

\* The tokens issued so far, by number.
Tokens == 1..Len(proven)

\* What the handler in a slot works on exists.
HandlerOK(r) ==
  /\ r \in SessReq /\ StepOf(r)
  /\ r.op \in {"refresh", "switch", "logout", "end"} => r.arg \in Tokens
  /\ r.op = "reset" => r.arg <= made.link
  /\ r.ver <= password

\* All handlers are as they can be.
HandlersOK == DOMAIN req = Requests /\ \A r \in Requests : HandlerOK(req[r])

(***************************************************************************)
(* The rows and keys hold values of the code, and are about tokens and     *)
(* secrets that were made; no session was opened with a password yet to    *)
(* come.                                                                   *)
(***************************************************************************)
StoreOK ==
  /\ password \in Nat
  /\ mfa \in [secret : Nat, enabled : BOOLEAN]
  /\ proven \in Seq(Nat) /\ \A t \in Tokens : proven[t] <= password
  /\ keys \subseteq Tokens /\ metas \subseteq Tokens /\ listed \subseteq Tokens
  /\ made \in [link : Nat, challenge : Nat, totp : Nat]
  /\ secrets \subseteq {"link", "challenge"} \X Nat
  /\ \A x \in secrets : x[2] <= made[x[1]]

\* So does the history.
PastOK ==
  /\ past \in [used : SUBSET ({"link", "challenge", "token", "totp"} \X Nat),
               reused : SUBSET ({"link", "challenge", "token", "totp"} \X Nat),
               ended : SUBSET Tokens,
               excused : SUBSET ({"link", "challenge", "token", "totp"} \X Nat)]
  /\ \A n \in Nat : /\ <<"link", n>> \in past.used => n <= made.link
                    /\ <<"challenge", n>> \in past.used => n <= made.challenge
                    /\ <<"token", n>> \in past.used => n \in Tokens

\* The type invariant.
SessTypes == HandlersOK /\ StoreOK /\ PastOK

(***************************************************************************)
(* A challenge that was used is gone.                                      *)
(***************************************************************************)
ChallengesOnce == \A n \in Nat : <<"challenge", n>> \in past.used => <<"challenge", n>> \notin secrets

\* The request has read the link and not taken it away yet.
HoldsLink(r, n) == req[r].at \in {"update", "burn"} /\ req[r].arg = n

(***************************************************************************)
(* A link that no two requests held together is held by one; once it set a *)
(* password it is gone, or about to be taken away by that request.         *)
(***************************************************************************)
LinksOnce ==
  \A n \in Nat : <<"link", n>> \notin past.excused =>
    /\ \A q, r \in Requests : HoldsLink(q, n) /\ HoldsLink(r, n) => q = r
    /\ <<"link", n>> \in past.used =>
         /\ \A r \in Requests : ~(req[r].at = "update" /\ req[r].arg = n)
         /\ \/ <<"link", n>> \notin secrets
            \/ \E r \in Requests : req[r].at = "burn" /\ req[r].arg = n

\* The request exchanges the token.
HoldsToken(r, t) == req[r].op = "refresh" /\ req[r].arg = t

(***************************************************************************)
(* A token that no two requests held together is exchanged by one, which   *)
(* has taken its key away before it goes on.                               *)
(***************************************************************************)
TokensOnce ==
  \A t \in Nat : ~Excused(t) =>
    /\ \A q, r \in Requests : HoldsToken(q, t) /\ HoldsToken(r, t) => q = r
    /\ <<"token", t>> \in past.used => t \notin keys /\ \A r \in Requests : ~HoldsToken(r, t)
    /\ \A r \in Requests : HoldsToken(r, t) /\ req[r].at # "drop" => t \notin keys

\* What is presented as a proof is good for once.
UsesInv == ChallengesOnce /\ LinksOnce /\ TokensOnce /\ UsedTwiceOnlyByOverlap

\* A handler about to enable MFA, and that nothing crossed, has confirmed the secret of the row.
MfaInv ==
  /\ \A r \in Requests : req[r].at = "enable" /\ ~req[r].crossed =>
       mfa.secret = req[r].arg /\ <<"totp", mfa.secret>> \in past.used
  /\ EnabledSecretConfirmed

(***************************************************************************)
(* Every key has its description, and is on the list or about to be        *)
(* deleted by a logout; the members a revocation has read hold every key   *)
(* it is to delete.                                                        *)
(***************************************************************************)
ListInv ==
  /\ \A t \in keys : t \in metas \/ Excused(t)
  /\ \A r \in Requests : req[r].at = "unlist" => req[r].arg \notin keys
  /\ \A r \in Requests : req[r].at = "revoke" => \A t \in keys : t \in req[r].snap \/ Excused(t)
  /\ LiveSessionsListed

\* The resets that have written the password and not revoked yet.
Resetting == Holding({"burn", "members", "revoke"})

(***************************************************************************)
(* What is about to be issued, and that no revocation crossed, goes back   *)
(* to the present password or a reset is still to revoke.                  *)
(***************************************************************************)
ResetInv ==
  /\ \A r \in Requests : req[r].op \in {"login", "refresh", "switch"} /\ ~req[r].crossed =>
       req[r].ver = password \/ Resetting # {}
  /\ ResetEndsOldSessions

\* What goes on from an ended session knows it was crossed.
EndedInv ==
  /\ \A r \in Requests : req[r].op \in {"refresh", "switch"} /\ req[r].arg \in past.ended => req[r].crossed
  /\ EndedSessionsStayEnded

\* The inductive invariant.
SessInv == SessTypes /\ UsesInv /\ MfaInv /\ ListInv /\ ResetInv /\ EndedInv

-----------------------------------------------------------------------------
\* A step leaves another handler alone, or crosses it.
Same(r) ==
  \/ req'[r] = req[r]
  \/ /\ req[r].op # "none"
     /\ req'[r] = [op |-> req[r].op, at |-> req[r].at, arg |-> req[r].arg,
                   ver |-> req[r].ver, snap |-> req[r].snap, crossed |-> TRUE]

\* A step of the handler q.
Moves(q, next) ==
  /\ DOMAIN req' = Requests
  /\ req'[q] = next
  /\ \A r \in Requests \ {q} : Same(r)

\* A handler at another of its steps.
At(r, at) == [op |-> r.op, at |-> at, arg |-> r.arg, ver |-> r.ver, snap |-> r.snap, crossed |-> r.crossed]

(***************************************************************************)
(* A handler is its fields; the free one is the idle one and has no        *)
(* operation.                                                              *)
(***************************************************************************)
LEMMA HandlerFields ==
  ASSUME HandlersOK, NEW q \in Requests
  PROVE  /\ req[q] \in SessReq
         /\ req[q] = At(req[q], req[q].at)
         /\ req[q].at = "idle" <=> req[q] = Free
         /\ req[q].op = "none" <=> req[q] = Free
<1>1. HandlerOK(req[q])
  BY DEF HandlersOK
<1>2. PICK r : r = req[q]
  OBVIOUS
<1>3. r \in SessReq /\ StepOf(r)
  BY <1>1, <1>2 DEF HandlerOK
<1>4. r = At(r, r.at)
  BY <1>3 DEF SessReq, At
<1>5. (r.at = "idle" <=> r = Free) /\ (r.op = "none" <=> r = Free)
  <2>1. CASE r = Free
    BY <2>1 DEF Free
  <2>2. CASE r # Free
    BY <1>3, <2>2 DEF StepOf
  <2> QED BY <2>1, <2>2
<1> QED BY <1>2, <1>3, <1>4, <1>5

(***************************************************************************)
(* A request that is taken on is a step of one handler, which was free.    *)
(***************************************************************************)
LEMMA StartsMoves ==
  ASSUME HandlersOK, NEW q \in Requests, NEW op, NEW at, NEW arg, NEW ver, NEW crossed,
         Starts(q, op, at, arg, ver, crossed)
  PROVE  /\ req[q] = Free
         /\ Moves(q, [op |-> op, at |-> at, arg |-> arg, ver |-> ver, snap |-> {}, crossed |-> crossed])
         /\ \A r \in Requests \ {q} : req'[r] = req[r]
<1>1. req[q] = Free
  BY HandlerFields DEF Starts
<1>2. DOMAIN req = Requests
  BY DEF HandlersOK
<1> QED BY <1>1, <1>2 DEF Starts, Moves, Same

(***************************************************************************)
(* So is a handler that goes on.                                           *)
(***************************************************************************)
LEMMA GoesMoves ==
  ASSUME HandlersOK, NEW q \in Requests, NEW at, Goes(q, at)
  PROVE  /\ Moves(q, IF at = "idle" THEN Free ELSE At(req[q], at))
         /\ \A r \in Requests \ {q} : req'[r] = req[r]
<1>1. DOMAIN req = Requests
  BY DEF HandlersOK
<1>2. PICK r : r = req[q]
  OBVIOUS
<1>3. r \in SessReq
  BY <1>2, HandlerFields
<1>4. [r EXCEPT !.at = at] = At(r, at)
  BY <1>3 DEF SessReq, At
<1> QED BY <1>1, <1>2, <1>4 DEF Goes, Moves, Same

(***************************************************************************)
(* Crossing a handler changes that field and no other.                     *)
(***************************************************************************)
LEMMA CrossedFields ==
  ASSUME HandlersOK, NEW r \in Requests
  PROVE  [req[r] EXCEPT !.crossed = TRUE] =
           [op |-> req[r].op, at |-> req[r].at, arg |-> req[r].arg,
            ver |-> req[r].ver, snap |-> req[r].snap, crossed |-> TRUE]
<1>1. PICK x : x = req[r]
  OBVIOUS
<1>2. x \in SessReq
  BY <1>1, HandlerFields
<1>3. PICK yes : yes = TRUE
  OBVIOUS
<1>4. [x EXCEPT !.crossed = yes] =
        [op |-> x.op, at |-> x.at, arg |-> x.arg, ver |-> x.ver, snap |-> x.snap, crossed |-> yes]
  BY <1>2 DEF SessReq
<1> QED BY <1>1, <1>3, <1>4

(***************************************************************************)
(* A handler that goes on and crosses others leaves the rest of them       *)
(* alone.                                                                  *)
(***************************************************************************)
LEMMA GoesAcrossMoves ==
  ASSUME HandlersOK, NEW q \in Requests, NEW at, NEW S, GoesAcross(q, at, S),
         \A r \in S : req[r].op # "none"
  PROVE  /\ Moves(q, IF at = "idle" THEN Free ELSE At(req[q], at))
         /\ \A r \in Requests \ {q} : r \in S => req'[r].crossed
<1>1. PICK r : r = req[q]
  OBVIOUS
<1>2. r \in SessReq
  BY <1>1, HandlerFields
<1>3. [r EXCEPT !.at = at] = At(r, at)
  BY <1>2 DEF SessReq, At
<1>4. DOMAIN req' = Requests /\ req'[q] = IF at = "idle" THEN Free ELSE At(req[q], at)
  BY <1>1, <1>3 DEF GoesAcross
<1>5. ASSUME NEW x \in Requests \ {q}
      PROVE  Same(x) /\ (x \in S => req'[x].crossed)
  <2>1. CASE x \in S
    <3>1. req'[x] = [req[x] EXCEPT !.crossed = TRUE]
      BY <2>1 DEF GoesAcross
    <3> QED BY <2>1, <3>1, CrossedFields DEF Same
  <2>2. CASE x \notin S
    BY <2>2 DEF GoesAcross, Same
  <2> QED BY <2>1, <2>2
<1> QED BY <1>4, <1>5 DEF Moves

(***************************************************************************)
(* What a handler may be only grows.                                       *)
(***************************************************************************)
LEMMA HandlerKept ==
  ASSUME NEW r, HandlerOK(r),
         Tokens \subseteq Tokens', made.link \in Nat, made'.link \in Nat, made.link <= made'.link,
         password \in Nat, password' \in Nat, password <= password'
  PROVE  HandlerOK(r)'
<1>1. r.ver \in Nat /\ r.ver <= password /\ (r.op = "reset" => r.arg \in Nat /\ r.arg <= made.link)
  BY DEF HandlerOK, SessReq
<1>2. r \in SessReq /\ StepOf(r) /\ (r.op \in {"refresh", "switch", "logout", "end"} => r.arg \in Tokens')
  BY DEF HandlerOK
<1> QED BY <1>1, <1>2 DEF HandlerOK

(***************************************************************************)
(* A step of one handler to one that can be keeps the handlers as they can *)
(* be.                                                                     *)
(***************************************************************************)
LEMMA HandlersStay ==
  ASSUME HandlersOK, NEW q \in Requests, NEW next, Moves(q, next), HandlerOK(next),
         Tokens \subseteq Tokens', made.link \in Nat, made'.link \in Nat, made.link <= made'.link,
         password \in Nat, password' \in Nat, password <= password'
  PROVE  HandlersOK'
<1>1. ASSUME NEW r \in Requests PROVE HandlerOK(req'[r])
  <2>1. PICK x : x = req[r]
    OBVIOUS
  <2>2. HandlerOK(x)
    BY <2>1 DEF HandlersOK
  <2>3. CASE r = q \/ req'[r] = req[r]
    BY <2>1, <2>2, <2>3 DEF Moves
  <2>4. CASE r # q /\ req'[r] # req[r]
    <3>1. PICK y : y = req'[r]
      OBVIOUS
    <3>2. x.op # "none" /\ y = [op |-> x.op, at |-> x.at, arg |-> x.arg, ver |-> x.ver, snap |-> x.snap, crossed |-> TRUE]
      BY <2>1, <2>4, <3>1 DEF Moves, Same
    <3>3. y \in SessReq /\ StepOf(y)
      BY <2>2, <3>2 DEF HandlerOK, SessReq, StepOf, Free
    <3>4. HandlerOK(y)
      BY <2>2, <3>2, <3>3 DEF HandlerOK
    <3> QED BY <3>1, <3>4
  <2> QED BY <2>3, <2>4
<1>2. ASSUME NEW r \in Requests PROVE HandlerOK(req[r])'
  <2>1. PICK y : y = req'[r]
    OBVIOUS
  <2>2. HandlerOK(y)'
    BY <1>1, <2>1, HandlerKept
  <2> QED BY <2>1, <2>2 DEF HandlerOK
<1> QED BY <1>2 DEF HandlersOK, Moves

(***************************************************************************)
(* So does a step of none.                                                 *)
(***************************************************************************)
LEMMA HandlersRest ==
  ASSUME HandlersOK, req' = req,
         Tokens \subseteq Tokens', made.link \in Nat, made'.link \in Nat, made.link <= made'.link,
         password \in Nat, password' \in Nat, password <= password'
  PROVE  HandlersOK'
<1>1. ASSUME NEW r \in Requests PROVE HandlerOK(req[r])'
  <2>1. PICK y : y = req[r]
    OBVIOUS
  <2>2. HandlerOK(y)'
    BY <2>1, HandlerKept DEF HandlersOK
  <2> QED BY <2>1, <2>2 DEF HandlerOK
<1> QED BY <1>1 DEF HandlersOK

-----------------------------------------------------------------------------
\* What a step leaves of a handler's part in each invariant.
Fields(r) ==
  /\ req'[r].op = req[r].op /\ req'[r].at = req[r].at /\ req'[r].arg = req[r].arg
  /\ req'[r].ver = req[r].ver /\ req'[r].snap = req[r].snap
  /\ req[r].crossed => req'[r].crossed

\* The handler takes no link, and lets go of one it used only with the link gone or excused.
LinkQuiet(r) ==
  /\ req'[r].at \in {"update", "burn"} => req'[r].at = req[r].at /\ req'[r].arg = req[r].arg
  /\ req[r].at = "burn" =>
       \/ req'[r].at = "burn" /\ req'[r].arg = req[r].arg
       \/ <<"link", req[r].arg>> \notin secrets' \/ <<"link", req[r].arg>> \in past'.excused

\* It takes no token to exchange, and passes the deletion only with the key gone or excused.
TokenQuiet(r) ==
  req'[r].op = "refresh" =>
    /\ req[r].op = "refresh" /\ req'[r].arg = req[r].arg
    /\ req'[r].at # "drop" => req[r].at # "drop" \/ req[r].arg \notin keys' \/ <<"token", req[r].arg>> \in past'.excused

\* It is about to enable MFA only if it was, or with a secret that was confirmed.
MfaQuiet(r) ==
  req'[r].at = "enable" /\ ~req'[r].crossed =>
    \/ req[r].at = "enable" /\ ~req[r].crossed /\ req'[r].arg = req[r].arg
    \/ req'[r].arg = mfa.secret /\ <<"totp", mfa.secret>> \in past'.used

\* It ends and revokes only what it already did, or what is gone or excused.
ListQuiet(r) ==
  /\ req'[r].at = "unlist" =>
       \/ req[r].at = "unlist" /\ req'[r].arg = req[r].arg
       \/ req'[r].arg \notin keys'
  /\ req'[r].at = "revoke" =>
       \/ req[r].at = "revoke" /\ req'[r].snap = req[r].snap
       \/ \A t \in keys' : t \in req'[r].snap \/ <<"token", t>> \in past'.excused
  /\ req[r].at = "delete" =>
       \/ req'[r].at = "delete" /\ req'[r].arg = req[r].arg
       \/ req[r].arg \notin keys' \/ <<"token", req[r].arg>> \in past'.excused

\* It issues for the password it already did, or the present one; a reset does not end.
ResetQuiet(r) ==
  /\ req'[r].op \in {"login", "refresh", "switch"} /\ ~req'[r].crossed =>
       \/ req[r].op \in {"login", "refresh", "switch"} /\ ~req[r].crossed /\ req'[r].ver = req[r].ver
       \/ req'[r].ver = password \/ Resetting # {}
  /\ req[r].at \in {"burn", "members", "revoke"} => req'[r].at \in {"burn", "members", "revoke"}

\* It goes on from the token it already did, or from one not ended, or is crossed.
EndedQuiet(r) ==
  req'[r].op \in {"refresh", "switch"} =>
    \/ /\ req[r].op \in {"refresh", "switch"} /\ req'[r].arg = req[r].arg
       /\ req[r].crossed => req'[r].crossed
    \/ req'[r].arg \in past.ended => req'[r].crossed

\* The handler disturbs no invariant.
Quiet(r) == LinkQuiet(r) /\ TokenQuiet(r) /\ MfaQuiet(r) /\ ListQuiet(r) /\ ResetQuiet(r) /\ EndedQuiet(r)

(***************************************************************************)
(* A handler left alone or crossed disturbs none.                          *)
(***************************************************************************)
LEMMA FieldsQuiet ==
  ASSUME NEW r, Fields(r)
  PROVE  Quiet(r)
BY DEF Fields, Quiet, LinkQuiet, TokenQuiet, MfaQuiet, ListQuiet, ResetQuiet, EndedQuiet

(***************************************************************************)
(* A handler left alone or crossed keeps its fields.                       *)
(***************************************************************************)
LEMMA SameFields ==
  ASSUME NEW r, Same(r)
  PROVE  Fields(r)
BY DEF Same, Fields

(***************************************************************************)
(* So a step of one handler disturbs nothing through the others.           *)
(***************************************************************************)
LEMMA OthersQuiet ==
  ASSUME NEW q, NEW next, Moves(q, next)
  PROVE  \A r \in Requests \ {q} : Fields(r) /\ Quiet(r)
BY SameFields, FieldsQuiet DEF Moves

(***************************************************************************)
(* Nor does a handler that ends outside a logout and a reset.              *)
(***************************************************************************)
LEMMA IdleQuiet ==
  ASSUME NEW r, req'[r] = Free, req[r].at \notin {"burn", "delete", "members", "revoke"}
  PROVE  Quiet(r)
BY DEF Free, Quiet, LinkQuiet, TokenQuiet, MfaQuiet, ListQuiet, ResetQuiet, EndedQuiet

\* The past is only added to.
Remembers ==
  /\ past.used \subseteq past'.used /\ past.excused \subseteq past'.excused
  /\ past.ended \subseteq past'.ended

(***************************************************************************)
(* Links stay in order when no handler takes one, none is used and a used  *)
(* one does not come back.                                                 *)
(***************************************************************************)
LEMMA LinksStay ==
  ASSUME LinksOnce, Remembers, \A r \in Requests : LinkQuiet(r),
         \A n \in Nat : <<"link", n>> \in past'.used =>
           /\ <<"link", n>> \in past.used
           /\ <<"link", n>> \in secrets' => <<"link", n>> \in secrets
  PROVE  LinksOnce'
<1> SUFFICES ASSUME NEW n \in Nat, <<"link", n>> \notin past'.excused
             PROVE  /\ \A q, r \in Requests : HoldsLink(q, n)' /\ HoldsLink(r, n)' => q = r
                    /\ <<"link", n>> \in past'.used =>
                         /\ \A r \in Requests : ~(req'[r].at = "update" /\ req'[r].arg = n)
                         /\ \/ <<"link", n>> \notin secrets'
                            \/ \E r \in Requests : req'[r].at = "burn" /\ req'[r].arg = n
  BY DEF LinksOnce
<1>1. \A r \in Requests : HoldsLink(r, n)' => HoldsLink(r, n)
  BY DEF HoldsLink, LinkQuiet
<1>2. <<"link", n>> \notin past.excused
  BY DEF Remembers
<1>3. \A q, r \in Requests : HoldsLink(q, n)' /\ HoldsLink(r, n)' => q = r
  BY <1>1, <1>2 DEF LinksOnce
<1>4. ASSUME <<"link", n>> \in past'.used
      PROVE  /\ \A r \in Requests : ~(req'[r].at = "update" /\ req'[r].arg = n)
             /\ \/ <<"link", n>> \notin secrets'
                \/ \E r \in Requests : req'[r].at = "burn" /\ req'[r].arg = n
  <2>1. /\ \A r \in Requests : ~(req[r].at = "update" /\ req[r].arg = n)
        /\ <<"link", n>> \notin secrets \/ \E r \in Requests : req[r].at = "burn" /\ req[r].arg = n
    BY <1>2, <1>4 DEF LinksOnce
  <2>2. \A r \in Requests : ~(req'[r].at = "update" /\ req'[r].arg = n)
    BY <2>1 DEF LinkQuiet
  <2>3. CASE <<"link", n>> \notin secrets
    BY <1>4, <2>2, <2>3
  <2>4. CASE \E r \in Requests : req[r].at = "burn" /\ req[r].arg = n
    <3>1. PICK r \in Requests : req[r].at = "burn" /\ req[r].arg = n
      BY <2>4
    <3>2. LinkQuiet(r)
      OBVIOUS
    <3> QED BY <2>2, <3>1, <3>2 DEF LinkQuiet
  <2> QED BY <2>1, <2>3, <2>4
<1> QED BY <1>3, <1>4

(***************************************************************************)
(* Tokens stay in order when no handler takes one and no key appears.      *)
(***************************************************************************)
LEMMA TokensStay ==
  ASSUME TokensOnce, Remembers, \A r \in Requests : TokenQuiet(r), keys' \subseteq keys,
         \A t \in Nat : <<"token", t>> \in past'.used => <<"token", t>> \in past.used
  PROVE  TokensOnce'
<1> SUFFICES ASSUME NEW t \in Nat, ~Excused(t)'
             PROVE  /\ \A q, r \in Requests : HoldsToken(q, t)' /\ HoldsToken(r, t)' => q = r
                    /\ <<"token", t>> \in past'.used => t \notin keys' /\ \A r \in Requests : ~HoldsToken(r, t)'
                    /\ \A r \in Requests : HoldsToken(r, t)' /\ req'[r].at # "drop" => t \notin keys'
  BY DEF TokensOnce
<1>1. \A r \in Requests : HoldsToken(r, t)' => HoldsToken(r, t)
  BY DEF HoldsToken, TokenQuiet
<1>2. ~Excused(t)
  BY DEF Remembers, Excused
<1>3. /\ \A q, r \in Requests : HoldsToken(q, t)' /\ HoldsToken(r, t)' => q = r
      /\ <<"token", t>> \in past'.used => t \notin keys' /\ \A r \in Requests : ~HoldsToken(r, t)'
  BY <1>1, <1>2 DEF TokensOnce
<1>4. ASSUME NEW r \in Requests, HoldsToken(r, t)', req'[r].at # "drop"
      PROVE  t \notin keys'
  BY <1>1, <1>2, <1>4 DEF TokensOnce, TokenQuiet, HoldsToken, Excused
<1> QED BY <1>3, <1>4

(***************************************************************************)
(* MFA stays in order when its columns do not change.                      *)
(***************************************************************************)
LEMMA MfaStays ==
  ASSUME MfaInv, Remembers, \A r \in Requests : MfaQuiet(r), mfa' = mfa
  PROVE  MfaInv'
BY DEF MfaInv, EnabledSecretConfirmed, Remembers, MfaQuiet

(***************************************************************************)
(* The list stays in order when no key appears and a key left keeps its    *)
(* description and its place.                                              *)
(***************************************************************************)
LEMMA ListStays ==
  ASSUME ListInv, Remembers, \A r \in Requests : ListQuiet(r), keys' \subseteq keys,
         \A t \in keys' : /\ t \in metas => t \in metas' \/ Excused(t)'
                          /\ t \in listed => t \in listed' \/ Excused(t)' \/ \E q \in Requests : req'[q].at = "delete" /\ req'[q].arg = t
  PROVE  ListInv'
<1> USE DEF Excused
<1>1. \A t \in keys' : Excused(t) => Excused(t)'
  BY DEF Remembers
<1>2. \A t \in keys' : t \in metas' \/ Excused(t)'
  BY <1>1 DEF ListInv
<1>3. \A r \in Requests : req'[r].at = "unlist" => req'[r].arg \notin keys'
  BY DEF ListInv, ListQuiet
<1>4. \A r \in Requests : req'[r].at = "revoke" => \A t \in keys' : t \in req'[r].snap \/ Excused(t)'
  BY <1>1 DEF ListInv, ListQuiet
<1>5. ASSUME NEW t \in keys'
      PROVE  t \in listed' \/ Excused(t)' \/ \E q \in Requests : req'[q].at = "delete" /\ req'[q].arg = t
  <2>1. CASE t \in listed \/ Excused(t)
    BY <1>1, <2>1
  <2>2. CASE \E q \in Requests : req[q].at = "delete" /\ req[q].arg = t
    <3>1. PICK q \in Requests : req[q].at = "delete" /\ req[q].arg = t
      BY <2>2
    <3>2. ListQuiet(q)
      OBVIOUS
    <3> QED BY <1>5, <3>1, <3>2 DEF ListQuiet
  <2> QED BY <2>1, <2>2 DEF ListInv, LiveSessionsListed, Holding
<1> QED BY <1>2, <1>3, <1>4, <1>5 DEF ListInv, LiveSessionsListed, Holding

(***************************************************************************)
(* Sessions stay in order with the password when neither changes and no    *)
(* reset ends.                                                             *)
(***************************************************************************)
LEMMA ResetStays ==
  ASSUME ResetInv, Remembers, \A r \in Requests : ResetQuiet(r),
         keys' \subseteq keys, proven' = proven, password' = password
  PROVE  ResetInv'
<1>1. Resetting # {} => Resetting' # {}
  BY DEF Resetting, Holding, ResetQuiet
<1>2. \A r \in Requests : req'[r].op \in {"login", "refresh", "switch"} /\ ~req'[r].crossed =>
         req'[r].ver = password' \/ Resetting' # {}
  BY <1>1 DEF ResetInv, ResetQuiet
<1>3. Resetting' = {} => \A t \in keys' : proven'[t] = password' \/ Excused(t)'
  BY <1>1 DEF ResetInv, ResetEndsOldSessions, Resetting, Remembers, Excused
<1> QED BY <1>2, <1>3 DEF ResetInv, ResetEndsOldSessions, Resetting

(***************************************************************************)
(* Ended sessions stay ended when no other one is ended.                   *)
(***************************************************************************)
LEMMA EndedStays ==
  ASSUME EndedInv, Remembers, \A r \in Requests : EndedQuiet(r),
         keys' \subseteq keys, past'.ended = past.ended
  PROVE  EndedInv'
BY DEF EndedInv, EndedSessionsStayEnded, Excused, Remembers, EndedQuiet

(***************************************************************************)
(* The six together: a step whose handlers are quiet, and whose keys and   *)
(* lists only shrink so far, keeps the invariant.                          *)
(***************************************************************************)
LEMMA QuietKeeps ==
  ASSUME UsesInv, MfaInv, ListInv, ResetInv, EndedInv, Remembers, \A r \in Requests : Quiet(r),
         mfa' = mfa, password' = password, proven' = proven, keys' \subseteq keys,
         \A x \in secrets' : x \in past.used => x \in secrets,
         past'.reused = past.reused, past'.ended = past.ended,
         \A n \in Nat : \A kind \in {"link", "challenge", "token"} :
           <<kind, n>> \in past'.used => <<kind, n>> \in past.used,
         \A t \in keys' : t \in metas => t \in metas' \/ Excused(t)',
         \A t \in keys' : t \in listed =>
           t \in listed' \/ Excused(t)' \/ \E q \in Requests : req'[q].at = "delete" /\ req'[q].arg = t
  PROVE  UsesInv' /\ MfaInv' /\ ListInv' /\ ResetInv' /\ EndedInv'
<1>1. LinksOnce'
  BY LinksStay DEF UsesInv, Quiet
<1>2. TokensOnce'
  BY TokensStay DEF UsesInv, Quiet
<1>3. ChallengesOnce' /\ UsedTwiceOnlyByOverlap'
  BY DEF UsesInv, ChallengesOnce, UsedTwiceOnlyByOverlap, Remembers
<1>4. MfaInv'
  BY MfaStays DEF Quiet
<1>5. ListInv'
  BY ListStays DEF Quiet
<1>6. ResetInv'
  BY ResetStays DEF Quiet
<1>7. EndedInv'
  BY EndedStays DEF Quiet
<1> QED BY <1>1, <1>2, <1>3, <1>4, <1>5, <1>6, <1>7 DEF UsesInv

\* What a reset in progress, or one that is over, makes true.
LEMMA ResetGoesOn ==
  ASSUME Resetting' # {}
  PROVE  ResetInv'
BY DEF ResetInv, ResetEndsOldSessions, Resetting

(***************************************************************************)
(* When a revocation is over all that is being issued is crossed, and what *)
(* is left is excused.                                                     *)
(***************************************************************************)
LEMMA ResetOver ==
  ASSUME \A r \in Requests : req'[r].op \in {"login", "refresh", "switch"} => req'[r].crossed,
         \A t \in keys' : <<"token", t>> \in past'.excused
  PROVE  ResetInv'
BY DEF ResetInv, ResetEndsOldSessions, Resetting, Excused

(***************************************************************************)
(* Ending one more session keeps the ended ones ended, if its key is gone  *)
(* and what goes on from it is crossed.                                    *)
(***************************************************************************)
LEMMA EndedGrows ==
  ASSUME EndedInv, Remembers, \A r \in Requests : EndedQuiet(r), keys' \subseteq keys,
         NEW t, past'.ended = past.ended \cup {t}, t \notin keys',
         \A r \in Requests : req'[r].op \in {"refresh", "switch"} /\ req'[r].arg = t => req'[r].crossed
  PROVE  EndedInv'
BY DEF EndedInv, EndedSessionsStayEnded, Excused, Remembers, EndedQuiet

\* What may be used once: links, challenges, tokens, TOTP secrets.
Things == {"link", "challenge", "token", "totp"} \X Nat

(***************************************************************************)
(* Keys and secrets that only shrink stay typed.                           *)
(***************************************************************************)
LEMMA StoreStays ==
  ASSUME StoreOK, password' = password, mfa' = mfa, proven' = proven, made' = made,
         keys' \subseteq keys, metas' \subseteq metas, listed' \subseteq listed, secrets' \subseteq secrets
  PROVE  StoreOK' /\ Tokens' = Tokens /\ made.link \in Nat /\ password \in Nat
BY DEF StoreOK, Tokens

(***************************************************************************)
(* Excusing an overlap adds to that part of the history alone.             *)
(***************************************************************************)
LEMMA Excusing ==
  ASSUME PastOK, NEW S \in SUBSET Things, past' = [past EXCEPT !.excused = @ \cup S],
         proven' = proven, made' = made
  PROVE  /\ PastOK' /\ Remembers /\ past'.excused = past.excused \cup S
         /\ past'.used = past.used /\ past'.reused = past.reused /\ past'.ended = past.ended
BY DEF PastOK, Remembers, Things, Tokens

(***************************************************************************)
(* A history left alone stays as it is.                                    *)
(***************************************************************************)
LEMMA NothingPast ==
  ASSUME PastOK, past' = past, proven' = proven, made' = made
  PROVE  PastOK' /\ Remembers
BY DEF PastOK, Remembers, Tokens

(***************************************************************************)
(* Confirming a TOTP secret adds to what was used alone.                   *)
(***************************************************************************)
LEMMA Confirming ==
  ASSUME PastOK, NEW n \in Nat, past' = [past EXCEPT !.used = @ \cup {<<"totp", n>>}],
         proven' = proven, made' = made
  PROVE  /\ PastOK' /\ Remembers
         /\ past'.reused = past.reused /\ past'.ended = past.ended /\ past'.excused = past.excused
         /\ past'.used = past.used \cup {<<"totp", n>>}
BY DEF PastOK, Remembers, Tokens

(***************************************************************************)
(* A quiet step that makes nothing keeps the invariant.                    *)
(***************************************************************************)
LEMMA QuietStep ==
  ASSUME SessInv, NEW q \in Requests, NEW next, Moves(q, next), HandlerOK(next), Quiet(q),
         password' = password, mfa' = mfa, proven' = proven, made' = made,
         keys' \subseteq keys, metas' \subseteq metas, listed' \subseteq listed, secrets' \subseteq secrets,
         \/ past' = past
         \/ \E S \in SUBSET Things : past' = [past EXCEPT !.excused = @ \cup S]
         \/ \E n \in Nat : past' = [past EXCEPT !.used = @ \cup {<<"totp", n>>}],
         \A t \in keys' : t \in metas => t \in metas' \/ Excused(t)',
         \A t \in keys' : t \in listed =>
           t \in listed' \/ Excused(t)' \/ \E r \in Requests : req'[r].at = "delete" /\ req'[r].arg = t
  PROVE  SessInv'
<1>1. /\ PastOK' /\ Remembers /\ past'.reused = past.reused /\ past'.ended = past.ended
      /\ \A n \in Nat : \A kind \in {"link", "challenge", "token"} :
           <<kind, n>> \in past'.used => <<kind, n>> \in past.used
  <2>1. PastOK
    BY DEF SessInv, SessTypes
  <2>2. CASE past' = past
    BY <2>1, <2>2, NothingPast
  <2>3. CASE \E S \in SUBSET Things : past' = [past EXCEPT !.excused = @ \cup S]
    BY <2>1, <2>3, Excusing
  <2>4. CASE \E n \in Nat : past' = [past EXCEPT !.used = @ \cup {<<"totp", n>>}]
    BY <2>1, <2>4, Confirming
  <2> QED BY <2>2, <2>3, <2>4
<1>2. StoreOK' /\ Tokens' = Tokens /\ made.link \in Nat /\ password \in Nat
  BY StoreStays DEF SessInv, SessTypes
<1>3. HandlersOK'
  BY <1>2, HandlersStay DEF SessInv, SessTypes
<1>4. \A r \in Requests : Quiet(r)
  BY OthersQuiet
<1>5. UsesInv' /\ MfaInv' /\ ListInv' /\ ResetInv' /\ EndedInv'
  BY <1>1, <1>4, QuietKeeps DEF SessInv
<1> QED BY <1>1, <1>2, <1>3, <1>5 DEF SessInv, SessTypes

(***************************************************************************)
(* So does a step of no handler that makes nothing.                        *)
(***************************************************************************)
LEMMA RestStep ==
  ASSUME SessInv, req' = req,
         password' = password, mfa' = mfa, proven' = proven, made' = made, past' = past,
         keys' \subseteq keys, metas' \subseteq metas, listed' \subseteq listed, secrets' \subseteq secrets,
         \A t \in keys' : t \in metas => t \in metas',
         \A t \in keys' : t \in listed => t \in listed'
  PROVE  SessInv'
<1>1. PastOK' /\ Remembers
  BY NothingPast DEF SessInv, SessTypes
<1>2. StoreOK' /\ Tokens' = Tokens /\ made.link \in Nat /\ password \in Nat
  BY StoreStays DEF SessInv, SessTypes
<1>3. HandlersOK'
  BY <1>2, HandlersRest DEF SessInv, SessTypes
<1>4. \A r \in Requests : Quiet(r)
  BY FieldsQuiet DEF Fields
<1>5. UsesInv' /\ MfaInv' /\ ListInv' /\ ResetInv' /\ EndedInv'
  BY <1>1, <1>4, QuietKeeps DEF SessInv
<1> QED BY <1>1, <1>2, <1>3, <1>5 DEF SessInv, SessTypes

-----------------------------------------------------------------------------
(***************************************************************************)
(* The password is the number of times it was changed.                     *)
(***************************************************************************)
LEMMA PasswordNumber ==
  ASSUME SessInv
  PROVE  password \in Nat /\ 0 <= password
<1>1. password \in Nat
  BY DEF SessInv, SessTypes, StoreOK
<1> QED BY <1>1

(***************************************************************************)
(* A free handler is as it can be.                                         *)
(***************************************************************************)
LEMMA FreeOK ==
  ASSUME SessInv
  PROVE  HandlerOK(Free)
BY PasswordNumber DEF HandlerOK, SessReq, StepOf, Free

\* The handler of a step is as the invariant says.
LEMMA HandlerKnown ==
  ASSUME SessInv, NEW q \in Requests
  PROVE  /\ HandlersOK /\ HandlerOK(req[q]) /\ StepOf(req[q]) /\ req[q] \in SessReq
         /\ req[q] = At(req[q], req[q].at)
BY HandlerFields DEF SessInv, SessTypes, HandlersOK, HandlerOK

\* An operation and its steps.
LEMMA OperationOfStep ==
  ASSUME NEW r, HandlerOK(r)
  PROVE  /\ r.at \in {"update", "burn", "members", "revoke"} <=> r.op = "reset"
         /\ r.at \in {"drop", "forget"} => r.op = "refresh"
         /\ r.at \in {"mfa", "locked"} => r.op = "login" /\ r.arg = 0
         /\ r.at = "issue" => r.op \in {"login", "refresh", "switch"}
         /\ r.op = "login" => r.arg = 0
         /\ r.op = "refresh" => r.at \in {"drop", "forget", "issue"}
         /\ r.at = "delete" <=> r.op = "logout"
         /\ r.at = "unlist" <=> r.op = "end"
         /\ r.at \in {"enable", "disable"} <=> r.op = "mfa"
         /\ r.arg \in Nat /\ r.ver \in Nat
         /\ r.op \in {"refresh", "switch", "logout", "end"} => r.arg \in Tokens
         /\ r.op = "reset" => r.arg <= made.link
<1>1. r \in SessReq /\ StepOf(r)
  BY DEF HandlerOK
<1>2. r.arg \in Nat /\ r.ver \in Nat
  BY <1>1 DEF SessReq
<1>3. CASE r = Free
  BY <1>3, <1>2 DEF Free, HandlerOK
<1>4. CASE r # Free
  BY <1>1, <1>2, <1>4 DEF StepOf, HandlerOK
<1> QED BY <1>3, <1>4

(***************************************************************************)
(* A handler at the next step of its operation is as it can be.            *)
(***************************************************************************)
LEMMA NextStepOK ==
  ASSUME NEW r, HandlerOK(r), NEW at,
         \/ r.op = "login" /\ at = "issue"
         \/ r.op = "refresh" /\ at \in {"forget", "issue"}
         \/ r.op = "reset" /\ at \in {"burn", "members"}
  PROVE  HandlerOK(At(r, at)) /\ At(r, at).op = r.op /\ At(r, at).at = at
<1>1. r \in SessReq
  BY DEF HandlerOK
<1>2. PICK n : n = At(r, at)
  OBVIOUS
<1>3. n \in SessReq /\ n.op = r.op /\ n.at = at /\ n.arg = r.arg /\ n.ver = r.ver
  BY <1>1, <1>2 DEF SessReq, At
<1>4. StepOf(n)
  BY <1>3, OperationOfStep DEF StepOf
<1> QED BY <1>2, <1>3, <1>4 DEF HandlerOK

(***************************************************************************)
(* A failed transaction leaves no trace.                                   *)
(***************************************************************************)
LEMMA IssueFailsKeeps ==
  ASSUME SessInv, NEW q \in Requests, IssueFails(q)
  PROVE  SessInv'
<1>1. Moves(q, Free) /\ req[q].at = "issue"
  BY HandlerKnown, GoesMoves DEF IssueFails
<1>2. Quiet(q)
  BY <1>1, IdleQuiet DEF Moves
<1>3. /\ UNCHANGED <<password, mfa, keys, metas, listed, secrets, made, proven, past>>
  BY DEF IssueFails, redisVars
<1> QED BY <1>1, <1>2, <1>3, FreeOK, QuietStep

(***************************************************************************)
(* listSessions takes members without a description off the list: they     *)
(* have no key, or are excused.                                            *)
(***************************************************************************)
LEMMA ListSessionsKeeps ==
  ASSUME SessInv, NEW q \in Requests, ListSessions(q)
  PROVE  SessInv'
<1>1. PICK next : next = req[q]
  OBVIOUS
<1>2. Moves(q, next) /\ HandlerOK(next) /\ Fields(q)
  BY <1>1, HandlerKnown DEF ListSessions, Moves, Same, Fields, HandlersOK
<1>3. Quiet(q)
  BY <1>2, FieldsQuiet
<1>4. /\ UNCHANGED <<password, mfa, keys, metas, secrets, made, proven, past>>
      /\ listed' = listed \cap metas
  BY DEF ListSessions
<1>5. \A t \in keys' : t \in listed => t \in listed' \/ Excused(t)'
  BY <1>4 DEF SessInv, ListInv, Excused
<1> QED BY <1>2, <1>3, <1>4, <1>5, QuietStep

(***************************************************************************)
(* deleteSession takes the member off the list with its key already gone.  *)
(***************************************************************************)
LEMMA DeleteSessionUnlistKeeps ==
  ASSUME SessInv, NEW q \in Requests, DeleteSessionUnlist(q)
  PROVE  SessInv'
<1>1. Moves(q, Free) /\ req[q].at = "unlist"
  BY HandlerKnown, GoesMoves DEF DeleteSessionUnlist
<1>2. Quiet(q)
  BY <1>1, IdleQuiet DEF Moves
<1>3. /\ UNCHANGED <<password, mfa, keys, metas, secrets, made, proven, past>>
      /\ listed' = listed \ {req[q].arg} /\ req[q].arg \notin keys
  BY <1>1 DEF DeleteSessionUnlist, SessInv, ListInv
<1> QED BY <1>1, <1>2, <1>3, FreeOK, QuietStep

(***************************************************************************)
(* Keys and secrets that expire leave nothing behind that needs them.      *)
(***************************************************************************)
LEMMA ExpiryKeeps ==
  ASSUME SessInv, (\E t \in keys : SessionExpires(t)) \/ (\E x \in secrets : SecretExpires(x))
  PROVE  SessInv'
<1>1. CASE \E t \in keys : SessionExpires(t)
  BY <1>1, RestStep DEF SessionExpires
<1>2. CASE \E x \in secrets : SecretExpires(x)
  BY <1>2, RestStep DEF SecretExpires
<1> QED BY <1>1, <1>2

(***************************************************************************)
(* Checking the code to disable MFA writes nothing yet.                    *)
(***************************************************************************)
LEMMA MfaDisableKeeps ==
  ASSUME SessInv, NEW q \in Requests, MfaDisable(q)
  PROVE  SessInv'
<1>1. PICK next : next = [op |-> "mfa", at |-> "disable", arg |-> mfa.secret, ver |-> 0, snap |-> {}, crossed |-> FALSE]
  OBVIOUS
<1>2. Moves(q, next) /\ req[q] = Free
  BY <1>1, HandlerKnown, StartsMoves DEF MfaDisable
<1>3. mfa.secret \in Nat
  BY DEF SessInv, SessTypes, StoreOK
<1>4. HandlerOK(next)
  BY <1>1, <1>3, PasswordNumber DEF HandlerOK, SessReq, StepOf
<1>5. Quiet(q)
  BY <1>1, <1>2 DEF Moves, Free, Quiet, LinkQuiet, TokenQuiet, MfaQuiet, ListQuiet, ResetQuiet, EndedQuiet
<1>6. UNCHANGED <<password, mfa, keys, metas, listed, secrets, made, proven, past>>
  BY DEF MfaDisable, redisVars
<1> QED BY <1>2, <1>4, <1>5, <1>6, QuietStep

(***************************************************************************)
(* logout takes the member off the list and is about to delete its key.    *)
(***************************************************************************)
LEMMA LogoutKeeps ==
  ASSUME SessInv, NEW q \in Requests, Logout(q)
  PROVE  SessInv'
<1>1. PICK t \in DOMAIN proven : /\ Starts(q, "logout", "delete", t, 0, FALSE)
                                 /\ listed' = IF t \in keys THEN listed \ {t} ELSE listed
  BY DEF Logout
<1>2. PICK next : next = [op |-> "logout", at |-> "delete", arg |-> t, ver |-> 0, snap |-> {}, crossed |-> FALSE]
  OBVIOUS
<1>3. Moves(q, next) /\ req[q] = Free
  BY <1>1, <1>2, HandlerKnown, StartsMoves
<1>4. t \in Tokens /\ t \in Nat
  BY <1>1 DEF SessInv, SessTypes, StoreOK, Tokens
<1>5. HandlerOK(next)
  BY <1>2, <1>4, PasswordNumber DEF HandlerOK, SessReq, StepOf
<1>6. Quiet(q) /\ req'[q].at = "delete" /\ req'[q].arg = t
  BY <1>2, <1>3 DEF Moves, Free, Quiet, LinkQuiet, TokenQuiet, MfaQuiet, ListQuiet, ResetQuiet, EndedQuiet
<1>7. UNCHANGED <<password, mfa, keys, metas, secrets, made, proven, past>>
  BY DEF Logout
<1> QED BY <1>1, <1>3, <1>5, <1>6, <1>7, QuietStep

(***************************************************************************)
(* resetPassword takes the link away after it used it.                     *)
(***************************************************************************)
LEMMA ResetBurnKeeps ==
  ASSUME SessInv, NEW q \in Requests, ResetBurn(q)
  PROVE  SessInv'
<1>1. PICK next : next = At(req[q], "members")
  OBVIOUS
<1>2. Moves(q, next) /\ req[q].at = "burn"
  BY <1>1, HandlerKnown, GoesMoves DEF ResetBurn
<1>3. HandlerOK(next) /\ req[q].op = "reset"
  BY <1>1, <1>2, HandlerKnown, OperationOfStep, NextStepOK
<1>4. /\ UNCHANGED <<password, mfa, keys, metas, listed, made, proven, past>>
      /\ secrets' = secrets \ {<<"link", req[q].arg>>}
  BY DEF ResetBurn
<1>5. Quiet(q)
  BY <1>1, <1>2, <1>3, <1>4 DEF Moves, At, Quiet, LinkQuiet, TokenQuiet, MfaQuiet, ListQuiet, ResetQuiet, EndedQuiet
<1> QED BY <1>2, <1>3, <1>4, <1>5, QuietStep

(***************************************************************************)
(* refresh passes the deletion with the key gone, or lost and excused.     *)
(***************************************************************************)
LEMMA DropTokenKeeps ==
  ASSUME SessInv, NEW q \in Requests, DropToken(q)
  PROVE  SessInv'
<1>1. PICK next : next = At(req[q], "forget")
  OBVIOUS
<1>2. Moves(q, next) /\ req[q].at = "drop"
  BY <1>1, HandlerKnown, GoesMoves DEF DropToken
<1>3. HandlerOK(next) /\ req[q].op = "refresh" /\ req[q].arg \in Nat
  BY <1>1, <1>2, HandlerKnown, OperationOfStep, NextStepOK
<1>4. UNCHANGED <<password, mfa, metas, listed, secrets, made, proven>>
  BY DEF DropToken
<1>5. \/ keys' = keys \ {req[q].arg} /\ past' = past
      \/ keys' = keys /\ past' = [past EXCEPT !.excused = @ \cup {<<"token", req[q].arg>>}]
  BY DEF DropToken, Excuse
<1>6. /\ keys' \subseteq keys
      /\ past' = past \/ \E S \in SUBSET Things : past' = [past EXCEPT !.excused = @ \cup S]
      /\ req[q].arg \notin keys' \/ <<"token", req[q].arg>> \in past'.excused
  BY <1>3, <1>5 DEF Things, SessInv, SessTypes, PastOK
<1>7. Quiet(q)
  BY <1>1, <1>2, <1>3, <1>6 DEF Moves, At, Quiet, LinkQuiet, TokenQuiet, MfaQuiet, ListQuiet, ResetQuiet, EndedQuiet
<1> QED BY <1>2, <1>3, <1>4, <1>6, <1>7, QuietStep

(***************************************************************************)
(* refresh takes the description and the member of a key that is gone.     *)
(***************************************************************************)
LEMMA ForgetSessionKeeps ==
  ASSUME SessInv, NEW q \in Requests, ForgetSession(q)
  PROVE  SessInv'
<1>1. PICK next : next = At(req[q], "issue")
  OBVIOUS
<1>2. Moves(q, next) /\ req[q].at = "forget"
  BY <1>1, HandlerKnown, GoesMoves DEF ForgetSession
<1>3. HandlerOK(next) /\ req[q].op = "refresh" /\ req[q].arg \in Nat
  BY <1>1, <1>2, HandlerKnown, OperationOfStep, NextStepOK
<1>4. /\ UNCHANGED <<password, mfa, keys, secrets, made, proven, past>>
      /\ listed' = listed \ {req[q].arg} /\ metas' = metas \ {req[q].arg}
  BY DEF ForgetSession
<1>5. req[q].arg \notin keys \/ Excused(req[q].arg)
  BY <1>2, <1>3 DEF SessInv, UsesInv, TokensOnce, HoldsToken
<1>6. \A t \in keys' : /\ t \in metas => t \in metas' \/ Excused(t)'
                       /\ t \in listed => t \in listed' \/ Excused(t)'
  BY <1>4, <1>5 DEF Excused
<1>7. Quiet(q)
  BY <1>1, <1>2, <1>3 DEF Moves, At, Quiet, LinkQuiet, TokenQuiet, MfaQuiet, ListQuiet, ResetQuiet, EndedQuiet
<1> QED BY <1>2, <1>3, <1>4, <1>6, <1>7, QuietStep

(***************************************************************************)
(* login goes on with the password and the MFA columns of one read.        *)
(***************************************************************************)
LEMMA LoginKeeps ==
  ASSUME SessInv, NEW q \in Requests, Login(q)
  PROVE  SessInv'
<1>1. PICK at \in {"issue", "locked", "mfa"} : Starts(q, "login", at, 0, password, FALSE)
  BY DEF Login
<1>2. PICK next : next = [op |-> "login", at |-> at, arg |-> 0, ver |-> password, snap |-> {}, crossed |-> FALSE]
  OBVIOUS
<1>3. Moves(q, next) /\ req[q] = Free
  BY <1>1, <1>2, HandlerKnown, StartsMoves
<1>4. password \in Nat
  BY DEF SessInv, SessTypes, StoreOK
<1>5. HandlerOK(next)
  BY <1>2, <1>4, PasswordNumber DEF HandlerOK, SessReq, StepOf
<1>6. Quiet(q)
  BY <1>2, <1>3 DEF Moves, Free, Quiet, LinkQuiet, TokenQuiet, MfaQuiet, ListQuiet, ResetQuiet, EndedQuiet
<1>7. UNCHANGED <<password, mfa, keys, metas, listed, secrets, made, proven, past>>
  BY DEF Login, redisVars
<1> QED BY <1>3, <1>5, <1>6, <1>7, QuietStep

(***************************************************************************)
(* switchWorkspace goes on from an access token, crossed at once if its    *)
(* session is over or of an older password.                                *)
(***************************************************************************)
LEMMA SwitchWorkspaceKeeps ==
  ASSUME SessInv, NEW q \in Requests, SwitchWorkspace(q)
  PROVE  SessInv'
<1>1. PICK t \in DOMAIN proven :
        Starts(q, "switch", "issue", t, proven[t],
               <<"token", t>> \in past.excused \/ t \in past.ended \/ proven[t] < password)
  BY DEF SwitchWorkspace
<1>2. PICK v : v = proven[t]
  OBVIOUS
<1>3. PICK crossed \in BOOLEAN : crossed = (<<"token", t>> \in past.excused \/ t \in past.ended \/ v < password)
  OBVIOUS
<1>4. PICK next : next = [op |-> "switch", at |-> "issue", arg |-> t, ver |-> v, snap |-> {}, crossed |-> crossed]
  OBVIOUS
<1>5. Starts(q, "switch", "issue", t, v, crossed)
  BY <1>1, <1>2, <1>3
<1>6. Moves(q, next) /\ req[q] = Free
  BY <1>4, <1>5, HandlerKnown, StartsMoves
<1>7. t \in Tokens /\ t \in Nat /\ v \in Nat /\ password \in Nat /\ v <= password
  BY <1>1, <1>2 DEF SessInv, SessTypes, StoreOK, Tokens
<1>8. HandlerOK(next)
  BY <1>3, <1>4, <1>7, PasswordNumber DEF HandlerOK, SessReq, StepOf
<1>9. req'[q] = next /\ (~crossed => v = password) /\ (t \in past.ended => crossed)
  <2>1. crossed <=> (<<"token", t>> \in past.excused \/ t \in past.ended \/ v < password)
    BY <1>3, Zenon
  <2> QED BY <1>6, <1>7, <2>1 DEF Moves
<1>10. Quiet(q)
  BY <1>4, <1>6, <1>9 DEF Free, Quiet, LinkQuiet, TokenQuiet, MfaQuiet, ListQuiet, ResetQuiet, EndedQuiet
<1>11. UNCHANGED <<password, mfa, keys, metas, listed, secrets, made, proven, past>>
  BY DEF SwitchWorkspace, redisVars
<1> QED BY <1>6, <1>8, <1>10, <1>11, QuietStep

(***************************************************************************)
(* mfaEnable confirms the secret of the row it has read.                   *)
(***************************************************************************)
LEMMA MfaEnableKeeps ==
  ASSUME SessInv, NEW q \in Requests, MfaEnable(q)
  PROVE  SessInv'
<1>1. PICK n \in Nat : n = mfa.secret
  BY DEF SessInv, SessTypes, StoreOK
<1>2. PICK next : next = [op |-> "mfa", at |-> "enable", arg |-> n, ver |-> 0, snap |-> {}, crossed |-> FALSE]
  OBVIOUS
<1>3. Moves(q, next) /\ req[q] = Free
  BY <1>1, <1>2, HandlerKnown, StartsMoves DEF MfaEnable
<1>4. HandlerOK(next)
  BY <1>2, PasswordNumber DEF HandlerOK, SessReq, StepOf
<1>5. /\ UNCHANGED <<password, mfa, keys, metas, listed, secrets, made, proven>>
      /\ past' = [past EXCEPT !.used = @ \cup {<<"totp", n>>}]
  BY <1>1 DEF MfaEnable, redisVars
<1>6. <<"totp", n>> \in past'.used
  BY <1>5, Confirming DEF SessInv, SessTypes
<1>7. Quiet(q)
  BY <1>1, <1>2, <1>3, <1>6 DEF Moves, Free, Quiet, LinkQuiet, TokenQuiet, MfaQuiet, ListQuiet, ResetQuiet, EndedQuiet
<1> QED BY <1>3, <1>4, <1>5, <1>7, QuietStep

(***************************************************************************)
(* revokeUserSessions reads the list: every key is on it, or excused, or   *)
(* about to be deleted by a logout and excused now.                        *)
(***************************************************************************)
LEMMA RevokeMembersKeeps ==
  ASSUME SessInv, NEW q \in Requests, RevokeMembers(q)
  PROVE  SessInv'
<1>1. PICK r : r = req[q]
  OBVIOUS
<1>2. PICK L : L = listed
  OBVIOUS
<1>3. PICK next : next = [op |-> r.op, at |-> "revoke", arg |-> r.arg, ver |-> r.ver, snap |-> L, crossed |-> r.crossed]
  OBVIOUS
<1>4. r \in SessReq /\ r.at = "members" /\ r.op = "reset" /\ HandlerOK(r)
  BY <1>1, HandlerKnown, OperationOfStep DEF RevokeMembers
<1>5. [r EXCEPT !.at = "revoke", !.snap = L] = next
  <2>1. PICK m : m = [r EXCEPT !.at = "revoke"]
    OBVIOUS
  <2>2. [r EXCEPT !.at = "revoke", !.snap = L] = [m EXCEPT !.snap = L]
    BY <1>4, <2>1 DEF SessReq
  <2>3. m \in SessReq /\ m.op = r.op /\ m.at = "revoke" /\ m.arg = r.arg /\ m.ver = r.ver /\ m.crossed = r.crossed
    BY <1>4, <2>1 DEF SessReq
  <2>4. [m EXCEPT !.snap = L] =
          [op |-> m.op, at |-> m.at, arg |-> m.arg, ver |-> m.ver, snap |-> L, crossed |-> m.crossed]
    BY <2>3 DEF SessReq
  <2> QED BY <1>3, <2>2, <2>3, <2>4
<1>6. Moves(q, next)
  <2>1. DOMAIN req' = Requests /\ req'[q] = next
    BY <1>1, <1>2, <1>5 DEF RevokeMembers
  <2>2. ASSUME NEW x \in Requests \ {q} PROVE Same(x)
    <3>1. CASE x \in Issuing
      <4>1. req'[x] = [req[x] EXCEPT !.crossed = TRUE]
        BY <3>1 DEF RevokeMembers
      <4> QED BY <3>1, <4>1, HandlerKnown, CrossedFields DEF Same, Issuing
    <3>2. CASE x \notin Issuing
      BY <3>2 DEF RevokeMembers, Same
    <3> QED BY <3>1, <3>2
  <2> QED BY <2>1, <2>2 DEF Moves
<1>7. L \in SUBSET Nat
  BY <1>2 DEF SessInv, SessTypes, StoreOK, Tokens
<1>8. HandlerOK(next)
  BY <1>3, <1>4, <1>7, PasswordNumber DEF HandlerOK, SessReq, StepOf
<1>9. UNCHANGED <<password, mfa, keys, metas, listed, secrets, made, proven>>
  BY DEF RevokeMembers, redisVars
<1>10. PICK S : S = {<<"token", req[x].arg>> : x \in Holding({"delete"})}
  OBVIOUS
<1>11. past' = [past EXCEPT !.excused = @ \cup S] /\ S \in SUBSET Things
  <2>1. \A x \in Requests : req[x].arg \in Nat
    BY HandlerKnown, OperationOfStep
  <2>2. S \in SUBSET Things
    BY <1>10, <2>1 DEF Things, Holding
  <2> QED BY <1>10, <2>2 DEF RevokeMembers, Excuse
<1>12. past'.excused = past.excused \cup S
  BY <1>11 DEF SessInv, SessTypes, PastOK
<1>13. ASSUME NEW t \in keys PROVE t \in L \/ <<"token", t>> \in past'.excused
  <2>1. CASE t \in listed \/ Excused(t)
    BY <1>2, <1>12, <2>1 DEF Excused
  <2>2. CASE \E x \in Holding({"delete"}) : req[x].arg = t
    BY <1>10, <1>12, <2>2
  <2> QED BY <1>13, <2>1, <2>2 DEF SessInv, ListInv, LiveSessionsListed
<1>14. Quiet(q)
  BY <1>1, <1>3, <1>4, <1>6, <1>9, <1>13 DEF Moves, Quiet, LinkQuiet, TokenQuiet, MfaQuiet, ListQuiet, ResetQuiet, EndedQuiet
<1> QED BY <1>6, <1>8, <1>9, <1>11, <1>14, QuietStep

-----------------------------------------------------------------------------
(***************************************************************************)
(* Ending a session adds to that part of the history alone.                *)
(***************************************************************************)
LEMMA Ending ==
  ASSUME PastOK, NEW t \in Tokens, past' = [past EXCEPT !.ended = @ \cup {t}],
         proven' = proven, made' = made
  PROVE  /\ PastOK' /\ Remembers /\ past'.ended = past.ended \cup {t}
         /\ past'.used = past.used /\ past'.reused = past.reused /\ past'.excused = past.excused
BY DEF PastOK, Remembers, Tokens

\* A session ended: its keys are gone and the handlers that may go on with it are crossed.
LEMMA EndingKeeps ==
  ASSUME SessInv, NEW q \in Requests, NEW next, Moves(q, next), HandlerOK(next), Quiet(q),
         next.op \notin {"refresh", "switch"}, NEW t \in Tokens,
         \A r \in Requests \ {q} : r \in UnderWay(t) => req'[r].crossed,
         UNCHANGED <<password, mfa, listed, secrets, made, proven>>,
         keys' = keys \ {t}, metas' = metas \ {t},
         past' = [past EXCEPT !.ended = @ \cup {t}]
  PROVE  SessInv'
<1>1. /\ PastOK' /\ Remembers /\ past'.ended = past.ended \cup {t}
      /\ past'.used = past.used /\ past'.reused = past.reused /\ past'.excused = past.excused
  BY Ending DEF SessInv, SessTypes
<1>2. StoreOK' /\ Tokens' = Tokens /\ made.link \in Nat /\ password \in Nat
  BY StoreStays DEF SessInv, SessTypes
<1>3. HandlersOK'
  BY <1>2, HandlersStay DEF SessInv, SessTypes
<1>4. \A r \in Requests : Quiet(r)
  BY OthersQuiet
<1>5. LinksOnce'
  BY <1>1, <1>4, LinksStay DEF SessInv, UsesInv, Quiet
<1>6. TokensOnce'
  BY <1>1, <1>4, TokensStay DEF SessInv, UsesInv, Quiet
<1>7. ChallengesOnce' /\ UsedTwiceOnlyByOverlap'
  BY <1>1 DEF SessInv, UsesInv, ChallengesOnce, UsedTwiceOnlyByOverlap
<1>8. MfaInv'
  BY <1>1, <1>4, MfaStays DEF SessInv, Quiet
<1>9. ListInv'
  BY <1>1, <1>4, ListStays DEF SessInv, Quiet
<1>10. ResetInv'
  BY <1>1, <1>4, ResetStays DEF SessInv, Quiet
<1>11. EndedInv'
  <2>1. ASSUME NEW r \in Requests, req'[r].op \in {"refresh", "switch"}, req'[r].arg = t
        PROVE  req'[r].crossed
    <3>1. r # q
      BY <2>1 DEF Moves
    <3>2. req[r].op \in {"refresh", "switch"} /\ req[r].arg = t
      BY <2>1, <3>1, OthersQuiet DEF Fields
    <3> QED BY <3>1, <3>2 DEF UnderWay
  <2>2. \A r \in Requests : EndedQuiet(r)
    BY <1>4 DEF Quiet
  <2> QED BY <1>1, <2>1, <2>2, EndedGrows DEF SessInv
<1> QED BY <1>1, <1>2, <1>3, <1>5, <1>6, <1>7, <1>8, <1>9, <1>10, <1>11 DEF SessInv, SessTypes, UsesInv

(***************************************************************************)
(* logout ends the session.                                                *)
(***************************************************************************)
LEMMA LogoutDeleteKeeps ==
  ASSUME SessInv, NEW q \in Requests, LogoutDelete(q)
  PROVE  SessInv'
<1>1. PICK t : t = req[q].arg
  OBVIOUS
<1>2. req[q].at = "delete" /\ t \in Tokens
  BY <1>1, HandlerKnown, OperationOfStep DEF LogoutDelete
<1>3. \A r \in UnderWay(t) : req[r].op # "none"
  BY DEF UnderWay
<1>4. Moves(q, Free) /\ \A r \in Requests \ {q} : r \in UnderWay(t) => req'[r].crossed
  BY <1>1, <1>3, HandlerKnown, GoesAcrossMoves DEF LogoutDelete
<1>5. /\ UNCHANGED <<password, mfa, listed, secrets, made, proven>>
      /\ keys' = keys \ {t} /\ metas' = metas \ {t}
      /\ past' = [past EXCEPT !.ended = @ \cup {t}]
  BY <1>1 DEF LogoutDelete
<1>6. Quiet(q) /\ Free.op \notin {"refresh", "switch"}
  BY <1>1, <1>2, <1>4, <1>5 DEF Moves, Free, Quiet, LinkQuiet, TokenQuiet, MfaQuiet, ListQuiet, ResetQuiet, EndedQuiet
<1> QED BY <1>2, <1>4, <1>5, <1>6, FreeOK, EndingKeeps

(***************************************************************************)
(* deleteSession ends the session and has the member still to take off the *)
(* list.                                                                   *)
(***************************************************************************)
LEMMA DeleteSessionKeeps ==
  ASSUME SessInv, NEW q \in Requests, DeleteSession(q)
  PROVE  SessInv'
<1>1. PICK t \in listed :
        /\ req[q].at = "idle"
        /\ DeleteKeys(t)
        /\ past' = [past EXCEPT !.ended = @ \cup {t}]
        /\ req' = [r \in Requests |->
                     IF r = q THEN [Free EXCEPT !.op = "end", !.at = "unlist", !.arg = t]
                     ELSE IF r \in UnderWay(t) THEN [req[r] EXCEPT !.crossed = TRUE] ELSE req[r]]
        /\ UNCHANGED <<password, mfa, listed, secrets, made, lost, proven>>
  BY DEF DeleteSession
<1>2. PICK next : next = [op |-> "end", at |-> "unlist", arg |-> t, ver |-> 0, snap |-> {}, crossed |-> FALSE]
  OBVIOUS
<1>3. t \in Tokens /\ t \in Nat
  BY DEF SessInv, SessTypes, StoreOK, Tokens
<1>4. [Free EXCEPT !.op = "end", !.at = "unlist", !.arg = t] = next
  <2>1. PICK f : f = Free
    OBVIOUS
  <2>2. f \in SessReq /\ f.ver = 0 /\ f.snap = {} /\ f.crossed = FALSE
    BY <2>1 DEF Free, SessReq
  <2>3. PICK g : g = [f EXCEPT !.op = "end", !.at = "unlist", !.arg = t]
    OBVIOUS
  <2>4. g \in SessReq /\ g.op = "end" /\ g.at = "unlist" /\ g.arg = t /\ g.ver = f.ver /\ g.snap = f.snap /\ g.crossed = f.crossed
    BY <1>3, <2>2, <2>3 DEF SessReq
  <2>5. g = [op |-> g.op, at |-> g.at, arg |-> g.arg, ver |-> g.ver, snap |-> g.snap, crossed |-> g.crossed]
    BY <2>4 DEF SessReq
  <2>6. PICK no : no = FALSE
    OBVIOUS
  <2>7. g.crossed = no /\ next = [op |-> "end", at |-> "unlist", arg |-> t, ver |-> 0, snap |-> {}, crossed |-> no]
    <3>1. g.crossed = no
      BY <2>2, <2>4, <2>6
    <3>2. next = [op |-> "end", at |-> "unlist", arg |-> t, ver |-> 0, snap |-> {}, crossed |-> no]
      BY <1>2, <2>6
    <3> QED BY <3>1, <3>2
  <2>8. g = next
    BY <2>2, <2>4, <2>5, <2>7
  <2> QED BY <2>1, <2>3, <2>8
<1>5. Moves(q, next) /\ \A r \in Requests \ {q} : r \in UnderWay(t) => req'[r].crossed
  <2>1. DOMAIN req' = Requests /\ req'[q] = next
    BY <1>1, <1>4
  <2>2. ASSUME NEW x \in Requests \ {q} PROVE Same(x) /\ (x \in UnderWay(t) => req'[x].crossed)
    <3>1. CASE x \in UnderWay(t)
      <4>1. req'[x] = [req[x] EXCEPT !.crossed = TRUE]
        BY <1>1, <3>1
      <4> QED BY <3>1, <4>1, HandlerKnown, CrossedFields DEF Same, UnderWay
    <3>2. CASE x \notin UnderWay(t)
      BY <1>1, <3>2 DEF Same
    <3> QED BY <3>1, <3>2
  <2> QED BY <2>1, <2>2 DEF Moves
<1>6. HandlerOK(next) /\ next.op \notin {"refresh", "switch"}
  BY <1>2, <1>3, PasswordNumber DEF HandlerOK, SessReq, StepOf
<1>7. req[q] = Free
  BY <1>1, HandlerKnown, HandlerFields
<1>8. keys' = keys \ {t} /\ metas' = metas \ {t}
  BY <1>1 DEF DeleteKeys
<1>9. Quiet(q)
  BY <1>2, <1>5, <1>7, <1>8 DEF Moves, Free, Quiet, LinkQuiet, TokenQuiet, MfaQuiet, ListQuiet, ResetQuiet, EndedQuiet
<1> QED BY <1>1, <1>5, <1>3, <1>6, <1>8, <1>9, EndingKeeps

\* The revocation is over: what it left is excused, and what is being issued is crossed.
LEMMA RevokedKeeps ==
  ASSUME SessInv, NEW q \in Requests, Moves(q, Free), req[q].at \in {"burn", "members", "revoke"},
         \A r \in Requests \ {q} : r \in Issuing => req'[r].crossed,
         UNCHANGED <<password, mfa, secrets, made, proven>>,
         keys' \subseteq keys, metas' \subseteq metas, listed' \subseteq listed,
         NEW S \in SUBSET Things, past' = [past EXCEPT !.excused = @ \cup S],
         \A t \in keys' : <<"token", t>> \in past'.excused,
         req[q].at = "burn" => <<"link", req[q].arg>> \in past'.excused
  PROVE  SessInv'
<1>1. /\ PastOK' /\ Remembers /\ past'.excused = past.excused \cup S
      /\ past'.used = past.used /\ past'.reused = past.reused /\ past'.ended = past.ended
  BY Excusing DEF SessInv, SessTypes
<1>2. StoreOK' /\ Tokens' = Tokens /\ made.link \in Nat /\ password \in Nat
  BY StoreStays DEF SessInv, SessTypes
<1>3. HandlersOK'
  BY <1>2, FreeOK, HandlersStay DEF SessInv, SessTypes
<1>4. LinkQuiet(q) /\ TokenQuiet(q) /\ MfaQuiet(q) /\ ListQuiet(q) /\ EndedQuiet(q)
  BY DEF Moves, Free, LinkQuiet, TokenQuiet, MfaQuiet, ListQuiet, EndedQuiet
<1>5. \A r \in Requests : LinkQuiet(r) /\ TokenQuiet(r) /\ MfaQuiet(r) /\ ListQuiet(r) /\ EndedQuiet(r)
  BY <1>4, OthersQuiet DEF Quiet
<1>6. LinksOnce'
  BY <1>1, <1>5, LinksStay DEF SessInv, UsesInv
<1>7. TokensOnce'
  BY <1>1, <1>5, TokensStay DEF SessInv, UsesInv
<1>8. ChallengesOnce' /\ UsedTwiceOnlyByOverlap'
  BY <1>1 DEF SessInv, UsesInv, ChallengesOnce, UsedTwiceOnlyByOverlap
<1>9. MfaInv'
  BY <1>1, <1>5, MfaStays DEF SessInv
<1>10. ListInv'
  <2>1. \A t \in keys' : Excused(t)'
    BY DEF Excused
  <2> QED BY <1>1, <1>5, <2>1, ListStays DEF SessInv
<1>11. ResetInv'
  <2>1. ASSUME NEW r \in Requests, req'[r].op \in {"login", "refresh", "switch"} PROVE req'[r].crossed
    <3>1. r # q
      BY <2>1 DEF Moves, Free
    <3>2. req[r].op \in {"login", "refresh", "switch"}
      BY <2>1, <3>1, OthersQuiet DEF Fields
    <3> QED BY <3>1, <3>2 DEF Issuing
  <2> QED BY <2>1, ResetOver
<1>12. EndedInv'
  BY <1>1, <1>5, EndedStays DEF SessInv
<1> QED BY <1>1, <1>2, <1>3, <1>6, <1>7, <1>8, <1>9, <1>10, <1>11, <1>12 DEF SessInv, SessTypes, UsesInv

(***************************************************************************)
(* revokeUserSessions deletes the keys it has read.                        *)
(***************************************************************************)
LEMMA RevokeDeleteKeeps ==
  ASSUME SessInv, NEW q \in Requests, RevokeDelete(q)
  PROVE  SessInv'
<1>1. PICK L : L = req[q].snap
  OBVIOUS
<1>2. /\ req[q].at = "revoke" /\ keys' = keys \ L /\ metas' = metas \ L /\ listed' = {}
      /\ UNCHANGED <<password, mfa, secrets, made, proven>> /\ past' = past
      /\ GoesAcross(q, "idle", Issuing)
  BY <1>1 DEF RevokeDelete
<1>3. \A r \in Issuing : req[r].op # "none"
  BY DEF Issuing
<1>4. Moves(q, Free) /\ \A r \in Requests \ {q} : r \in Issuing => req'[r].crossed
  BY <1>2, <1>3, HandlerKnown, GoesAcrossMoves
<1>5. PICK S \in SUBSET Things : S = {}
  OBVIOUS
<1>6. past' = [past EXCEPT !.excused = @ \cup S]
  BY <1>2, <1>5 DEF SessInv, SessTypes, PastOK
<1>7. \A t \in keys' : <<"token", t>> \in past'.excused
  BY <1>1, <1>2 DEF SessInv, ListInv, Excused
<1> QED BY <1>2, <1>4, <1>6, <1>7, RevokedKeeps

(***************************************************************************)
(* A client that leaves a logout or a reset half way leaves what is        *)
(* excused; it leaves the other handlers with nothing to undo.             *)
(***************************************************************************)
LEMMA ClientLeavesKeeps ==
  ASSUME SessInv, NEW q \in Requests, ClientLeaves(q)
  PROVE  SessInv'
<1>1. UNCHANGED <<password, mfa, keys, metas, listed, secrets, made, proven>>
  BY DEF ClientLeaves, redisVars
<1>2. req[q].arg \in Nat /\ keys \subseteq Nat
  BY SMTT(30), HandlerKnown, OperationOfStep DEF SessInv, SessTypes, StoreOK, Tokens
<1>3. CASE req[q].at \in {"burn", "members", "revoke"}
  <2>1. PICK S : S = {<<"token", t>> : t \in keys} \cup {<<"link", req[q].arg>>}
    OBVIOUS
  <2>2. GoesAcross(q, "idle", Issuing) /\ past' = [past EXCEPT !.excused = @ \cup S]
    BY <1>3, <2>1 DEF ClientLeaves, Excuse
  <2>3. S \in SUBSET Things
    BY <1>2, <2>1 DEF Things
  <2>4. \A r \in Issuing : req[r].op # "none"
    BY DEF Issuing
  <2>5. Moves(q, Free) /\ \A r \in Requests \ {q} : r \in Issuing => req'[r].crossed
    BY <2>2, <2>4, HandlerKnown, GoesAcrossMoves
  <2>6. past'.excused = past.excused \cup S
    BY <2>2 DEF SessInv, SessTypes, PastOK
  <2>7. /\ \A t \in keys' : <<"token", t>> \in past'.excused
        /\ <<"link", req[q].arg>> \in past'.excused
    BY <1>1, <2>1, <2>6
  <2> QED BY <1>1, <1>3, <2>2, <2>3, <2>5, <2>7, RevokedKeeps
<1>4. CASE req[q].at \notin {"burn", "members", "revoke"}
  <2>1. PICK S : S = IF req[q].at = "delete" THEN {<<"token", req[q].arg>>} ELSE {}
    OBVIOUS
  <2>2. GoesAcross(q, "idle", {}) /\ past' = [past EXCEPT !.excused = @ \cup S]
    BY <1>4, <2>1 DEF ClientLeaves, Excuse
  <2>3. S \in SUBSET Things
    BY <1>2, <2>1 DEF Things
  <2>4. Moves(q, Free)
    BY <2>2, HandlerKnown, GoesAcrossMoves
  <2>5. past'.excused = past.excused \cup S
    BY <2>2 DEF SessInv, SessTypes, PastOK
  <2>6. Quiet(q)
    BY <1>4, <2>1, <2>4, <2>5 DEF Moves, Free, Quiet, LinkQuiet, TokenQuiet, MfaQuiet, ListQuiet, ResetQuiet, EndedQuiet
  <2> QED BY <1>1, <2>2, <2>3, <2>4, <2>6, FreeOK, QuietStep
<1> QED BY <1>3, <1>4

-----------------------------------------------------------------------------
\* A secret is made: its number is a new one.
LEMMA Making ==
  ASSUME StoreOK, PastOK, NEW kind \in {"link", "challenge"}, NEW bound, NEW live \in SUBSET secrets,
         Make(kind, bound, live), UNCHANGED <<password, mfa, keys, metas, listed, proven, past>>
  PROVE  /\ StoreOK' /\ PastOK' /\ Tokens' = Tokens
         /\ made.link \in Nat /\ made'.link \in Nat /\ made.link <= made'.link /\ password \in Nat
         /\ \A x \in secrets' : x \in past.used => x \in secrets
<1>1. CASE made[kind] < bound
  <2>1. made' = [made EXCEPT ![kind] = @ + 1] /\ secrets' = live \cup {<<kind, made[kind] + 1>>}
    BY <1>1 DEF Make
  <2>2. PICK old : old = made[kind]
    OBVIOUS
  <2>3. old \in Nat
    BY <2>2 DEF StoreOK
  <2>4. CASE kind = "link"
    <3>1. /\ made' \in [link : Nat, challenge : Nat, totp : Nat]
          /\ made'.link = old + 1 /\ made.link = old /\ made'.challenge = made.challenge
      <4>1. made \in [link : Nat, challenge : Nat, totp : Nat]
        BY DEF StoreOK
      <4>2. made.link = old
        BY <2>2, <2>4
      <4>3. made' = [made EXCEPT !["link"] = old + 1]
        BY <2>1, <2>2, <2>4
      <4> QED BY <2>3, <4>1, <4>2, <4>3
    <3>2. secrets' = live \cup {<<"link", old + 1>>}
      BY <2>1, <2>2, <2>4
    <3>3. secrets' \subseteq {"link", "challenge"} \X Nat
      BY <2>3, <3>2 DEF StoreOK
    <3>4. ASSUME NEW x \in secrets' PROVE x[2] <= made'[x[1]]
      <4>1. CASE x \in secrets
        <5>1. x \in {"link", "challenge"} \X Nat /\ x[2] <= made[x[1]]
          BY <4>1 DEF StoreOK
        <5> QED BY <2>3, <3>1, <5>1
      <4>2. CASE x = <<"link", old + 1>>
        BY <2>3, <3>1, <4>2
      <4> QED BY <3>2, <3>4, <4>1, <4>2
    <3>5. StoreOK'
      BY <3>1, <3>3, <3>4 DEF StoreOK, Tokens
    <3>6. PastOK' /\ Tokens' = Tokens
      BY <2>3, <3>1 DEF StoreOK, PastOK, Tokens
    <3>7. \A x \in secrets' : x \in past.used => x \in secrets
      <4>1. PICK n \in Nat : n = old + 1
        BY <2>3
      <4>2. <<"link", n>> \in past.used => n <= made.link
        BY DEF PastOK
      <4>3. ~(n <= made.link)
        BY <2>3, <3>1, <4>1
      <4> QED BY <3>2, <4>1, <4>2, <4>3
    <3>8. password \in Nat
      BY DEF StoreOK
    <3> QED BY <2>3, <3>1, <3>5, <3>6, <3>7, <3>8
  <2>5. CASE kind = "challenge"
    <3>1. /\ made' \in [link : Nat, challenge : Nat, totp : Nat]
          /\ made'.challenge = old + 1 /\ made.challenge = old /\ made'.link = made.link /\ made.link \in Nat
      <4>1. made \in [link : Nat, challenge : Nat, totp : Nat]
        BY DEF StoreOK
      <4>2. made.challenge = old
        BY <2>2, <2>5
      <4>3. made' = [made EXCEPT !["challenge"] = old + 1]
        BY <2>1, <2>2, <2>5
      <4> QED BY <2>3, <4>1, <4>2, <4>3
    <3>2. secrets' = live \cup {<<"challenge", old + 1>>}
      BY <2>1, <2>2, <2>5
    <3>3. secrets' \subseteq {"link", "challenge"} \X Nat
      BY <2>3, <3>2 DEF StoreOK
    <3>4. ASSUME NEW x \in secrets' PROVE x[2] <= made'[x[1]]
      <4>1. CASE x \in secrets
        <5>1. x \in {"link", "challenge"} \X Nat /\ x[2] <= made[x[1]]
          BY <4>1 DEF StoreOK
        <5> QED BY <2>3, <3>1, <5>1
      <4>2. CASE x = <<"challenge", old + 1>>
        BY <2>3, <3>1, <4>2
      <4> QED BY <3>2, <3>4, <4>1, <4>2
    <3>5. StoreOK'
      BY <3>1, <3>3, <3>4 DEF StoreOK, Tokens
    <3>6. PastOK' /\ Tokens' = Tokens
      BY <2>3, <3>1 DEF StoreOK, PastOK, Tokens
    <3>7. \A x \in secrets' : x \in past.used => x \in secrets
      <4>1. PICK n \in Nat : n = old + 1
        BY <2>3
      <4>2. <<"challenge", n>> \in past.used => n <= made.challenge
        BY DEF PastOK
      <4>3. ~(n <= made.challenge)
        BY <2>3, <3>1, <4>1
      <4> QED BY <3>2, <4>1, <4>2, <4>3
    <3>8. password \in Nat
      BY DEF StoreOK
    <3> QED BY <2>3, <3>1, <3>5, <3>6, <3>7, <3>8
  <2> QED BY <2>4, <2>5
<1>2. CASE ~(made[kind] < bound)
  BY <1>2, StoreStays, NothingPast DEF Make, StoreOK
<1> QED BY <1>1, <1>2

(***************************************************************************)
(* forgotPassword makes a link nobody holds.                               *)
(***************************************************************************)
LEMMA ForgotPasswordKeeps ==
  ASSUME SessInv, ForgotPassword
  PROVE  SessInv'
<1>1. /\ Make("link", MaxLinks, secrets) /\ req' = req
      /\ UNCHANGED <<password, mfa, keys, metas, listed, proven, past>>
  BY DEF ForgotPassword
<1>2. PICK live \in SUBSET secrets : live = secrets
  OBVIOUS
<1>3. /\ StoreOK' /\ PastOK' /\ Tokens' = Tokens
      /\ made.link \in Nat /\ made'.link \in Nat /\ made.link <= made'.link /\ password \in Nat
      /\ \A x \in secrets' : x \in past.used => x \in secrets
  BY <1>1, <1>2, Making DEF SessInv, SessTypes
<1>4. HandlersOK'
  BY <1>1, <1>3, HandlersRest DEF SessInv, SessTypes
<1>5. Remembers /\ \A r \in Requests : Quiet(r)
  BY <1>1, FieldsQuiet DEF Fields, Remembers
<1>6. UsesInv' /\ MfaInv' /\ ListInv' /\ ResetInv' /\ EndedInv'
  BY <1>1, <1>3, <1>5, QuietKeeps DEF SessInv
<1> QED BY <1>3, <1>4, <1>6 DEF SessInv, SessTypes

\* What the use of a secret adds to the past.
LEMMA Using ==
  ASSUME PastOK, NEW kind \in {"link", "challenge"}, NEW n \in Nat, n <= made[kind],
         past' = Use(<<kind, n>>), proven' = proven, made' = made
  PROVE  /\ PastOK' /\ Remembers /\ past'.used = past.used \cup {<<kind, n>>}
         /\ past'.ended = past.ended /\ past'.excused = past.excused
         /\ past'.reused = IF <<kind, n>> \in past.used THEN past.reused \cup {<<kind, n>>} ELSE past.reused
<1>1. PICK R : R = IF <<kind, n>> \in past.used THEN past.reused \cup {<<kind, n>>} ELSE past.reused
  OBVIOUS
<1>2. PICK U : U = past.used \cup {<<kind, n>>}
  OBVIOUS
<1>3. past' = [past EXCEPT !.used = U, !.reused = R]
  BY <1>1, <1>2 DEF Use, PastOK
<1>4. past'.used = U /\ past'.reused = R /\ past'.ended = past.ended /\ past'.excused = past.excused
  BY <1>3 DEF PastOK
<1>5. past' \in [used : SUBSET ({"link", "challenge", "token", "totp"} \X Nat),
                 reused : SUBSET ({"link", "challenge", "token", "totp"} \X Nat),
                 ended : SUBSET Tokens,
                 excused : SUBSET ({"link", "challenge", "token", "totp"} \X Nat)]
  <2>1. PICK T : T = SUBSET ({"link", "challenge", "token", "totp"} \X Nat)
    OBVIOUS
  <2>2. past \in [used : T, reused : T, ended : SUBSET Tokens, excused : T]
    BY <2>1 DEF PastOK
  <2>3. past.used \in T /\ past.reused \in T
    BY <2>2
  <2>4. <<kind, n>> \in {"link", "challenge", "token", "totp"} \X Nat
    OBVIOUS
  <2>5. U \in T /\ R \in T
    BY <1>1, <1>2, <2>1, <2>3, <2>4
  <2>6. past' \in [used : T, reused : T, ended : SUBSET Tokens, excused : T]
    BY <1>3, <2>2, <2>5
  <2> QED BY <2>1, <2>6
<1>6. ASSUME NEW m \in Nat
      PROVE  /\ <<"link", m>> \in past'.used => m <= made.link
             /\ <<"challenge", m>> \in past'.used => m <= made.challenge
             /\ <<"token", m>> \in past'.used => m \in Tokens
  BY <1>2, <1>4 DEF PastOK
<1>7. PastOK'
  BY <1>5, <1>6 DEF PastOK, Tokens
<1> QED BY <1>1, <1>2, <1>4, <1>7 DEF Remembers

(***************************************************************************)
(* A challenge is answered with another one, or is gone and goes on to a   *)
(* session.                                                                *)
(***************************************************************************)
LEMMA LoginMFAKeeps ==
  ASSUME SessInv, NEW q \in Requests, LoginMFA(q)
  PROVE  SessInv'
<1>1. UNCHANGED <<password, mfa, keys, metas, listed, proven>>
  BY DEF LoginMFA
<1>2. CASE /\ req[q].at \in {"mfa", "locked"}
           /\ \/ Make("challenge", MaxChallenges, secrets)
              \/ \E c \in Live("challenge") : Make("challenge", MaxChallenges, ConsumeChallenge(c))
           /\ Goes(q, "idle")
           /\ UNCHANGED past
  <2>1. Moves(q, Free)
    BY <1>2, HandlerKnown, GoesMoves
  <2>2. PICK live \in SUBSET secrets : Make("challenge", MaxChallenges, live)
    BY <1>2 DEF ConsumeChallenge
  <2>3. /\ StoreOK' /\ PastOK' /\ Tokens' = Tokens
        /\ made.link \in Nat /\ made'.link \in Nat /\ made.link <= made'.link /\ password \in Nat
        /\ \A x \in secrets' : x \in past.used => x \in secrets
    BY <1>1, <1>2, <2>2, Making DEF SessInv, SessTypes
  <2>4. HandlersOK'
    BY <1>1, <2>1, <2>3, FreeOK, HandlersStay DEF SessInv, SessTypes
  <2>5. Quiet(q)
    BY <1>2, <2>1, IdleQuiet DEF Moves
  <2>6. Remembers /\ \A r \in Requests : Quiet(r)
    BY <1>2, <2>1, <2>5, OthersQuiet DEF Remembers
  <2>7. UsesInv' /\ MfaInv' /\ ListInv' /\ ResetInv' /\ EndedInv'
    BY <1>1, <1>2, <2>3, <2>6, QuietKeeps DEF SessInv
  <2> QED BY <2>3, <2>4, <2>7 DEF SessInv, SessTypes
<1>3. CASE /\ req[q].at = "mfa"
           /\ \E c \in Live("challenge") : secrets' = ConsumeChallenge(c) /\ past' = Use(c)
           /\ Goes(q, "issue")
           /\ UNCHANGED made
  <2>1. PICK next : next = At(req[q], "issue")
    OBVIOUS
  <2>2. Moves(q, next) /\ HandlerOK(next) /\ req[q].op = "login"
    BY <1>3, <2>1, HandlerKnown, GoesMoves, OperationOfStep, NextStepOK
  <2>3. PICK c \in Live("challenge") : secrets' = secrets \ {c} /\ past' = Use(c)
    BY <1>3 DEF ConsumeChallenge
  <2>4. PICK n \in Nat : c = <<"challenge", n>> /\ n <= made.challenge /\ c \in secrets
    <3>1. c \in secrets /\ c[1] = "challenge" /\ c \in {"link", "challenge"} \X Nat /\ c[2] <= made[c[1]]
      BY DEF Live, SessInv, SessTypes, StoreOK
    <3> QED BY <3>1
  <2>5. /\ PastOK' /\ Remembers /\ past'.used = past.used \cup {c}
        /\ past'.ended = past.ended /\ past'.excused = past.excused /\ past'.reused = past.reused
    <3>1. c \notin past.used
      BY <2>4 DEF SessInv, UsesInv, ChallengesOnce
    <3> QED BY <1>1, <1>3, <2>3, <2>4, <3>1, Using DEF SessInv, SessTypes
  <2>6. StoreOK' /\ Tokens' = Tokens /\ made.link \in Nat /\ password \in Nat
    BY <1>1, <1>3, <2>3, StoreStays DEF SessInv, SessTypes
  <2>7. HandlersOK'
    BY <1>1, <1>3, <2>2, <2>6, HandlersStay DEF SessInv, SessTypes
  <2>8. Quiet(q)
    BY <1>3, <2>1, <2>2 DEF Moves, At, Quiet, LinkQuiet, TokenQuiet, MfaQuiet, ListQuiet, ResetQuiet, EndedQuiet
  <2>9. \A r \in Requests : Quiet(r)
    BY <2>2, <2>8, OthersQuiet
  <2>10. LinksOnce' /\ TokensOnce'
    BY <1>1, <2>3, <2>4, <2>5, <2>9, LinksStay, TokensStay DEF SessInv, UsesInv, Quiet
  <2>11. ChallengesOnce' /\ UsedTwiceOnlyByOverlap'
    BY <2>3, <2>4, <2>5 DEF SessInv, UsesInv, ChallengesOnce, UsedTwiceOnlyByOverlap
  <2>12. MfaInv' /\ ListInv' /\ ResetInv' /\ EndedInv'
    BY <1>1, <2>5, <2>9, MfaStays, ListStays, ResetStays, EndedStays DEF SessInv, Quiet
  <2> QED BY <2>5, <2>6, <2>7, <2>10, <2>11, <2>12 DEF SessInv, SessTypes, UsesInv
<1> QED BY <1>2, <1>3 DEF LoginMFA

-----------------------------------------------------------------------------
\* A reset takes a live link: nobody else holds it, or the link is excused.
LEMMA LinkTaken ==
  ASSUME LinksOnce, Remembers, NEW q \in Requests, NEW n \in Nat,
         req[q] = Free, req'[q].at = "update", req'[q].arg = n,
         \A r \in Requests \ {q} : LinkQuiet(r),
         past'.used = past.used, secrets' = secrets, <<"link", n>> \in secrets,
         (\E r \in Requests : HoldsLink(r, n)) => <<"link", n>> \in past'.excused
  PROVE  LinksOnce'
<1> SUFFICES ASSUME NEW m \in Nat, <<"link", m>> \notin past'.excused
             PROVE  /\ \A p, r \in Requests : HoldsLink(p, m)' /\ HoldsLink(r, m)' => p = r
                    /\ <<"link", m>> \in past'.used =>
                         /\ \A r \in Requests : ~(req'[r].at = "update" /\ req'[r].arg = m)
                         /\ \/ <<"link", m>> \notin secrets'
                            \/ \E r \in Requests : req'[r].at = "burn" /\ req'[r].arg = m
  BY DEF LinksOnce
<1>1. <<"link", m>> \notin past.excused
  BY DEF Remembers
<1>2. \A r \in Requests \ {q} : HoldsLink(r, m)' => HoldsLink(r, m)
  BY DEF HoldsLink, LinkQuiet
<1>3. CASE m = n
  <2>1. \A r \in Requests : ~HoldsLink(r, m)
    BY <1>3
  <2>2. \A r \in Requests \ {q} : ~HoldsLink(r, m)'
    BY <1>2, <2>1
  <2>3. <<"link", m>> \notin past'.used
    BY <1>1, <1>3, <2>1 DEF LinksOnce, HoldsLink
  <2> QED BY <2>2, <2>3
<1>4. CASE m # n
  <2>1. ~HoldsLink(q, m)'
    BY <1>4 DEF HoldsLink
  <2>2. \A p, r \in Requests : HoldsLink(p, m)' /\ HoldsLink(r, m)' => p = r
    BY <1>1, <1>2, <2>1 DEF LinksOnce
  <2>3. ASSUME <<"link", m>> \in past'.used
        PROVE  /\ \A r \in Requests : ~(req'[r].at = "update" /\ req'[r].arg = m)
               /\ \/ <<"link", m>> \notin secrets'
                  \/ \E r \in Requests : req'[r].at = "burn" /\ req'[r].arg = m
    <3>1. /\ \A r \in Requests : ~(req[r].at = "update" /\ req[r].arg = m)
          /\ <<"link", m>> \notin secrets \/ \E r \in Requests : req[r].at = "burn" /\ req[r].arg = m
      BY <1>1, <2>3 DEF LinksOnce
    <3>2. \A r \in Requests : ~(req'[r].at = "update" /\ req'[r].arg = m)
      BY <1>4, <3>1 DEF LinkQuiet
    <3>3. CASE <<"link", m>> \notin secrets
      BY <3>2, <3>3
    <3>4. CASE \E r \in Requests : req[r].at = "burn" /\ req[r].arg = m
      <4>1. PICK r \in Requests : req[r].at = "burn" /\ req[r].arg = m
        BY <3>4
      <4>2. r # q /\ LinkQuiet(r)
        BY <4>1 DEF Free
      <4> QED BY <3>2, <4>1, <4>2 DEF LinkQuiet
    <3> QED BY <3>1, <3>3, <3>4
  <2> QED BY <2>2, <2>3
<1> QED BY <1>3, <1>4

(***************************************************************************)
(* resetPassword takes a link.                                             *)
(***************************************************************************)
LEMMA ResetPasswordKeeps ==
  ASSUME SessInv, NEW q \in Requests, ResetPassword(q)
  PROVE  SessInv'
<1>1. PICK x \in Live("link") :
        /\ Starts(q, "reset", "update", x[2], 0, FALSE)
        /\ IF \E r \in Requests : req[r].op = "reset" /\ req[r].at \in {"update", "burn"} /\ req[r].arg = x[2]
             THEN Excuse({x}) ELSE UNCHANGED past
  BY DEF ResetPassword
<1>2. PICK n \in Nat : x = <<"link", n>> /\ n = x[2] /\ n <= made.link /\ x \in secrets
  <2>1. x \in secrets /\ x[1] = "link" /\ x \in {"link", "challenge"} \X Nat /\ x[2] <= made[x[1]]
    BY DEF Live, SessInv, SessTypes, StoreOK
  <2> QED BY <2>1
<1>3. UNCHANGED <<password, mfa, keys, metas, listed, secrets, made, proven>>
  BY DEF ResetPassword, redisVars
<1>4. PICK next : next = [op |-> "reset", at |-> "update", arg |-> n, ver |-> 0, snap |-> {}, crossed |-> FALSE]
  OBVIOUS
<1>5. Starts(q, "reset", "update", n, 0, FALSE)
  BY <1>1, <1>2
<1>6. Moves(q, next) /\ req[q] = Free
  BY <1>4, <1>5, HandlerKnown, StartsMoves
<1>7. HandlerOK(next)
  BY <1>2, <1>4, PasswordNumber DEF HandlerOK, SessReq, StepOf
<1>8. /\ PastOK' /\ Remembers
      /\ past'.used = past.used /\ past'.reused = past.reused /\ past'.ended = past.ended
      /\ (\E r \in Requests : HoldsLink(r, n)) => <<"link", n>> \in past'.excused
  <2>1. CASE \E r \in Requests : HoldsLink(r, n)
    <3>1. \E r \in Requests : req[r].op = "reset" /\ req[r].at \in {"update", "burn"} /\ req[r].arg = x[2]
      BY <1>2, <2>1, HandlerKnown, OperationOfStep DEF HoldsLink
    <3>2. PICK S \in SUBSET Things : S = {x}
      <4>1. x \in Things
        BY <1>2 DEF Things
      <4> QED BY <4>1
    <3>3. past' = [past EXCEPT !.excused = @ \cup S]
      BY <1>1, <3>1, <3>2 DEF Excuse
    <3> QED BY <1>2, <1>3, <3>2, <3>3, Excusing DEF SessInv, SessTypes
  <2>2. CASE ~ \E r \in Requests : HoldsLink(r, n)
    <3>1. ~ \E r \in Requests : req[r].op = "reset" /\ req[r].at \in {"update", "burn"} /\ req[r].arg = x[2]
      BY <1>2, <2>2 DEF HoldsLink
    <3> QED BY <1>1, <1>3, <2>2, <3>1, NothingPast DEF SessInv, SessTypes
  <2> QED BY <2>1, <2>2
<1>9. StoreOK' /\ Tokens' = Tokens /\ made.link \in Nat /\ password \in Nat
  BY <1>3, StoreStays DEF SessInv, SessTypes
<1>10. HandlersOK'
  BY <1>3, <1>6, <1>7, <1>9, HandlersStay DEF SessInv, SessTypes
<1>11. TokenQuiet(q) /\ MfaQuiet(q) /\ ListQuiet(q) /\ ResetQuiet(q) /\ EndedQuiet(q)
  BY <1>4, <1>6 DEF Moves, Free, TokenQuiet, MfaQuiet, ListQuiet, ResetQuiet, EndedQuiet
<1>12. \A r \in Requests : TokenQuiet(r) /\ MfaQuiet(r) /\ ListQuiet(r) /\ ResetQuiet(r) /\ EndedQuiet(r)
  BY <1>6, <1>11, OthersQuiet DEF Quiet
<1>13. LinksOnce'
  <2>1. req'[q].at = "update" /\ req'[q].arg = n
    BY <1>4, <1>6 DEF Moves
  <2>2. \A r \in Requests \ {q} : LinkQuiet(r)
    BY <1>6, OthersQuiet DEF Quiet
  <2> QED BY <1>2, <1>3, <1>6, <1>8, <2>1, <2>2, LinkTaken DEF SessInv, UsesInv
<1>14. TokensOnce'
  BY <1>3, <1>8, <1>12, TokensStay DEF SessInv, UsesInv
<1>15. ChallengesOnce' /\ UsedTwiceOnlyByOverlap'
  BY <1>3, <1>8 DEF SessInv, UsesInv, ChallengesOnce, UsedTwiceOnlyByOverlap, Remembers
<1>16. MfaInv' /\ ListInv' /\ ResetInv' /\ EndedInv'
  BY <1>3, <1>8, <1>12, MfaStays, ListStays, ResetStays, EndedStays DEF SessInv
<1> QED BY <1>8, <1>9, <1>10, <1>13, <1>14, <1>15, <1>16 DEF SessInv, SessTypes, UsesInv

(***************************************************************************)
(* resetPassword writes the password: the reset has its sessions still to  *)
(* revoke.                                                                 *)
(***************************************************************************)
LEMMA ResetUpdateKeeps ==
  ASSUME SessInv, NEW q \in Requests, ResetUpdate(q)
  PROVE  SessInv'
<1>1. PICK n : n = req[q].arg
  OBVIOUS
<1>2. PICK next : next = At(req[q], "burn")
  OBVIOUS
<1>3. /\ UNCHANGED <<mfa, keys, metas, listed, secrets, made, proven>>
      /\ password' = password + 1 /\ past' = Use(<<"link", n>>) /\ req[q].at = "update"
  BY <1>1 DEF ResetUpdate, redisVars
<1>4. req[q].op = "reset" /\ n \in Nat /\ n <= made.link
  BY <1>1, <1>3, HandlerKnown, OperationOfStep
<1>5. Moves(q, next) /\ HandlerOK(next)
  BY <1>2, <1>4, HandlerKnown, GoesMoves, NextStepOK DEF ResetUpdate
<1>6. req'[q].at = "burn" /\ req'[q].arg = n /\ req'[q].op = "reset"
  BY <1>1, <1>2, <1>4, <1>5 DEF Moves, At
<1>7. /\ PastOK' /\ Remembers /\ past'.used = past.used \cup {<<"link", n>>}
      /\ past'.ended = past.ended /\ past'.excused = past.excused
      /\ past'.reused = IF <<"link", n>> \in past.used THEN past.reused \cup {<<"link", n>>} ELSE past.reused
  BY <1>3, <1>4, Using DEF SessInv, SessTypes
<1>8. StoreOK' /\ Tokens' = Tokens /\ made.link \in Nat /\ password \in Nat
  BY SMTT(30), <1>3 DEF SessInv, SessTypes, StoreOK, Tokens
<1>9. HandlersOK'
  BY <1>3, <1>5, <1>8, HandlersStay DEF SessInv, SessTypes
<1>10. TokenQuiet(q) /\ MfaQuiet(q) /\ ListQuiet(q) /\ EndedQuiet(q)
  BY <1>3, <1>6 DEF TokenQuiet, MfaQuiet, ListQuiet, EndedQuiet
<1>11. \A r \in Requests : TokenQuiet(r) /\ MfaQuiet(r) /\ ListQuiet(r) /\ EndedQuiet(r)
  BY <1>5, <1>10, OthersQuiet DEF Quiet
<1>12. ASSUME NEW m \in Nat, <<"link", m>> \notin past'.excused
       PROVE  /\ \A p, r \in Requests : HoldsLink(p, m)' /\ HoldsLink(r, m)' => p = r
              /\ <<"link", m>> \in past'.used =>
                   /\ \A r \in Requests : ~(req'[r].at = "update" /\ req'[r].arg = m)
                   /\ \/ <<"link", m>> \notin secrets'
                      \/ \E r \in Requests : req'[r].at = "burn" /\ req'[r].arg = m
  <2>1. <<"link", m>> \notin past.excused /\ LinksOnce
    BY <1>7, <1>12 DEF SessInv, UsesInv
  <2>2. \A r \in Requests \ {q} : LinkQuiet(r)
    BY <1>5, OthersQuiet DEF Quiet
  <2>3. \A r \in Requests : HoldsLink(r, m)' => HoldsLink(r, m)
    <3>1. HoldsLink(q, m)' => HoldsLink(q, m)
      BY <1>1, <1>3, <1>6 DEF HoldsLink
    <3>2. \A r \in Requests \ {q} : HoldsLink(r, m)' => HoldsLink(r, m)
      BY <2>2 DEF HoldsLink, LinkQuiet
    <3> QED BY <3>1, <3>2
  <2>4. \A p, r \in Requests : HoldsLink(p, m)' /\ HoldsLink(r, m)' => p = r
    BY <2>1, <2>3 DEF LinksOnce
  <2>5. CASE m = n
    <3>1. \A r \in Requests : req'[r].at = "update" /\ req'[r].arg = m => r = q
      BY <1>6, <2>4, <2>5 DEF HoldsLink
    <3> QED BY <1>6, <2>4, <2>5, <3>1
  <2>6. CASE m # n /\ <<"link", m>> \in past'.used
    <3>1. /\ \A r \in Requests : ~(req[r].at = "update" /\ req[r].arg = m)
          /\ <<"link", m>> \notin secrets \/ \E r \in Requests : req[r].at = "burn" /\ req[r].arg = m
      BY <1>7, <2>1, <2>6 DEF LinksOnce
    <3>2. \A r \in Requests : ~(req'[r].at = "update" /\ req'[r].arg = m)
      BY <1>6, <2>2, <3>1 DEF LinkQuiet
    <3>3. CASE <<"link", m>> \notin secrets
      BY <1>3, <2>4, <3>2, <3>3
    <3>4. CASE \E r \in Requests : req[r].at = "burn" /\ req[r].arg = m
      <4>1. PICK r \in Requests : req[r].at = "burn" /\ req[r].arg = m
        BY <3>4
      <4>2. r # q /\ LinkQuiet(r)
        BY <1>3, <2>2, <4>1
      <4> QED BY <1>12, <2>4, <3>2, <4>1, <4>2 DEF LinkQuiet
    <3> QED BY <3>1, <3>3, <3>4
  <2> QED BY <2>4, <2>5, <2>6
<1>13. LinksOnce'
  BY <1>12 DEF LinksOnce
<1>14. TokensOnce'
  BY <1>3, <1>7, <1>11, TokensStay DEF SessInv, UsesInv
<1>15. ChallengesOnce' /\ UsedTwiceOnlyByOverlap'
  <2>1. <<"link", n>> \in past.used => <<"link", n>> \in past.excused
    BY <1>1, <1>3, <1>4 DEF SessInv, UsesInv, LinksOnce
  <2> QED BY <1>3, <1>7, <2>1 DEF SessInv, UsesInv, ChallengesOnce, UsedTwiceOnlyByOverlap
<1>16. MfaInv' /\ ListInv' /\ EndedInv'
  BY <1>3, <1>7, <1>11, MfaStays, ListStays, EndedStays DEF SessInv
<1>17. ResetInv'
  BY <1>6, ResetGoesOn DEF Resetting, Holding
<1> QED BY <1>7, <1>8, <1>9, <1>13, <1>14, <1>15, <1>16, <1>17 DEF SessInv, SessTypes, UsesInv

-----------------------------------------------------------------------------
(***************************************************************************)
(* refresh takes a token whose key is there: nobody else is past its       *)
(* deletion.                                                               *)
(***************************************************************************)
LEMMA RefreshKeeps ==
  ASSUME SessInv, NEW q \in Requests, Refresh(q)
  PROVE  SessInv'
<1>1. PICK t \in keys :
        /\ Starts(q, "refresh", "drop", t, proven[t], <<"token", t>> \in past.excused)
        /\ IF \E r \in Requests : req[r].op = "refresh" /\ req[r].at = "drop" /\ req[r].arg = t
             THEN Excuse({<<"token", t>>}) ELSE UNCHANGED past
  BY DEF Refresh
<1>2. UNCHANGED <<password, mfa, keys, metas, listed, secrets, made, proven>>
  BY DEF Refresh, redisVars
<1>3. t \in Tokens /\ t \in Nat
  BY DEF SessInv, SessTypes, StoreOK, Tokens
<1>4. PICK v \in Nat : v = proven[t] /\ v <= password
  BY SMTT(30), <1>3 DEF SessInv, SessTypes, StoreOK, Tokens
<1>5. PICK crossed \in BOOLEAN : crossed = (<<"token", t>> \in past.excused)
  <2>1. (<<"token", t>> \in past.excused) \in BOOLEAN
    OBVIOUS
  <2> QED BY <2>1, Zenon
<1>6. PICK next : next = [op |-> "refresh", at |-> "drop", arg |-> t, ver |-> v, snap |-> {}, crossed |-> crossed]
  OBVIOUS
<1>7. Starts(q, "refresh", "drop", t, v, crossed)
  BY <1>1, <1>4, <1>5
<1>8. Moves(q, next) /\ req[q] = Free
  BY <1>6, <1>7, HandlerKnown, StartsMoves
<1>9. HandlerOK(next)
  BY <1>3, <1>4, <1>6, PasswordNumber DEF HandlerOK, SessReq, StepOf
<1>10. crossed <=> <<"token", t>> \in past.excused
  BY <1>5, Zenon
<1>11. /\ PastOK' /\ Remembers
       /\ past'.used = past.used /\ past'.reused = past.reused /\ past'.ended = past.ended
       /\ (\E r \in Requests : req[r].at = "drop" /\ HoldsToken(r, t)) => <<"token", t>> \in past'.excused
  <2>1. CASE \E r \in Requests : req[r].op = "refresh" /\ req[r].at = "drop" /\ req[r].arg = t
    <3>1. PICK S \in SUBSET Things : S = {<<"token", t>>}
      <4>1. <<"token", t>> \in Things
        BY <1>3 DEF Things
      <4> QED BY <4>1
    <3>2. past' = [past EXCEPT !.excused = @ \cup S]
      BY <1>1, <2>1, <3>1 DEF Excuse
    <3> QED BY <1>2, <3>1, <3>2, Excusing DEF SessInv, SessTypes
  <2>2. CASE ~ \E r \in Requests : req[r].op = "refresh" /\ req[r].at = "drop" /\ req[r].arg = t
    BY <1>1, <1>2, <2>2, NothingPast DEF SessInv, SessTypes, HoldsToken
  <2> QED BY <2>1, <2>2
<1>12. StoreOK' /\ Tokens' = Tokens /\ made.link \in Nat /\ password \in Nat
  BY <1>2, StoreStays DEF SessInv, SessTypes
<1>13. HandlersOK'
  BY <1>2, <1>8, <1>9, <1>12, HandlersStay DEF SessInv, SessTypes
<1>14. LinkQuiet(q) /\ MfaQuiet(q) /\ ListQuiet(q)
  BY <1>6, <1>8 DEF Moves, Free, LinkQuiet, MfaQuiet, ListQuiet
<1>15. ResetQuiet(q) /\ EndedQuiet(q)
  <2>1. ~crossed => v = password \/ Resetting # {}
    BY <1>4, <1>10 DEF SessInv, ResetInv, ResetEndsOldSessions, Resetting, Excused
  <2>2. t \in past.ended => crossed
    BY <1>10 DEF SessInv, EndedInv, EndedSessionsStayEnded, Excused
  <2> QED BY <1>6, <1>8, <2>1, <2>2 DEF Moves, Free, ResetQuiet, EndedQuiet
<1>16. \A r \in Requests : LinkQuiet(r) /\ MfaQuiet(r) /\ ListQuiet(r) /\ ResetQuiet(r) /\ EndedQuiet(r)
  BY <1>8, <1>14, <1>15, OthersQuiet DEF Quiet
<1>17. LinksOnce'
  BY <1>2, <1>11, <1>16, LinksStay DEF SessInv, UsesInv
<1>18. ASSUME NEW u \in Nat, ~Excused(u)'
       PROVE  /\ \A p, r \in Requests : HoldsToken(p, u)' /\ HoldsToken(r, u)' => p = r
              /\ <<"token", u>> \in past'.used => u \notin keys' /\ \A r \in Requests : ~HoldsToken(r, u)'
              /\ \A r \in Requests : HoldsToken(r, u)' /\ req'[r].at # "drop" => u \notin keys'
  <2>1. ~Excused(u) /\ TokensOnce
    BY <1>11, <1>18 DEF Excused, Remembers, SessInv, UsesInv
  <2>2. /\ \A p, r \in Requests : HoldsToken(p, u) /\ HoldsToken(r, u) => p = r
        /\ <<"token", u>> \in past.used => u \notin keys /\ \A r \in Requests : ~HoldsToken(r, u)
        /\ \A r \in Requests : HoldsToken(r, u) /\ req[r].at # "drop" => u \notin keys
    BY <2>1 DEF TokensOnce
  <2>3. \A r \in Requests \ {q} : /\ HoldsToken(r, u)' => HoldsToken(r, u)
                                  /\ req'[r].at = req[r].at
    BY <1>8, OthersQuiet DEF Fields, HoldsToken
  <2>4. HoldsToken(q, u)' <=> u = t
    BY <1>6, <1>8 DEF Moves, HoldsToken
  <2>5. req'[q].at = "drop"
    BY <1>6, <1>8 DEF Moves
  <2>6. CASE u = t
    <3>1. \A r \in Requests : ~HoldsToken(r, u)
      BY <1>11, <1>18, <2>2, <2>6 DEF Excused
    <3>2. \A r \in Requests \ {q} : ~HoldsToken(r, u)'
      BY <2>3, <3>1
    <3> QED BY <1>11, <2>2, <2>5, <2>6, <3>2
  <2>7. CASE u # t
    BY <1>2, <1>11, <2>2, <2>3, <2>4, <2>7
  <2> QED BY <2>6, <2>7
<1>19. TokensOnce'
  BY <1>18 DEF TokensOnce
<1>20. ChallengesOnce' /\ UsedTwiceOnlyByOverlap'
  BY <1>2, <1>11 DEF SessInv, UsesInv, ChallengesOnce, UsedTwiceOnlyByOverlap, Remembers
<1>21. MfaInv' /\ ListInv' /\ ResetInv' /\ EndedInv'
  BY <1>2, <1>11, <1>16, MfaStays, ListStays, ResetStays, EndedStays DEF SessInv
<1> QED BY <1>11, <1>12, <1>13, <1>17, <1>19, <1>20, <1>21 DEF SessInv, SessTypes, UsesInv

\* A step of the MFA columns: everything but MfaInv is left alone.
LEMMA MfaStep ==
  ASSUME SessInv, NEW q \in Requests, NEW next, Moves(q, next), HandlerOK(next),
         LinkQuiet(q), TokenQuiet(q), ListQuiet(q), ResetQuiet(q), EndedQuiet(q),
         UNCHANGED <<password, keys, metas, listed, secrets, proven>>,
         mfa' \in [secret : Nat, enabled : BOOLEAN],
         made' \in [link : Nat, challenge : Nat, totp : Nat],
         made'.link = made.link, made'.challenge = made.challenge,
         \/ past' = past
         \/ \E S \in SUBSET Things : past' = [past EXCEPT !.excused = @ \cup S],
         MfaInv'
  PROVE  SessInv'
<1>1. /\ PastOK' /\ Remembers
      /\ past'.used = past.used /\ past'.reused = past.reused /\ past'.ended = past.ended
  <2>1. PastOK
    BY DEF SessInv, SessTypes
  <2>2. Tokens' = Tokens
    BY DEF Tokens
  <2>3. CASE past' = past
    BY <2>1, <2>2, <2>3 DEF PastOK, Remembers
  <2>4. CASE \E S \in SUBSET Things : past' = [past EXCEPT !.excused = @ \cup S]
    <3>1. PICK S \in SUBSET Things : past' = [past EXCEPT !.excused = @ \cup S]
      BY <2>4
    <3>2. /\ past'.used = past.used /\ past'.reused = past.reused /\ past'.ended = past.ended
          /\ past'.excused = past.excused \cup S
      BY <2>1, <3>1 DEF PastOK
    <3>3. past' \in [used : SUBSET ({"link", "challenge", "token", "totp"} \X Nat),
                     reused : SUBSET ({"link", "challenge", "token", "totp"} \X Nat),
                     ended : SUBSET Tokens,
                     excused : SUBSET ({"link", "challenge", "token", "totp"} \X Nat)]
      BY <2>1, <3>1 DEF PastOK, Things
    <3>4. PastOK'
      BY <2>1, <2>2, <3>2, <3>3 DEF PastOK
    <3> QED BY <3>2, <3>4 DEF Remembers
  <2> QED BY <2>3, <2>4
<1>2. StoreOK' /\ Tokens' = Tokens /\ made.link \in Nat /\ password \in Nat
  <2>1. StoreOK
    BY DEF SessInv, SessTypes
  <2>2. ASSUME NEW x \in secrets' PROVE x[2] <= made'[x[1]]
    <3>1. x \in {"link", "challenge"} \X Nat /\ x[2] <= made[x[1]]
      BY <2>1 DEF StoreOK
    <3> QED BY <3>1
  <2> QED BY <2>1, <2>2 DEF StoreOK, Tokens
<1>3. HandlersOK'
  BY <1>2, HandlersStay DEF SessInv, SessTypes
<1>4. \A r \in Requests : LinkQuiet(r) /\ TokenQuiet(r) /\ ListQuiet(r) /\ ResetQuiet(r) /\ EndedQuiet(r)
  BY OthersQuiet DEF Quiet
<1>5. LinksOnce' /\ TokensOnce'
  BY <1>1, <1>4, LinksStay, TokensStay DEF SessInv, UsesInv
<1>6. ChallengesOnce' /\ UsedTwiceOnlyByOverlap'
  BY <1>1 DEF SessInv, UsesInv, ChallengesOnce, UsedTwiceOnlyByOverlap, Remembers
<1>7. ListInv' /\ ResetInv' /\ EndedInv'
  BY <1>1, <1>4, ListStays, ResetStays, EndedStays DEF SessInv
<1> QED BY <1>1, <1>2, <1>3, <1>5, <1>6, <1>7 DEF SessInv, SessTypes, UsesInv

(***************************************************************************)
(* mfaSetup writes a secret that is not enabled and crosses who checks the *)
(* one before.                                                             *)
(***************************************************************************)
LEMMA MfaSetupKeeps ==
  ASSUME SessInv, NEW q \in Requests, MfaSetup(q)
  PROVE  SessInv'
<1>1. PICK next : next = req[q]
  OBVIOUS
<1>2. /\ made' = [made EXCEPT !.totp = @ + 1] /\ mfa' = [secret |-> made.totp + 1, enabled |-> FALSE]
      /\ req' = [r \in Requests |-> IF r \in MfaChecks THEN [req[r] EXCEPT !.crossed = TRUE] ELSE req[r]]
      /\ UNCHANGED <<password, keys, metas, listed, secrets, proven, past>> /\ req[q].at = "idle"
  BY DEF MfaSetup, redisVars
<1>3. Moves(q, next) /\ HandlerOK(next)
  <2>1. req'[q] = next /\ DOMAIN req' = Requests
    BY <1>1, <1>2 DEF MfaChecks
  <2>2. ASSUME NEW x \in Requests \ {q} PROVE Same(x)
    <3>1. CASE x \in MfaChecks
      <4>1. req'[x] = [req[x] EXCEPT !.crossed = TRUE]
        BY <1>2, <3>1
      <4>2. req[x].op # "none"
        BY <3>1, HandlerKnown, OperationOfStep DEF MfaChecks
      <4> QED BY <4>1, <4>2, HandlerKnown, CrossedFields DEF Same
    <3>2. CASE x \notin MfaChecks
      BY <1>2, <3>2 DEF Same
    <3> QED BY <3>1, <3>2
  <2> QED BY <1>1, <2>1, <2>2, HandlerKnown DEF Moves
<1>4. Quiet(q)
  BY <1>1, <1>3, FieldsQuiet DEF Moves, Fields
<1>5. /\ made.totp + 1 \in Nat
      /\ made' \in [link : Nat, challenge : Nat, totp : Nat]
      /\ made'.link = made.link /\ made'.challenge = made.challenge
  BY SMTT(30), <1>2 DEF SessInv, SessTypes, StoreOK
<1>6. mfa' \in [secret : Nat, enabled : BOOLEAN] /\ ~mfa'.enabled
  BY <1>2, <1>5
<1>7. MfaInv'
  <2>1. ASSUME NEW r \in Requests, req'[r].at = "enable" PROVE req'[r].crossed
    <3>1. req[r].at = "enable"
      BY <1>1, <1>3, <2>1, OthersQuiet DEF Moves, Fields
    <3>2. req'[r] = [req[r] EXCEPT !.crossed = TRUE]
      BY <1>2, <3>1 DEF MfaChecks
    <3> QED BY <3>2, HandlerKnown, CrossedFields
  <2> QED BY <1>6, <2>1 DEF MfaInv, EnabledSecretConfirmed
<1> QED BY <1>2, <1>3, <1>4, <1>5, <1>6, <1>7, MfaStep DEF Quiet

(***************************************************************************)
(* mfaEnable and mfaDisable write without looking at the row again:        *)
(* crossed, the secret is excused.                                         *)
(***************************************************************************)
LEMMA MfaWriteKeeps ==
  ASSUME SessInv, NEW q \in Requests, MfaWrite(q)
  PROVE  SessInv'
<1>1. /\ UNCHANGED <<password, keys, metas, listed, secrets, proven, made>>
      /\ req[q].at \in {"enable", "disable"} /\ GoesAcross(q, "idle", MfaChecks)
      /\ mfa' = IF req[q].at = "enable" THEN [mfa EXCEPT !.enabled = TRUE] ELSE [secret |-> NoSecret, enabled |-> FALSE]
      /\ IF req[q].crossed THEN Excuse({<<"totp", mfa.secret>>}) ELSE UNCHANGED past
  BY DEF MfaWrite, redisVars
<1>2. PICK n \in Nat : n = mfa.secret
  BY DEF SessInv, SessTypes, StoreOK
<1>3. \A r \in MfaChecks : req[r].op # "none"
  BY HandlerKnown, OperationOfStep DEF MfaChecks
<1>4. Moves(q, Free) /\ \A r \in Requests \ {q} : r \in MfaChecks => req'[r].crossed
  BY <1>1, <1>3, HandlerKnown, GoesAcrossMoves
<1>5. Quiet(q)
  BY <1>1, <1>4, IdleQuiet DEF Moves
<1>6. /\ past' = past \/ \E S \in SUBSET Things : past' = [past EXCEPT !.excused = @ \cup S]
      /\ past'.used = past.used
      /\ req[q].crossed => <<"totp", n>> \in past'.excused
  <2>1. CASE req[q].crossed
    <3>1. PICK S \in SUBSET Things : S = {<<"totp", n>>}
      <4>1. <<"totp", n>> \in Things
        BY DEF Things
      <4> QED BY <4>1
    <3>2. past' = [past EXCEPT !.excused = @ \cup S]
      BY <1>1, <1>2, <2>1, <3>1 DEF Excuse
    <3> QED BY <1>1, <3>1, <3>2, Excusing DEF SessInv, SessTypes
  <2>2. CASE ~req[q].crossed
    BY <1>1, <2>2
  <2> QED BY <2>1, <2>2
<1>7. /\ mfa' \in [secret : Nat, enabled : BOOLEAN]
      /\ req[q].at = "enable" => mfa'.secret = n
      /\ req[q].at # "enable" => ~mfa'.enabled
  BY <1>1, <1>2 DEF SessInv, SessTypes, StoreOK, NoSecret
<1>8. MfaInv'
  <2>1. ASSUME NEW r \in Requests, req'[r].at = "enable" PROVE req'[r].crossed
    <3>1. r # q
      BY <1>4, <2>1 DEF Moves, Free
    <3>2. req[r].at = "enable"
      BY <1>4, <2>1, <3>1, OthersQuiet DEF Fields
    <3> QED BY <1>4, <3>1, <3>2 DEF MfaChecks
  <2>2. mfa'.enabled => <<"totp", mfa'.secret>> \in past'.used \cup past'.excused
    <3>1. CASE req[q].at # "enable"
      BY <1>7, <3>1
    <3>2. CASE req[q].at = "enable" /\ req[q].crossed
      BY <1>6, <1>7, <3>2
    <3>3. CASE req[q].at = "enable" /\ ~req[q].crossed
      <4>1. <<"totp", n>> \in past.used
        BY <1>2, <3>3 DEF SessInv, MfaInv
      <4> QED BY <1>6, <1>7, <3>3, <4>1
    <3> QED BY <3>1, <3>2, <3>3
  <2> QED BY <2>1, <2>2 DEF MfaInv, EnabledSecretConfirmed
<1>9. made \in [link : Nat, challenge : Nat, totp : Nat]
  BY DEF SessInv, SessTypes, StoreOK
<1> QED BY <1>1, <1>4, <1>5, <1>6, <1>7, <1>8, <1>9, FreeOK, MfaStep DEF Quiet

-----------------------------------------------------------------------------
\* What a token issued adds to the past.
LEMMA IssuedPast ==
  ASSUME PastOK, NEW q \in Requests, IssueTokens(q), NEW arg \in Nat, arg = req[q].arg,
         NEW k \in Nat, k = NextToken, k \notin Tokens, Tokens' = Tokens \cup {k},
         req[q].op = "refresh" => arg \in Tokens
  PROVE  /\ PastOK' /\ Remembers
         /\ past'.used = IF req[q].op = "refresh" THEN past.used \cup {<<"token", arg>>} ELSE past.used
         /\ past'.reused = IF req[q].op = "refresh" /\ <<"token", arg>> \in past.used
                             THEN past.reused \cup {<<"token", arg>>} ELSE past.reused
         /\ past'.ended = IF arg \in past.ended THEN past.ended \cup {k} ELSE past.ended
         /\ past'.excused = IF req[q].crossed \/ Holding({"revoke"}) # {}
                              THEN past.excused \cup {<<"token", k>>} ELSE past.excused
<1>1. PICK T : T = SUBSET ({"link", "challenge", "token", "totp"} \X Nat)
  OBVIOUS
<1>2. PICK from \in {"link", "challenge", "token", "totp"} \X Nat : from = <<"token", arg>>
  OBVIOUS
<1>3. PICK U : U = IF req[q].op = "refresh" THEN past.used \cup {from} ELSE past.used
  OBVIOUS
<1>4. PICK R : R = IF req[q].op = "refresh" /\ from \in past.used THEN past.reused \cup {from} ELSE past.reused
  OBVIOUS
<1>5. PICK D : D = IF arg \in past.ended THEN past.ended \cup {k} ELSE past.ended
  OBVIOUS
<1>6. PICK X : X = IF req[q].crossed \/ Holding({"revoke"}) # {}
                     THEN past.excused \cup {<<"token", k>>} ELSE past.excused
  OBVIOUS
<1>7. past \in [used : T, reused : T, ended : SUBSET Tokens, excused : T]
  BY <1>1 DEF PastOK
<1>8. past.used \in T /\ past.reused \in T /\ past.ended \in SUBSET Tokens /\ past.excused \in T
  BY <1>7
<1>9. U \in T /\ R \in T /\ D \in SUBSET (Tokens \cup {k}) /\ X \in T
  <2>1. <<"token", k>> \in {"link", "challenge", "token", "totp"} \X Nat
    OBVIOUS
  <2> QED BY <1>1, <1>2, <1>3, <1>4, <1>5, <1>6, <1>8, <2>1
<1>10. PICK a : a = IF req[q].op = "refresh" THEN Use(from) ELSE past
  OBVIOUS
<1>11. /\ a \in [used : T, reused : T, ended : SUBSET Tokens, excused : T]
       /\ a.used = U /\ a.reused = R /\ a.ended = past.ended /\ a.excused = past.excused
  <2>1. CASE req[q].op = "refresh"
    <3>1. a = [past EXCEPT !.used = U, !.reused = R]
      BY <1>3, <1>4, <1>7, <1>10, <2>1 DEF Use
    <3> QED BY <1>7, <1>9, <3>1
  <2>2. CASE req[q].op # "refresh"
    BY <1>3, <1>4, <1>7, <1>10, <2>2
  <2> QED BY <2>1, <2>2
<1>12. past' = [a EXCEPT !.ended = D, !.excused = X]
  <2>1. past' = [a EXCEPT !.ended = IF arg \in @ THEN @ \cup {k} ELSE @,
                          !.excused = IF req[q].crossed \/ Holding({"revoke"}) # {}
                                        THEN @ \cup {<<"token", k>>} ELSE @]
    BY <1>2, <1>10 DEF IssueTokens
  <2> QED BY <1>5, <1>6, <1>11, <2>1
<1>13. past'.used = U /\ past'.reused = R /\ past'.ended = D /\ past'.excused = X
  BY <1>11, <1>12
<1>14. past' \in [used : T, reused : T, ended : SUBSET (Tokens \cup {k}), excused : T]
  BY <1>9, <1>11, <1>12
<1>15. made' = made
  BY DEF IssueTokens
<1>16. ASSUME NEW n \in Nat
       PROVE  /\ <<"link", n>> \in past'.used => n \in Nat /\ n <= made'.link
              /\ <<"challenge", n>> \in past'.used => n <= made'.challenge
              /\ <<"token", n>> \in past'.used => n \in Tokens \cup {k}
  <2>1. /\ <<"link", n>> \in past.used => n <= made.link
        /\ <<"challenge", n>> \in past.used => n <= made.challenge
        /\ <<"token", n>> \in past.used => n \in Tokens
    BY DEF PastOK
  <2> QED BY <1>2, <1>3, <1>13, <1>15, <2>1
<1>17. PastOK'
  BY <1>1, <1>14, <1>16 DEF PastOK
<1>18. Remembers
  BY <1>3, <1>5, <1>6, <1>13 DEF Remembers
<1> QED BY <1>2, <1>3, <1>4, <1>5, <1>6, <1>13, <1>17, <1>18

(***************************************************************************)
(* issueTokens adds a session: of the password its handler has, unlisted   *)
(* for no revocation under way that it does not know of.                   *)
(***************************************************************************)
LEMMA IssueTokensKeeps ==
  ASSUME SessInv, NEW q \in Requests, IssueTokens(q)
  PROVE  SessInv'
<1>1. PICK arg \in Nat : arg = req[q].arg
  BY HandlerKnown, OperationOfStep
<1>2. PICK ver \in Nat : ver = req[q].ver /\ ver <= password
  BY HandlerKnown, OperationOfStep DEF HandlerOK
<1>3. /\ req[q].at = "issue" /\ req[q].op \in {"login", "refresh", "switch"}
      /\ req[q].op \in {"refresh", "switch"} => arg \in Tokens
      /\ req[q].op = "login" => arg = 0
  BY <1>1, HandlerKnown, OperationOfStep DEF IssueTokens
<1>4. PICK k \in Nat : k = NextToken
  BY DEF SessInv, SessTypes, StoreOK, NextToken
<1>5. /\ keys' = keys \cup {k} /\ metas' = metas \cup {k} /\ listed' = listed \cup {k}
      /\ proven' = Append(proven, ver) /\ UNCHANGED <<password, mfa, secrets, made>>
  BY <1>2, <1>4 DEF IssueTokens, AddSession
<1>6. /\ k \notin Tokens /\ Tokens' = Tokens \cup {k} /\ proven' \in Seq(Nat) /\ proven'[k] = ver
      /\ \A t \in Tokens : proven'[t] = proven[t]
  BY <1>4, <1>5 DEF SessInv, SessTypes, StoreOK, NextToken, Tokens
<1>7. keys \subseteq Tokens /\ past.ended \subseteq Tokens
  BY DEF SessInv, SessTypes, StoreOK, PastOK
<1>8. Moves(q, Free) /\ \A r \in Requests \ {q} : req'[r] = req[r]
  BY HandlerKnown, GoesMoves DEF IssueTokens
<1>9. /\ PastOK' /\ Remembers
      /\ past'.used = IF req[q].op = "refresh" THEN past.used \cup {<<"token", arg>>} ELSE past.used
      /\ past'.reused = IF req[q].op = "refresh" /\ <<"token", arg>> \in past.used
                          THEN past.reused \cup {<<"token", arg>>} ELSE past.reused
      /\ past'.ended = IF arg \in past.ended THEN past.ended \cup {k} ELSE past.ended
      /\ past'.excused = IF req[q].crossed \/ Holding({"revoke"}) # {}
                           THEN past.excused \cup {<<"token", k>>} ELSE past.excused
  BY ZenonT(30), <1>1, <1>3, <1>4, <1>6, IssuedPast DEF SessInv, SessTypes
<1>10. StoreOK' /\ made.link \in Nat /\ password \in Nat
  BY <1>2, <1>5, <1>6 DEF SessInv, SessTypes, StoreOK
<1>11. HandlersOK'
  <2>1. Tokens \subseteq Tokens' /\ made.link \in Nat /\ made'.link \in Nat /\ made.link <= made'.link
    BY <1>5, <1>6, <1>10
  <2>2. password' \in Nat /\ password <= password'
    BY <1>5, <1>10
  <2> QED BY <1>8, <1>10, <2>1, <2>2, FreeOK, HandlersStay DEF SessInv, SessTypes
<1>12. \A r \in Requests : Quiet(r)
  <2>1. Quiet(q)
    BY <1>3, <1>8, IdleQuiet DEF Moves
  <2> QED BY <1>8, <2>1, OthersQuiet
<1>13. ASSUME NEW r \in Requests, req'[r] # Free
       PROVE  /\ r # q /\ req'[r] = req[r]
              /\ req[r].op \in {"refresh", "switch", "logout", "end"} => req[r].arg # k
  BY <1>6, <1>8, <1>13, HandlerKnown, OperationOfStep DEF Moves
<1>14. LinksOnce' /\ ChallengesOnce' /\ MfaInv'
  BY <1>5, <1>9, <1>12, LinksStay, MfaStays DEF SessInv, UsesInv, Quiet, ChallengesOnce
<1>15. ASSUME req[q].op = "refresh", ~Excused(arg)
       PROVE  /\ arg \notin keys /\ <<"token", arg>> \notin past.used
              /\ \A r \in Requests : HoldsToken(r, arg) => r = q
  <2>1. HoldsToken(q, arg) /\ req[q].at # "drop" /\ TokensOnce
    BY <1>1, <1>3, <1>15 DEF HoldsToken, SessInv, UsesInv
  <2> QED BY <1>15, <2>1 DEF TokensOnce
<1>16. ASSUME NEW u \in Nat, ~Excused(u)'
       PROVE  /\ \A p, r \in Requests : HoldsToken(p, u)' /\ HoldsToken(r, u)' => p = r
              /\ <<"token", u>> \in past'.used => u \notin keys' /\ \A r \in Requests : ~HoldsToken(r, u)'
              /\ \A r \in Requests : HoldsToken(r, u)' /\ req'[r].at # "drop" => u \notin keys'
  <2>1. ~Excused(u)
    BY <1>9, <1>16 DEF Excused, Remembers
  <2>2. /\ \A p, r \in Requests : HoldsToken(p, u) /\ HoldsToken(r, u) => p = r
        /\ <<"token", u>> \in past.used => u \notin keys /\ \A r \in Requests : ~HoldsToken(r, u)
        /\ \A r \in Requests : HoldsToken(r, u) /\ req[r].at # "drop" => u \notin keys
    BY <2>1 DEF SessInv, UsesInv, TokensOnce
  <2>3. \A r \in Requests : HoldsToken(r, u)' => r # q /\ HoldsToken(r, u) /\ req'[r].at = req[r].at /\ u # k
    BY <1>13 DEF HoldsToken, Free
  <2>4. ASSUME <<"token", u>> \in past'.used
        PROVE  u \notin keys' /\ \A r \in Requests : ~HoldsToken(r, u)'
    <3>1. CASE <<"token", u>> \in past.used
      <4>1. u \in Tokens
        BY <3>1 DEF SessInv, SessTypes, PastOK
      <4> QED BY <1>5, <1>6, <2>2, <2>3, <3>1, <4>1
    <3>2. CASE <<"token", u>> \notin past.used
      <4>1. req[q].op = "refresh" /\ u = arg
        BY <1>9, <2>4, <3>2
      <4> QED BY <1>3, <1>5, <1>6, <1>15, <2>1, <2>3, <4>1
    <3> QED BY <3>1, <3>2
  <2> QED BY <1>5, <2>2, <2>3, <2>4
<1>17. TokensOnce'
  BY <1>16 DEF TokensOnce
<1>18. UsedTwiceOnlyByOverlap'
  <2>1. req[q].op = "refresh" /\ <<"token", arg>> \in past.used => <<"token", arg>> \in past.excused
    BY <1>15 DEF Excused
  <2> QED BY <1>9, <2>1 DEF SessInv, UsesInv, UsedTwiceOnlyByOverlap
<1>19. \A t \in keys : Excused(t) => Excused(t)'
  BY <1>9 DEF Excused, Remembers
<1>20. req[q].crossed \/ Holding({"revoke"}) # {} => Excused(k)'
  BY <1>9 DEF Excused
<1>21. ListInv'
  <2>1. \A t \in keys' : t \in metas' \/ Excused(t)'
    BY <1>5, <1>19 DEF SessInv, ListInv
  <2>2. ASSUME NEW r \in Requests, req'[r].at = "unlist" PROVE req'[r].arg \notin keys'
    <3>1. req'[r] = req[r] /\ req[r].op = "end" /\ req[r].arg # k
      BY <1>13, <2>2, HandlerKnown, OperationOfStep DEF Free
    <3> QED BY <1>5, <2>2, <3>1 DEF SessInv, ListInv
  <2>3. ASSUME NEW r \in Requests, req'[r].at = "revoke", NEW t \in keys'
        PROVE  t \in req'[r].snap \/ Excused(t)'
    <3>1. req'[r] = req[r] /\ req[r].at = "revoke"
      BY <1>13, <2>3 DEF Free
    <3>2. Excused(k)'
      BY <1>20, <3>1 DEF Holding
    <3> QED BY <1>5, <1>19, <3>1, <3>2 DEF SessInv, ListInv
  <2>4. ASSUME NEW t \in keys'
        PROVE  t \in listed' \/ Excused(t)' \/ \E r \in Requests : req'[r].at = "delete" /\ req'[r].arg = t
    <3>1. CASE t = k
      BY <1>5, <3>1
    <3>2. CASE t \in keys
      <4>1. t \in listed \/ Excused(t) \/ \E r \in Requests : req[r].at = "delete" /\ req[r].arg = t
        BY <3>2 DEF SessInv, ListInv, LiveSessionsListed, Holding
      <4>2. \A r \in Requests : req[r].at = "delete" => req'[r] = req[r]
        BY <1>3, <1>8
      <4> QED BY <1>5, <1>19, <3>2, <4>1, <4>2
    <3> QED BY <1>5, <3>1, <3>2
  <2> QED BY <2>1, <2>2, <2>3, <2>4 DEF ListInv, LiveSessionsListed, Holding
<1>22. ResetInv'
  <2>1. Resetting # {} => Resetting' # {}
    BY <1>3, <1>8 DEF Resetting, Holding
  <2>2. ASSUME NEW r \in Requests, req'[r].op \in {"login", "refresh", "switch"}, ~req'[r].crossed
        PROVE  req'[r].ver = password' \/ Resetting' # {}
    <3>1. req'[r] = req[r]
      BY <1>13, <2>2 DEF Free
    <3> QED BY <1>5, <2>1, <2>2, <3>1 DEF SessInv, ResetInv
  <2>3. ASSUME Resetting' = {}, NEW t \in keys'
        PROVE  proven'[t] = password' \/ Excused(t)'
    <3>1. Resetting = {}
      BY <2>1, <2>3
    <3>2. CASE t = k
      <4>1. ~req[q].crossed => ver = password
        BY <1>2, <1>3, <3>1 DEF SessInv, ResetInv
      <4> QED BY <1>5, <1>6, <1>20, <3>2, <4>1
    <3>3. CASE t \in keys
      BY <1>5, <1>6, <1>7, <1>19, <3>1, <3>3 DEF SessInv, ResetInv, ResetEndsOldSessions, Resetting
    <3> QED BY <1>5, <3>2, <3>3
  <2> QED BY <2>2, <2>3 DEF ResetInv, ResetEndsOldSessions, Resetting
<1>23. EndedInv'
  <2>1. ASSUME NEW r \in Requests, req'[r].op \in {"refresh", "switch"}, req'[r].arg \in past'.ended
        PROVE  req'[r].crossed
    <3>1. req'[r] = req[r] /\ req[r].arg # k
      BY <1>13, <2>1 DEF Free
    <3>2. req[r].arg \in past.ended
      BY <1>9, <2>1, <3>1
    <3> QED BY <2>1, <3>1, <3>2 DEF SessInv, EndedInv
  <2>2. ASSUME NEW t \in keys', t \in past'.ended PROVE Excused(t)'
    <3>1. CASE t = k
      <4>1. arg \in past.ended
        BY <1>6, <1>7, <1>9, <2>2, <3>1
      <4>2. req[q].op \in {"refresh", "switch"}
        <5>1. arg # 0
          BY <1>7, <4>1 DEF Tokens
        <5> QED BY <1>3, <5>1
      <4>3. req[q].crossed
        BY <1>1, <4>1, <4>2 DEF SessInv, EndedInv
      <4> QED BY <1>20, <3>1, <4>3
    <3>2. CASE t \in keys /\ t # k
      <4>1. t \in past.ended
        BY <1>9, <2>2, <3>2
      <4> QED BY <1>19, <3>2, <4>1 DEF SessInv, EndedInv, EndedSessionsStayEnded
    <3> QED BY <1>5, <3>1, <3>2
  <2> QED BY <2>1, <2>2 DEF EndedInv, EndedSessionsStayEnded
<1> QED BY <1>9, <1>10, <1>11, <1>14, <1>17, <1>18, <1>21, <1>22, <1>23 DEF SessInv, SessTypes, UsesInv

-----------------------------------------------------------------------------
(***************************************************************************)
(* Nothing has happened at the start.                                      *)
(***************************************************************************)
LEMMA SessInitOK ==
  ASSUME SessInit
  PROVE  SessInv
<1> USE DEF SessInit
<1>1. Free \in SessReq /\ StepOf(Free) /\ Free.op = "none" /\ Free.at = "idle" /\ Free.ver = 0
  BY DEF Free, SessReq, StepOf
<1>2. \A r \in Requests : req[r] = Free
  OBVIOUS
<1>3. HandlersOK
  <2>1. HandlerOK(Free)
    BY <1>1 DEF HandlerOK
  <2> QED BY <1>2, <2>1 DEF HandlersOK
<1>4. Tokens = {}
  BY DEF Tokens
<1>5. StoreOK
  <2>1. mfa \in [secret : Nat, enabled : BOOLEAN]
    BY DEF NoSecret
  <2>2. proven \in Seq(Nat) /\ made \in [link : Nat, challenge : Nat, totp : Nat]
    OBVIOUS
  <2> QED BY <1>4, <2>1, <2>2 DEF StoreOK
<1>6. UsesInv
  BY <1>1, <1>2 DEF UsesInv, ChallengesOnce, LinksOnce, TokensOnce, UsedTwiceOnlyByOverlap, HoldsLink, HoldsToken
<1>7. MfaInv /\ ListInv
  BY <1>1, <1>2 DEF MfaInv, ListInv, EnabledSecretConfirmed, LiveSessionsListed
<1>8. ResetInv /\ EndedInv
  BY <1>1, <1>2 DEF ResetInv, EndedInv, ResetEndsOldSessions, EndedSessionsStayEnded
<1>9. PastOK
  <2>1. past \in [used : SUBSET ({"link", "challenge", "token", "totp"} \X Nat),
                  reused : SUBSET ({"link", "challenge", "token", "totp"} \X Nat),
                  ended : SUBSET Tokens,
                  excused : SUBSET ({"link", "challenge", "token", "totp"} \X Nat)]
    OBVIOUS
  <2>2. past.used = {}
    OBVIOUS
  <2> QED BY <2>1, <2>2 DEF PastOK
<1> QED BY <1>3, <1>5, <1>6, <1>7, <1>8, <1>9 DEF SessInv, SessTypes

(***************************************************************************)
(* Every step keeps the invariant.                                         *)
(***************************************************************************)
LEMMA SessInvStep ==
  ASSUME SessInv, [SessNext]_sessVars
  PROVE  SessInv'
<1>1. CASE UNCHANGED sessVars
  BY <1>1, RestStep DEF sessVars, redisVars
<1>2. ASSUME NEW q \in Requests,
             \/ Login(q) \/ LoginMFA(q) \/ IssueTokens(q) \/ IssueFails(q) \/ SwitchWorkspace(q)
             \/ Refresh(q) \/ DropToken(q) \/ ForgetSession(q)
      PROVE  SessInv'
  BY <1>2, LoginKeeps, LoginMFAKeeps, IssueTokensKeeps, IssueFailsKeeps, SwitchWorkspaceKeeps,
     RefreshKeeps, DropTokenKeeps, ForgetSessionKeeps
<1>3. ASSUME NEW q \in Requests,
             \/ Logout(q) \/ LogoutDelete(q) \/ ListSessions(q) \/ DeleteSession(q) \/ DeleteSessionUnlist(q)
      PROVE  SessInv'
  BY <1>3, LogoutKeeps, LogoutDeleteKeeps, ListSessionsKeeps, DeleteSessionKeeps, DeleteSessionUnlistKeeps
<1>4. ASSUME NEW q \in Requests,
             \/ ResetPassword(q) \/ ResetUpdate(q) \/ ResetBurn(q) \/ RevokeMembers(q) \/ RevokeDelete(q)
      PROVE  SessInv'
  BY <1>4, ResetPasswordKeeps, ResetUpdateKeeps, ResetBurnKeeps, RevokeMembersKeeps, RevokeDeleteKeeps
<1>5. ASSUME NEW q \in Requests,
             \/ MfaSetup(q) \/ MfaEnable(q) \/ MfaDisable(q) \/ MfaWrite(q) \/ ClientLeaves(q)
      PROVE  SessInv'
  BY <1>5, MfaSetupKeeps, MfaEnableKeeps, MfaDisableKeeps, MfaWriteKeeps, ClientLeavesKeeps
<1>6. CASE ForgotPassword \/ (\E t \in keys : SessionExpires(t)) \/ (\E x \in secrets : SecretExpires(x))
  BY <1>6, ForgotPasswordKeeps, ExpiryKeeps
<1> QED BY <1>1, <1>2, <1>3, <1>4, <1>5, <1>6 DEF SessNext

(***************************************************************************)
(* login, refresh, resetPassword and the MFA handlers, for any number of   *)
(* requests, tokens, links, challenges and faults: a refresh token, a      *)
(* reset link or a challenge is used once, and MFA is enabled only with a  *)
(* confirmed secret, but for the overlaps and lost commands the model      *)
(* names (auth.go, security.go).                                           *)
(***************************************************************************)
THEOREM SecretsAreUsedOnce == SessSpec => []SecretsUsedOnce
<1>1. SessInv => SecretsUsedOnce
  BY DEF SessInv, UsesInv, MfaInv, SecretsUsedOnce
<1> QED BY <1>1, SessInitOK, SessInvStep, PTL DEF SessSpec

(***************************************************************************)
(* issueTokens, refresh, logout, deleteSession, listSessions and the       *)
(* revocation of resetPassword, command by command and for any number of   *)
(* requests: every live session is on its owner's list or being logged     *)
(* out, an ended one stays ended, and when no reset is in progress every   *)
(* live session was opened with the present password, but for those in     *)
(* flight at that moment (auth.go, security.go).                           *)
(***************************************************************************)
THEOREM SessionsAreEnded == SessSpec => []SessionsEnd
<1>1. SessInv => SessionsEnd
  BY DEF SessInv, ResetInv, EndedInv, ListInv, SessionsEnd
<1> QED BY <1>1, SessInitOK, SessInvStep, PTL DEF SessSpec
=============================================================================
