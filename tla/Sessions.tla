------------------------------ MODULE Sessions -------------------------------
(***************************************************************************)
(* The sessions of one staff account. A session is a refresh token: the    *)
(* Redis keys refresh:t and sessionmeta:t and the member t of the set      *)
(* sessions:user, written together by issueTokens and taken away in single *)
(* commands by refresh, logout, deleteSession, listSessions and the        *)
(* revocation that ends a password reset. Handlers interleave command by   *)
(* command, their errors are ignored, and a client that leaves cancels     *)
(* what its handler has not done yet.                                      *)
(*                                                                         *)
(* A token is its number in the order of issue. Refused requests (a wrong  *)
(* password, an unknown token, a blocked company) change nothing and are   *)
(* left out. A handler is "crossed" when something happened between the    *)
(* proof it accepted and what it does with it.                             *)
(***************************************************************************)
EXTENDS Integers, Sequences

CONSTANTS
  Requests,       \* requests being served at the same time
  MaxTokens,      \* bound on tokens issued
  MaxLinks,       \* bound on password reset links sent
  MaxChallenges,  \* bound on MFA challenges created
  MaxSecrets,     \* bound on TOTP secrets generated
  MaxLost         \* bound on clients that leave and Redis commands that fail

ASSUME SessionsAssumption ==
  {MaxTokens, MaxLinks, MaxChallenges, MaxSecrets, MaxLost} \subseteq Nat

VARIABLES
  password,    \* users.password_hash, as the number of times it was changed
  mfa,         \* users.mfa_secret and users.mfa_enabled
  keys,        \* tokens with a key refresh:t
  metas,       \* tokens with a key sessionmeta:t
  listed,      \* the set sessions:user
  secrets,     \* live one-time secrets: reset links and MFA challenges
  made,        \* how many secrets of each kind were made
  req,         \* the handlers at work
  lost,        \* faults so far
  proven,      \* history: the password each token's session was opened with
  past         \* history: things used, used again, ended, excused by an overlap

redisVars == <<keys, metas, listed, secrets>>
sessVars == <<password, mfa, redisVars, made, req, lost, proven, past>>

Free == [op |-> "none", at |-> "idle", arg |-> 0, ver |-> 0, snap |-> {}, crossed |-> FALSE]
NoSecret == 0

SessInit ==
  /\ password = 0 /\ mfa = [secret |-> NoSecret, enabled |-> FALSE]
  /\ keys = {} /\ metas = {} /\ listed = {} /\ secrets = {}
  /\ made = [link |-> 0, challenge |-> 0, totp |-> 0]
  /\ req = [q \in Requests |-> Free] /\ lost = 0
  /\ proven = <<>>
  /\ past = [used |-> {}, reused |-> {}, ended |-> {}, excused |-> {}]

NextToken == Len(proven) + 1
Holding(ats) == {r \in Requests : req[r].at \in ats}
Use(x) == [past EXCEPT !.used = @ \cup {x}, !.reused = IF x \in past.used THEN @ \cup {x} ELSE @]
Excuse(S) == past' = [past EXCEPT !.excused = @ \cup S]
Starts(q, op, at, arg, ver, crossed) ==
  /\ req[q].at = "idle"
  /\ req' = [req EXCEPT ![q] = [op |-> op, at |-> at, arg |-> arg, ver |-> ver, snap |-> {}, crossed |-> crossed]]
Goes(q, at) == req' = [req EXCEPT ![q] = IF at = "idle" THEN Free ELSE [@ EXCEPT !.at = at]]
\* q goes on; the handlers of S that are about to issue or write were crossed by it.
GoesAcross(q, at, S) ==
  req' = [r \in Requests |->
            CASE r = q -> IF at = "idle" THEN Free ELSE [req[q] EXCEPT !.at = at]
              [] r # q /\ r \in S -> [req[r] EXCEPT !.crossed = TRUE]
              [] OTHER -> req[r]]

-----------------------------------------------------------------------------
\* login: the user's row, hash and MFA columns, is read in one statement.
Login(q) ==
  /\ Starts(q, "login", IF ~mfa.enabled THEN "issue" ELSE IF mfa.secret = NoSecret THEN "locked" ELSE "mfa",
            0, password, FALSE)
  /\ UNCHANGED <<password, mfa, redisVars, made, lost, proven, past>>

\* createMFAChallenge and forgotPassword: a random secret under a key of its own.
Make(kind, bound, live) ==
  IF made[kind] < bound
    THEN /\ made' = [made EXCEPT ![kind] = @ + 1]
         /\ secrets' = live \cup {<<kind, made[kind] + 1>>}
    ELSE secrets' = live /\ UNCHANGED made
Live(kind) == {x \in secrets : x[1] = kind}

\* GETDEL: the challenge presented is gone, whether the code is right or not.
ConsumeChallenge(c) == secrets \ {c}

(***************************************************************************)
(* Without a challenge, with a used one or with a wrong code the answer is *)
(* another challenge. A row enabled without a secret accepts no code.      *)
(***************************************************************************)
LoginMFA(q) ==
  /\ \/ /\ req[q].at \in {"mfa", "locked"}
        /\ \/ Make("challenge", MaxChallenges, secrets)
           \/ \E c \in Live("challenge") : Make("challenge", MaxChallenges, ConsumeChallenge(c))
        /\ Goes(q, "idle")
        /\ UNCHANGED past
     \/ /\ req[q].at = "mfa"
        /\ \E c \in Live("challenge") : secrets' = ConsumeChallenge(c) /\ past' = Use(c)
        /\ Goes(q, "issue")
        /\ UNCHANGED made
  /\ UNCHANGED <<password, mfa, keys, metas, listed, lost, proven>>

IssueTokensUnlisted(q) ==
  /\ keys' = keys \cup {NextToken} /\ metas' = metas \cup {NextToken} /\ UNCHANGED listed

\* The transaction of issueTokens.
AddSession(q) ==
  /\ keys' = keys \cup {NextToken} /\ metas' = metas \cup {NextToken} /\ listed' = listed \cup {NextToken}

IssueTokens(q) ==
  LET from == <<"token", req[q].arg>>
      after == IF req[q].op = "refresh" THEN Use(from) ELSE past
      overlap == req[q].crossed \/ Holding({"revoke"}) # {}
  IN /\ req[q].at = "issue"
     /\ NextToken <= MaxTokens
     /\ AddSession(q)
     /\ proven' = Append(proven, req[q].ver)
     /\ past' = [after EXCEPT !.ended = IF req[q].arg \in @ THEN @ \cup {NextToken} ELSE @,
                              !.excused = IF overlap THEN @ \cup {<<"token", NextToken>>} ELSE @]
     /\ Goes(q, "idle")
     /\ UNCHANGED <<password, mfa, secrets, made, lost>>

\* The transaction fails (TOKEN_ERROR).
IssueFails(q) ==
  /\ req[q].at = "issue"
  /\ Goes(q, "idle")
  /\ UNCHANGED <<password, mfa, redisVars, made, lost, proven, past>>

(***************************************************************************)
(* refresh: GET the key; DEL it; SREM the member and DEL the description;  *)
(* issue. The user's row is not read again.                                *)
(***************************************************************************)
Refresh(q) ==
  \E t \in keys :
    /\ Starts(q, "refresh", "drop", t, proven[t], <<"token", t>> \in past.excused)
    /\ IF \E r \in Requests : req[r].op = "refresh" /\ req[r].at = "drop" /\ req[r].arg = t
         THEN Excuse({<<"token", t>>}) ELSE UNCHANGED past
    /\ UNCHANGED <<password, mfa, redisVars, made, lost, proven>>

DropTokenLater(q) ==
  /\ req[q].at = "drop"
  /\ Goes(q, "forget")
  /\ UNCHANGED <<password, mfa, redisVars, made, lost, proven, past>>

\* The result of the DEL is ignored: the handler goes on when it fails.
DropToken(q) ==
  /\ req[q].at = "drop"
  /\ \/ keys' = keys \ {req[q].arg} /\ UNCHANGED <<lost, past>>
     \/ /\ lost < MaxLost /\ lost' = lost + 1
        /\ Excuse({<<"token", req[q].arg>>})
        /\ UNCHANGED keys
  /\ Goes(q, "forget")
  /\ UNCHANGED <<password, mfa, metas, listed, secrets, made, proven>>

ForgetSession(q) ==
  /\ req[q].at = "forget"
  /\ listed' = listed \ {req[q].arg} /\ metas' = metas \ {req[q].arg}
  /\ Goes(q, "issue")
  /\ UNCHANGED <<password, mfa, keys, secrets, made, lost, proven, past>>

\* A workspace is switched to with the access token of a session, good for 15 minutes.
SwitchWorkspace(q) ==
  \E t \in DOMAIN proven :
    /\ Starts(q, "switch", "issue", t, proven[t],
              <<"token", t>> \in past.excused \/ t \in past.ended \/ proven[t] < password)
    /\ UNCHANGED <<password, mfa, redisVars, made, lost, proven, past>>

-----------------------------------------------------------------------------
\* Handlers that may go on with t, exchanged or about to be, when it is ended.
UnderWay(t) == {r \in Requests : req[r].op \in {"refresh", "switch"} /\ req[r].arg = t}

\* logout: GET the key and SREM the member; DEL key and description.
Logout(q) ==
  \E t \in DOMAIN proven :
    /\ Starts(q, "logout", "delete", t, 0, FALSE)
    /\ listed' = IF t \in keys THEN listed \ {t} ELSE listed
    /\ UNCHANGED <<password, mfa, keys, metas, secrets, made, lost, proven, past>>

LogoutDelete(q) ==
  /\ req[q].at = "delete"
  /\ keys' = keys \ {req[q].arg} /\ metas' = metas \ {req[q].arg}
  /\ past' = [past EXCEPT !.ended = @ \cup {req[q].arg}]
  /\ GoesAcross(q, "idle", UnderWay(req[q].arg))
  /\ UNCHANGED <<password, mfa, listed, secrets, made, lost, proven>>

\* listSessions: members whose description is gone are taken out of the set.
ListSessions(q) ==
  /\ req[q].at = "idle"
  /\ proven # <<>>
  /\ listed' = listed \cap metas
  /\ UNCHANGED <<password, mfa, keys, metas, secrets, made, req, lost, proven, past>>

DeleteOnlyMeta(t) == keys' = keys /\ metas' = metas \ {t}

DeleteKeys(t) == keys' = keys \ {t} /\ metas' = metas \ {t}

\* deleteSession: SISMEMBER, DEL key and description; SREM the member.
DeleteSession(q) ==
  \E t \in listed :
    /\ req[q].at = "idle"
    /\ DeleteKeys(t)
    /\ past' = [past EXCEPT !.ended = @ \cup {t}]
    /\ req' = [r \in Requests |->
                 IF r = q THEN [Free EXCEPT !.op = "end", !.at = "unlist", !.arg = t]
                 ELSE IF r \in UnderWay(t) THEN [req[r] EXCEPT !.crossed = TRUE] ELSE req[r]]
    /\ UNCHANGED <<password, mfa, listed, secrets, made, lost, proven>>

DeleteSessionUnlist(q) ==
  /\ req[q].at = "unlist"
  /\ listed' = listed \ {req[q].arg}
  /\ Goes(q, "idle")
  /\ UNCHANGED <<password, mfa, keys, metas, secrets, made, lost, proven, past>>

\* Both keys have the same TTL; the set is prolonged by every session added.
SessionExpires(t) ==
  /\ keys' = keys \ {t} /\ metas' = metas \ {t}
  /\ UNCHANGED <<password, mfa, listed, secrets, made, req, lost, proven, past>>

-----------------------------------------------------------------------------
ForgotPassword ==
  /\ made.link < MaxLinks
  /\ Make("link", MaxLinks, secrets)
  /\ UNCHANGED <<password, mfa, keys, metas, listed, req, lost, proven, past>>

SecretExpires(x) ==
  /\ secrets' = secrets \ {x}
  /\ UNCHANGED <<password, mfa, keys, metas, listed, made, req, lost, proven, past>>

\* resetPassword: GET the link's key; UPDATE the row; DEL the link; revoke.
ResetPassword(q) ==
  \E x \in Live("link") :
    /\ Starts(q, "reset", "update", x[2], 0, FALSE)
    /\ IF \E r \in Requests : req[r].op = "reset" /\ req[r].at \in {"update", "burn"} /\ req[r].arg = x[2]
         THEN Excuse({x}) ELSE UNCHANGED past
    /\ UNCHANGED <<password, mfa, redisVars, made, lost, proven>>

ResetUpdate(q) ==
  /\ req[q].at = "update"
  /\ password' = password + 1
  /\ past' = Use(<<"link", req[q].arg>>)
  /\ Goes(q, "burn")
  /\ UNCHANGED <<mfa, redisVars, made, lost, proven>>

ResetBurn(q) ==
  /\ req[q].at = "burn"
  /\ secrets' = secrets \ {<<"link", req[q].arg>>}
  /\ Goes(q, "members")
  /\ UNCHANGED <<password, mfa, keys, metas, listed, made, lost, proven, past>>

Issuing == {r \in Requests : req[r].op \in {"login", "refresh", "switch"}}

\* revokeUserSessions: SMEMBERS; one DEL of the set and of the keys of its members.
\* A token that a logout has taken off the set and not deleted yet is missed.
RevokeMembers(q) ==
  /\ req[q].at = "members"
  /\ req' = [r \in Requests |->
               IF r = q THEN [req[q] EXCEPT !.at = "revoke", !.snap = listed]
               ELSE IF r \in Issuing THEN [req[r] EXCEPT !.crossed = TRUE] ELSE req[r]]
  /\ Excuse({<<"token", req[r].arg>> : r \in Holding({"delete"})})
  /\ UNCHANGED <<password, mfa, redisVars, made, lost, proven>>

RevokeDeleteSet(q) ==
  /\ req[q].at = "revoke"
  /\ listed' = {}
  /\ GoesAcross(q, "idle", Issuing)
  /\ UNCHANGED <<password, mfa, keys, metas, secrets, made, lost, proven, past>>

RevokeDelete(q) ==
  /\ req[q].at = "revoke"
  /\ keys' = keys \ req[q].snap /\ metas' = metas \ req[q].snap /\ listed' = {}
  /\ GoesAcross(q, "idle", Issuing)
  /\ UNCHANGED <<password, mfa, secrets, made, lost, proven, past>>

(***************************************************************************)
(* The client leaves: the request's context is cancelled, and with it what *)
(* the handler has not done yet.                                           *)
(***************************************************************************)
ClientLeaves(q) ==
  LET at == req[q].at
      left == CASE at = "delete" -> {<<"token", req[q].arg>>}
                [] at \in {"burn", "members", "revoke"} ->
                     {<<"token", t>> : t \in keys} \cup {<<"link", req[q].arg>>}
                [] OTHER -> {}
  IN /\ at # "idle"
     /\ lost < MaxLost /\ lost' = lost + 1
     /\ Excuse(left)
     /\ GoesAcross(q, "idle", IF at \in {"burn", "members", "revoke"} THEN Issuing ELSE {})
     /\ UNCHANGED <<password, mfa, redisVars, made, proven>>

-----------------------------------------------------------------------------
MfaChecks == {r \in Requests : req[r].at \in {"enable", "disable"}}

\* mfaSetup: a new secret, not enabled yet.
MfaSetup(q) ==
  /\ req[q].at = "idle"
  /\ made.totp < MaxSecrets
  /\ made' = [made EXCEPT !.totp = @ + 1]
  /\ mfa' = [secret |-> made.totp + 1, enabled |-> FALSE]
  /\ req' = [r \in Requests |-> IF r \in MfaChecks THEN [req[r] EXCEPT !.crossed = TRUE] ELSE req[r]]
  /\ UNCHANGED <<password, redisVars, lost, proven, past>>

MfaEnableUnchecked(q) ==
  /\ Starts(q, "mfa", "enable", mfa.secret, 0, FALSE)
  /\ UNCHANGED <<password, mfa, redisVars, made, lost, proven, past>>

\* mfaEnable: a right code for the secret read; the UPDATE names only the user.
MfaEnable(q) ==
  /\ mfa.secret # NoSecret
  /\ Starts(q, "mfa", "enable", mfa.secret, 0, FALSE)
  /\ past' = [past EXCEPT !.used = @ \cup {<<"totp", mfa.secret>>}]
  /\ UNCHANGED <<password, mfa, redisVars, made, lost, proven>>

\* mfaDisable: the same for an enabled secret.
MfaDisable(q) ==
  /\ mfa.secret # NoSecret /\ mfa.enabled
  /\ Starts(q, "mfa", "disable", mfa.secret, 0, FALSE)
  /\ UNCHANGED <<password, mfa, redisVars, made, lost, proven, past>>

MfaWrite(q) ==
  /\ req[q].at \in {"enable", "disable"}
  /\ mfa' = IF req[q].at = "enable" THEN [mfa EXCEPT !.enabled = TRUE] ELSE [secret |-> NoSecret, enabled |-> FALSE]
  /\ IF req[q].crossed THEN Excuse({<<"totp", mfa.secret>>}) ELSE UNCHANGED past
  /\ GoesAcross(q, "idle", MfaChecks)
  /\ UNCHANGED <<password, redisVars, made, lost, proven>>

-----------------------------------------------------------------------------
SessNext ==
  \/ \E q \in Requests :
       \/ Login(q) \/ LoginMFA(q) \/ IssueTokens(q) \/ IssueFails(q) \/ SwitchWorkspace(q)
       \/ Refresh(q) \/ DropToken(q) \/ ForgetSession(q)
       \/ Logout(q) \/ LogoutDelete(q) \/ ListSessions(q) \/ DeleteSession(q) \/ DeleteSessionUnlist(q)
       \/ ResetPassword(q) \/ ResetUpdate(q) \/ ResetBurn(q) \/ RevokeMembers(q) \/ RevokeDelete(q)
       \/ MfaSetup(q) \/ MfaEnable(q) \/ MfaDisable(q) \/ MfaWrite(q)
       \/ ClientLeaves(q)
  \/ ForgotPassword
  \/ \E t \in keys : SessionExpires(t)
  \/ \E x \in secrets : SecretExpires(x)

SessSpec == SessInit /\ [][SessNext]_sessVars

-----------------------------------------------------------------------------
Excused(t) == <<"token", t>> \in past.excused

(***************************************************************************)
(* A refresh token, a reset link or an MFA challenge is good for one       *)
(* session or one password, unless two requests held it at the same time,  *)
(* a Redis command failed or the client left half way (refresh,            *)
(* resetPassword, consumeMFAChallenge).                                    *)
(***************************************************************************)
UsedTwiceOnlyByOverlap == past.reused \subseteq past.excused

(***************************************************************************)
(* When a password reset is over no session opened with an older password  *)
(* is left, unless it was being issued, exchanged or logged out while the  *)
(* reset revoked, goes back to an access token of that time, or the        *)
(* reset's client left (resetPassword, revokeUserSessions against          *)
(* issueTokens, refresh, switchWorkspace and logout).                      *)
(***************************************************************************)
ResetEndsOldSessions ==
  Holding({"burn", "members", "revoke"}) = {} =>
    \A t \in keys : proven[t] = password \/ Excused(t)

(***************************************************************************)
(* A session the user ended does not live on under another token, unless   *)
(* it was exchanged at that moment (logout, deleteSession against refresh  *)
(* and switchWorkspace).                                                   *)
(***************************************************************************)
EndedSessionsStayEnded == \A t \in keys : t \in past.ended => Excused(t)

(***************************************************************************)
(* Every live session is on the list its owner sees, so that it can be     *)
(* ended, unless it is being logged out or an overlap took it off the list *)
(* (issueTokens against revokeUserSessions, logout, refresh).              *)
(***************************************************************************)
LiveSessionsListed ==
  \A t \in keys : t \in listed \/ Excused(t) \/ \E q \in Holding({"delete"}) : req[q].arg = t

(***************************************************************************)
(* MFA is only enabled with a secret its owner has confirmed, unless two   *)
(* of setup, enable and disable overlapped; a row enabled without a secret *)
(* would lock its owner out (login).                                       *)
(***************************************************************************)
EnabledSecretConfirmed ==
  mfa.enabled => <<"totp", mfa.secret>> \in past.used \cup past.excused

(***************************************************************************)
(* What proves who somebody is proves it once, and MFA asks for a secret   *)
(* its owner has shown to hold; only overlaps and lost commands break it.  *)
(***************************************************************************)
SecretsUsedOnce ==
  /\ UsedTwiceOnlyByOverlap
  /\ EnabledSecretConfirmed

(***************************************************************************)
(* Sessions can be ended: the list shows all of them, the ones ended stay  *)
(* ended, and a new password ends the old ones; what escapes was in flight *)
(* at that moment.                                                         *)
(***************************************************************************)
SessionsEnd ==
  /\ ResetEndsOldSessions
  /\ EndedSessionsStayEnded
  /\ LiveSessionsListed
=============================================================================
