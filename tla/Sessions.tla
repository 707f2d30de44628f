------------------------------- MODULE Sessions -------------------------------
(***************************************************************************)
(* Sign-in sessions of the administrators (auth_service, the parts of      *)
(* rbac_service that create, deactivate and delete users, and the two      *)
(* repositories behind them).  A sign-in with Google starts a session; its *)
(* refresh token is exchanged for a new one at every refresh, the old one  *)
(* is revoked in the same transaction.  A session ends by logout, by       *)
(* logout of all sessions and by deactivation of the user.                 *)
(*                                                                         *)
(* Every request is one database transaction under READ COMMITTED: it      *)
(* reads first, decides on what it read, and its writes appear together    *)
(* at the commit.  A failure before the commit rolls everything back.      *)
(***************************************************************************)
EXTENDS Naturals

CONSTANTS
    Admins,             \* rows of admin_users that may exist
    SuperadminRows,     \* those that settings.superadmin_email may have, one after the other
    MaxTokens,          \* bound: refresh tokens that are ever created
    AuthRequests,       \* requests served at the same time
    NoAdmin

ASSUME SessionAssumptions ==
    /\ SuperadminRows \subseteq Admins
    /\ NoAdmin \notin Admins
    /\ MaxTokens \in Nat

\* Numbered in the order of their creation.
Tokens == 1 .. MaxTokens

NoToken == 0

VARIABLES
    account,        \* [Admins -> "absent", "active" or "inactive"]
    refreshToken,   \* [Tokens -> row]: the table refresh_tokens
    authReq,        \* [AuthRequests -> what an open request is doing]
    clashed,        \* history: users with two requests that touched the same session
    ended           \* history: sessions that were logged out or revoked

sessionVars == <<account, refreshToken, authReq, clashed, ended>>

\* session: the token that the sign-in created, from which this one descends.
TokenRow == [user: Admins \cup {NoAdmin}, session: Tokens \cup {NoToken},
             at: {"unused", "valid", "expired", "revoked"}]

NoRow == [user |-> NoAdmin, session |-> NoToken, at |-> "unused"]

IdleAuth == [op |-> "none", user |-> NoAdmin, token |-> NoToken, seen |-> {}, was |-> "absent"]

AuthRequest ==
    [op: {"none", "login", "refresh", "rotate", "logout", "revoke", "deactivate", "activate"},
     user: Admins \cup {NoAdmin}, token: Tokens \cup {NoToken}, seen: SUBSET Tokens,
     was: {"absent", "active", "inactive"}]

SessionsInit ==
    /\ account = [u \in Admins |-> "absent"]
    /\ refreshToken = [t \in Tokens |-> NoRow]
    /\ authReq = [r \in AuthRequests |-> IdleAuth]
    /\ clashed = {}
    /\ ended = {}

Unrevoked(u) ==
    {t \in Tokens : refreshToken[t].user = u /\ refreshToken[t].at \in {"valid", "expired"}}

SessionOf(t) == refreshToken[t].session

SessionsOf(T) == {SessionOf(t) : t \in T}

\* Two open requests clash when they may write the same session: the same token, or
\* every session of the user and any one of them.
RevokesAll(op) == op \in {"revoke", "deactivate"}

Clash(p, q) ==
    /\ p.user = q.user
    /\ {p.op, q.op} \cap {"none", "activate"} = {}
    /\ p.token = q.token \/ RevokesAll(p.op) \/ RevokesAll(q.op)
    /\ ~(p.op = "login" /\ q.op = "login")

Open(r, request) ==
    /\ authReq[r] = IdleAuth
    /\ authReq' = [authReq EXCEPT ![r] = request]
    /\ clashed' = IF \E q \in AuthRequests \ {r} : Clash(authReq[q], request)
                  THEN clashed \cup {request.user} ELSE clashed

Close(r) == authReq' = [authReq EXCEPT ![r] = IdleAuth]

IsNextToken(t) == \A s \in Tokens : refreshToken[s].at = "unused" <=> s >= t

\* Whoever signed in has an audit entry, whose foreign key has no ON DELETE rule.
NeverSignedIn(u) == \A t \in Tokens : refreshToken[t].user # u

\* A deleted account that is entered again is another row.
NeverExisted(u) == account[u] = "absent" /\ NeverSignedIn(u)

\* get_by_email finds nobody, and the unique address admits the row.
AddressFree(u) ==
    /\ NeverExisted(u)
    /\ u \in SuperadminRows => \A v \in SuperadminRows : account[v] = "absent"

-----------------------------------------------------------------------------
(* rbac_service.create_user: an account exists before its first sign-in.   *)
CreateUser(u) ==
    /\ AddressFree(u)
    /\ account' = [account EXCEPT ![u] = "active"]
    /\ UNCHANGED <<refreshToken, authReq, clashed, ended>>

(* authenticate_google: the account is looked up; only the configured      *)
(* superadmin is created on the fly.  A disabled account is turned away.   *)
LoginBegin(r, u) ==
    /\ \/ account[u] = "active"
       \/ u \in SuperadminRows /\ AddressFree(u)
    /\ Open(r, [IdleAuth EXCEPT !.op = "login", !.user = u, !.was = account[u]])
    /\ UNCHANGED <<account, refreshToken, ended>>

\* A second creation of the superadmin meets the unique e-mail address and fails, and a
\* token for a user deleted meanwhile meets the foreign key: see Abort.
LoginCommit(r) ==
    LET u == authReq[r].user IN
    /\ authReq[r].op = "login"
    /\ IF authReq[r].was = "absent" THEN AddressFree(u) ELSE account[u] # "absent"
    /\ account' = [account EXCEPT ![u] = IF @ = "absent" THEN "active" ELSE @]
    /\ \E t \in Tokens :
          /\ IsNextToken(t)
          /\ refreshToken' = [refreshToken EXCEPT
                                 ![t] = [user |-> u, session |-> t, at |-> "valid"]]
    /\ Close(r)
    /\ UNCHANGED <<clashed, ended>>

(* refresh_access_token, first query: the token must not be revoked        *)
(* (get_by_hash) nor expired.                                              *)
RefreshReadsToken(r, t) ==
    /\ refreshToken[t].at = "valid"
    /\ Open(r, [IdleAuth EXCEPT !.op = "refresh", !.user = refreshToken[t].user, !.token = t])
    /\ UNCHANGED <<account, refreshToken, ended>>

(* second query: the user must exist and be active, else 401.              *)
RefreshReadsUser(r) ==
    LET u == authReq[r].user IN
    /\ authReq[r].op = "refresh"
    /\ IF account[u] = "active"
       THEN authReq' = [authReq EXCEPT ![r].op = "rotate"]
       ELSE Close(r)
    /\ UNCHANGED <<account, refreshToken, clashed, ended>>

\* Mutant: the new token is stored, the old one stays usable.
KeepOldToken(t, new) ==
    refreshToken' = [refreshToken EXCEPT
        ![new] = [user |-> refreshToken[t].user, session |-> SessionOf(t), at |-> "valid"]]

\* revoke_token and create_token: one transaction.
ReplaceToken(t, new) ==
    refreshToken' = [refreshToken EXCEPT
        ![t].at = "revoked",
        ![new] = [user |-> refreshToken[t].user, session |-> SessionOf(t), at |-> "valid"]]

\* The foreign key of refresh_tokens needs the user.
Rotate(r) ==
    /\ authReq[r].op = "rotate"
    /\ account[authReq[r].user] # "absent"
    /\ \E new \in Tokens : IsNextToken(new) /\ ReplaceToken(authReq[r].token, new)
    /\ Close(r)
    /\ UNCHANGED <<account, clashed, ended>>

(* logout: an unknown or revoked token is no error; an expired one is      *)
(* revoked like a valid one.                                               *)
LogoutBegin(r, t) ==
    /\ refreshToken[t].at \in {"valid", "expired"}
    /\ Open(r, [IdleAuth EXCEPT !.op = "logout", !.user = refreshToken[t].user, !.token = t])
    /\ UNCHANGED <<account, refreshToken, ended>>

LogoutCommit(r) ==
    LET t == authReq[r].token IN
    /\ authReq[r].op = "logout"
    /\ refreshToken' = [refreshToken EXCEPT ![t].at = "revoked"]
    /\ ended' = ended \cup {SessionOf(t)}
    /\ Close(r)
    /\ UNCHANGED <<account, clashed>>

-----------------------------------------------------------------------------
(* revoke_all_for_user selects the unrevoked tokens and revokes the ones   *)
(* it selected.  logout_all_sessions is nothing else; update_user calls it *)
(* when it finds an active account that is to be deactivated.              *)
RevokeAllBegin(r, u) ==
    /\ account[u] # "absent"
    /\ Open(r, [IdleAuth EXCEPT !.op = "revoke", !.user = u, !.seen = Unrevoked(u)])
    /\ UNCHANGED <<account, refreshToken, ended>>

\* Mutant: deactivation leaves the sessions alone.
SelectNone(u) == {}

SelectForDeactivation(u) == Unrevoked(u)

DeactivateBegin(r, u) ==
    /\ account[u] = "active"
    /\ Open(r, [IdleAuth EXCEPT !.op = "deactivate", !.user = u,
                                !.seen = SelectForDeactivation(u)])
    /\ UNCHANGED <<account, refreshToken, ended>>

\* Of a user deleted meanwhile there is nothing left to update: the flush fails.
RevokeCommit(r) ==
    LET q == authReq[r] IN
    /\ RevokesAll(q.op)
    /\ account[q.user] # "absent"
    /\ refreshToken' = [t \in Tokens |-> IF t \in q.seen
                                         THEN [refreshToken[t] EXCEPT !.at = "revoked"]
                                         ELSE refreshToken[t]]
    /\ account' = IF q.op = "deactivate" THEN [account EXCEPT ![q.user] = "inactive"] ELSE account
    /\ ended' = ended \cup SessionsOf({t \in Tokens : refreshToken[t].user = q.user})
    /\ Close(r)
    /\ UNCHANGED clashed

(* update_user on an inactive account.  An update that finds the wanted    *)
(* value emits no UPDATE and is left out.                                  *)
ActivateBegin(r, u) ==
    /\ account[u] = "inactive"
    /\ Open(r, [IdleAuth EXCEPT !.op = "activate", !.user = u])
    /\ UNCHANGED <<account, refreshToken, ended>>

ActivateCommit(r) ==
    LET u == authReq[r].user IN
    /\ authReq[r].op = "activate"
    /\ account[u] # "absent"
    /\ account' = [account EXCEPT ![u] = "active"]
    /\ Close(r)
    /\ UNCHANGED <<refreshToken, clashed, ended>>

(* delete_user: roles, tokens and the row in one transaction, which the    *)
(* audit entries of the user make fail: only an account that was never     *)
(* used can be deleted.                                                    *)
DeleteUser(u) ==
    /\ account[u] # "absent"
    /\ NeverSignedIn(u)
    /\ account' = [account EXCEPT ![u] = "absent"]
    /\ UNCHANGED <<refreshToken, authReq, clashed, ended>>

Expire(t) ==
    /\ refreshToken[t].at = "valid"
    /\ refreshToken' = [refreshToken EXCEPT ![t].at = "expired"]
    /\ UNCHANGED <<account, authReq, clashed, ended>>

(* get_db: any error before the commit rolls the transaction back.         *)
Abort(r) ==
    /\ authReq[r] # IdleAuth
    /\ Close(r)
    /\ UNCHANGED <<account, refreshToken, clashed, ended>>
-----------------------------------------------------------------------------
SessionsNext ==
    \/ \E u \in Admins : CreateUser(u) \/ DeleteUser(u)
    \/ \E t \in Tokens : Expire(t)
    \/ \E r \in AuthRequests, u \in Admins :
          \/ LoginBegin(r, u)
          \/ RevokeAllBegin(r, u)
          \/ DeactivateBegin(r, u)
          \/ ActivateBegin(r, u)
    \/ \E r \in AuthRequests, t \in Tokens : RefreshReadsToken(r, t) \/ LogoutBegin(r, t)
    \/ \E r \in AuthRequests :
          \/ LoginCommit(r)
          \/ RefreshReadsUser(r)
          \/ Rotate(r)
          \/ LogoutCommit(r)
          \/ RevokeCommit(r)
          \/ ActivateCommit(r)
          \/ Abort(r)

SessionsSpec == SessionsInit /\ [][SessionsNext]_sessionVars

-----------------------------------------------------------------------------
(* The variables hold values of their types.                               *)
SessionsTypeOK ==
    /\ account \in [Admins -> {"absent", "active", "inactive"}]
    /\ refreshToken \in [Tokens -> TokenRow]
    /\ authReq \in [AuthRequests -> AuthRequest]
    /\ clashed \subseteq Admins
    /\ ended \subseteq Tokens

(* Rotation neither forks nor loses a session (refresh_access_token: "one- *)
(* time use"): as long as no two requests of the user worked on the same   *)
(* session at once, a session that nobody ended has exactly one token that *)
(* is not revoked, and an ended one has none.                              *)
OneTokenPerSession ==
    \A c \in Tokens :
        (SessionOf(c) = c /\ refreshToken[c].user \notin clashed)
            => LET usable == {t \in Unrevoked(refreshToken[c].user) : SessionOf(t) = c} IN
               IF c \in ended THEN usable = {} ELSE \E t \in usable : usable = {t}

(* update_user, "revoked all sessions": a deactivated account holds no     *)
(* token that would work again once the account is activated, unless a     *)
(* request of that user overlapped the deactivation.                       *)
DeactivatedHoldsNoToken ==
    \A u \in Admins \ clashed : account[u] = "inactive" => Unrevoked(u) = {}
=============================================================================
