------------------------ MODULE Administration_proofs -------------------------
(***************************************************************************)
(* Proofs about the administration of the application: sign-in (Sessions), *)
(* roles (RoleGrants), notifications (Notifications), imports of CSV files *)
(* (ImportJobs), scheduled backups (Backups) and their restore (Restore).  *)
(***************************************************************************)
EXTENDS Sessions, RoleGrants, Notifications, ImportJobs, Backups, Restore, FiniteSetTheorems,
        SequenceTheorems, TLAPS

-----------------------------------------------------------------------------
(***************************************************************************)
(* Proofs about Sessions for every set of users, tokens and requests: the  *)
(* rows are well typed, the rotation of refresh tokens neither forks nor   *)
(* loses a session, and a deactivated account holds no token.              *)
(***************************************************************************)

-----------------------------------------------------------------------------
(* The invariant *)

Used(t) == refreshToken[t].at # "unused"

\* A token that exists has a user and descends from the first token of its session.
RowsLinked ==
    \A t \in Tokens :
        IF Used(t)
        THEN /\ refreshToken[t].user \in Admins /\ SessionOf(t) \in Tokens
             /\ Used(SessionOf(t)) /\ SessionOf(SessionOf(t)) = SessionOf(t)
             /\ refreshToken[SessionOf(t)].user = refreshToken[t].user
        ELSE refreshToken[t].user = NoAdmin /\ SessionOf(t) = NoToken

HoldsToken(op) == op \in {"refresh", "rotate", "logout"}

\* A request works on tokens of its user.
RequestsLinked ==
    \A r \in AuthRequests :
        /\ authReq[r].op # "none" => authReq[r].user \in Admins
        /\ HoldsToken(authReq[r].op) =>
              /\ authReq[r].token \in Tokens /\ Used(authReq[r].token)
              /\ refreshToken[authReq[r].token].user = authReq[r].user
        /\ \A t \in authReq[r].seen : Used(t) /\ refreshToken[t].user = authReq[r].user

EndedUsed == \A c \in ended : Used(c)

SessionsTyped == SessionsTypeOK /\ RowsLinked /\ RequestsLinked /\ EndedUsed

\* Two requests that may write the same session are recorded.
ClashesKnown ==
    \A q, r \in AuthRequests :
        (q # r /\ Clash(authReq[q], authReq[r])) => authReq[r].user \in clashed

\* Nothing escapes a revocation, and nobody revokes the token of a request, unless the user
\* has clashed.
SeenCovers ==
    \A r \in AuthRequests :
        (RevokesAll(authReq[r].op) /\ authReq[r].user \notin clashed)
            => Unrevoked(authReq[r].user) \subseteq authReq[r].seen

TokenStays ==
    \A r \in AuthRequests :
        (HoldsToken(authReq[r].op) /\ authReq[r].user \notin clashed)
            => refreshToken[authReq[r].token].at \in {"valid", "expired"}

\* Nobody is signing in to a deactivated account.
NoLoginInactive ==
    \A r \in AuthRequests :
        (authReq[r].op = "login" /\ authReq[r].user \notin clashed)
            => account[authReq[r].user] # "inactive"

SessionInv ==
    /\ SessionsTyped /\ ClashesKnown /\ SeenCovers /\ TokenStays /\ NoLoginInactive
    /\ OneTokenPerSession /\ DeactivatedHoldsNoToken

-----------------------------------------------------------------------------
(* Requests *)

\* Numbers of tokens are positive, and there is no token without a number.
LEMMA TokensArePositive == NoToken \notin Tokens /\ \A t \in Tokens : t \in Nat
BY SessionAssumptions DEF NoToken, Tokens

\* The next token has not been used.
LEMMA NextUnused ==
    ASSUME NEW t \in Tokens, IsNextToken(t)
    PROVE  ~Used(t)
BY TokensArePositive DEF IsNextToken, Used

\* What an open request is doing is well typed.
LEMMA AuthRequestTyped ==
    ASSUME SessionsTyped, NEW r \in AuthRequests
    PROVE  authReq[r] \in AuthRequest
BY DEF SessionsTyped, SessionsTypeOK

LEMMA RowTyped ==
    ASSUME SessionsTyped, NEW t \in Tokens
    PROVE  refreshToken[t] \in TokenRow
BY DEF SessionsTyped, SessionsTypeOK

LEMMA IdleAuthTyped == IdleAuth \in AuthRequest /\ IdleAuth.op = "none" /\ IdleAuth.seen = {}
BY DEF IdleAuth, AuthRequest

LEMMA ClashSymmetric ==
    ASSUME NEW p, NEW q, Clash(p, q)
    PROVE  Clash(q, p)
BY DEF Clash

\* Whoever opens a request that clashes is recorded.
LEMMA AuthOpened ==
    ASSUME SessionInv, NEW r \in AuthRequests, NEW rec \in AuthRequest, Open(r, rec),
           rec.op # "none", rec.user \in Admins
    PROVE  /\ \A q \in AuthRequests : authReq'[q] = IF q = r THEN rec ELSE authReq[q]
           /\ authReq' \in [AuthRequests -> AuthRequest]
           /\ clashed \subseteq clashed' /\ clashed' \subseteq Admins
           /\ ClashesKnown'
<1>1. /\ \A q \in AuthRequests : authReq'[q] = IF q = r THEN rec ELSE authReq[q]
      /\ authReq' \in [AuthRequests -> AuthRequest]
    BY DEF Open, SessionInv, SessionsTyped, SessionsTypeOK
<1>2. clashed \subseteq clashed' /\ clashed' \subseteq Admins
    BY DEF Open, SessionInv, SessionsTyped, SessionsTypeOK
<1>3. ASSUME NEW q \in AuthRequests, q # r, Clash(authReq[q], rec)
      PROVE  rec.user \in clashed'
    BY <1>3 DEF Open
<1>4. ClashesKnown'
    <2> SUFFICES ASSUME NEW q \in AuthRequests, NEW p \in AuthRequests, q # p,
                        Clash(authReq'[q], authReq'[p])
                 PROVE  authReq'[p].user \in clashed'
        BY DEF ClashesKnown, Clash, RevokesAll
    <2>1. CASE p = r
        BY <1>1, <1>3, <2>1
    <2>2. CASE q = r
        <3>1. authReq'[p] = authReq[p] /\ authReq'[q] = rec
            BY <1>1, <2>2
        <3>2. Clash(authReq[p], rec) /\ authReq[p].user = rec.user
            BY <3>1, ClashSymmetric DEF Clash
        <3> QED BY <1>3, <2>2, <3>1, <3>2
    <2>3. CASE p # r /\ q # r
        BY <1>1, <1>2, <2>3 DEF SessionInv, ClashesKnown
    <2> QED BY <2>1, <2>2, <2>3
<1> QED BY <1>1, <1>2, <1>4

\* A request that ends leaves the others as they are.
LEMMA AuthClosed ==
    ASSUME SessionInv, NEW r \in AuthRequests, Close(r), UNCHANGED clashed
    PROVE  /\ authReq'[r] = IdleAuth
           /\ \A q \in AuthRequests \ {r} : authReq'[q] = authReq[q]
           /\ authReq' \in [AuthRequests -> AuthRequest]
           /\ ClashesKnown'
<1>1. /\ authReq'[r] = IdleAuth
      /\ \A q \in AuthRequests \ {r} : authReq'[q] = authReq[q]
      /\ authReq' \in [AuthRequests -> AuthRequest]
    BY IdleAuthTyped DEF Close, SessionInv, SessionsTyped, SessionsTypeOK
<1>2. ASSUME NEW q \in AuthRequests, NEW p \in AuthRequests, q # p,
             Clash(authReq'[q], authReq'[p])
      PROVE  authReq'[p].user \in clashed'
    <2>1. authReq'[q].op # "none" /\ authReq'[p].op # "none"
        BY <1>2 DEF Clash
    <2>2. q # r /\ p # r
        BY <1>1, <2>1, IdleAuthTyped
    <2> QED BY <1>1, <1>2, <2>2 DEF SessionInv, ClashesKnown
<1>3. ClashesKnown'
    BY <1>2 DEF ClashesKnown, Clash, RevokesAll
<1> QED BY <1>1, <1>3

-----------------------------------------------------------------------------
(* Steps that only open a request *)

LEMMA OpenKeeps ==
    ASSUME SessionInv, NEW r \in AuthRequests, NEW rec \in AuthRequest, Open(r, rec),
           rec.op # "none", rec.user \in Admins, UNCHANGED <<account, refreshToken, ended>>,
           HoldsToken(rec.op) =>
               /\ rec.token \in Tokens /\ refreshToken[rec.token].at \in {"valid", "expired"}
               /\ refreshToken[rec.token].user = rec.user,
           \A t \in rec.seen : Used(t) /\ refreshToken[t].user = rec.user,
           RevokesAll(rec.op) => Unrevoked(rec.user) \subseteq rec.seen,
           rec.op = "login" => account[rec.user] # "inactive"
    PROVE  SessionInv'
<1>1. /\ \A q \in AuthRequests : authReq'[q] = IF q = r THEN rec ELSE authReq[q]
      /\ authReq' \in [AuthRequests -> AuthRequest]
      /\ clashed \subseteq clashed' /\ clashed' \subseteq Admins
      /\ ClashesKnown'
    BY AuthOpened
<1>2. SessionsTypeOK'
    BY <1>1 DEF SessionInv, SessionsTyped, SessionsTypeOK
<1>3. RowsLinked' /\ EndedUsed'
    BY DEF SessionInv, SessionsTyped, RowsLinked, EndedUsed, Used, SessionOf
<1>4. RequestsLinked'
    BY <1>1 DEF SessionInv, SessionsTyped, RequestsLinked, Used
<1>5. \A u : Unrevoked(u)' = Unrevoked(u)
    BY DEF Unrevoked
<1>6. SeenCovers'
    BY <1>1, <1>5 DEF SessionInv, SeenCovers
<1>7. TokenStays'
    BY <1>1 DEF SessionInv, TokenStays
<1>8. NoLoginInactive'
    BY <1>1 DEF SessionInv, NoLoginInactive
<1>9. OneTokenPerSession'
    BY <1>1 DEF SessionInv, OneTokenPerSession, Unrevoked, SessionOf
<1>10. DeactivatedHoldsNoToken'
    BY <1>1, <1>5 DEF SessionInv, DeactivatedHoldsNoToken
<1> QED BY <1>1, <1>2, <1>3, <1>4, <1>6, <1>7, <1>8, <1>9, <1>10 DEF SessionInv, SessionsTyped

\* The five requests that begin with a read.
LEMMA LoginBeginKeeps ==
    ASSUME SessionInv, NEW r \in AuthRequests, NEW u \in Admins, LoginBegin(r, u)
    PROVE  SessionInv'
<1> DEFINE rec == [IdleAuth EXCEPT !.op = "login", !.user = u, !.was = account[u]]
<1>1. Open(r, rec) /\ UNCHANGED <<account, refreshToken, ended>> /\ account[u] # "inactive"
    BY DEF LoginBegin, AddressFree, NeverExisted
<1>2. account[u] \in {"absent", "active", "inactive"}
    BY DEF SessionInv, SessionsTyped, SessionsTypeOK
<1>3. rec \in AuthRequest /\ rec.op = "login" /\ rec.user = u /\ rec.seen = {}
    BY <1>2, IdleAuthTyped DEF AuthRequest
<1> HIDE DEF rec
<1> QED BY <1>1, <1>3, OpenKeeps DEF HoldsToken, RevokesAll

LEMMA RefreshReadsTokenKeeps ==
    ASSUME SessionInv, NEW r \in AuthRequests, NEW t \in Tokens, RefreshReadsToken(r, t)
    PROVE  SessionInv'
<1> DEFINE u   == refreshToken[t].user
           rec == [IdleAuth EXCEPT !.op = "refresh", !.user = u, !.token = t]
<1>1. /\ Open(r, rec) /\ UNCHANGED <<account, refreshToken, ended>>
      /\ refreshToken[t].at = "valid"
    BY DEF RefreshReadsToken
<1>2. u \in Admins
    BY <1>1 DEF SessionInv, SessionsTyped, RowsLinked, Used
<1> HIDE DEF u
<1>3. rec \in AuthRequest /\ rec.op = "refresh" /\ rec.user = u /\ rec.token = t /\ rec.seen = {}
    BY <1>2, IdleAuthTyped DEF AuthRequest
<1> HIDE DEF rec
<1> QED BY <1>1, <1>2, <1>3, OpenKeeps DEF HoldsToken, RevokesAll, u

LEMMA LogoutBeginKeeps ==
    ASSUME SessionInv, NEW r \in AuthRequests, NEW t \in Tokens, LogoutBegin(r, t)
    PROVE  SessionInv'
<1> DEFINE u   == refreshToken[t].user
           rec == [IdleAuth EXCEPT !.op = "logout", !.user = u, !.token = t]
<1>1. /\ Open(r, rec) /\ UNCHANGED <<account, refreshToken, ended>>
      /\ refreshToken[t].at \in {"valid", "expired"}
    BY DEF LogoutBegin
<1>2. u \in Admins
    BY <1>1 DEF SessionInv, SessionsTyped, RowsLinked, Used
<1> HIDE DEF u
<1>3. rec \in AuthRequest /\ rec.op = "logout" /\ rec.user = u /\ rec.token = t /\ rec.seen = {}
    BY <1>2, IdleAuthTyped DEF AuthRequest
<1> HIDE DEF rec
<1> QED BY <1>1, <1>2, <1>3, OpenKeeps DEF HoldsToken, RevokesAll, u

LEMMA RevokeBeginKeeps ==
    ASSUME SessionInv, NEW r \in AuthRequests, NEW u \in Admins,
           RevokeAllBegin(r, u) \/ DeactivateBegin(r, u)
    PROVE  SessionInv'
<1> DEFINE seen == Unrevoked(u)
           rec(op) == [IdleAuth EXCEPT !.op = op, !.user = u, !.seen = seen]
<1>1. PICK op \in {"revoke", "deactivate"} :
          Open(r, rec(op)) /\ UNCHANGED <<account, refreshToken, ended>>
    <2>1. CASE RevokeAllBegin(r, u)
        BY <2>1 DEF RevokeAllBegin
    <2>2. CASE DeactivateBegin(r, u)
        BY <2>2 DEF DeactivateBegin, SelectForDeactivation
    <2> QED BY <2>1, <2>2
<1>2. \A t \in seen : t \in Tokens /\ Used(t) /\ refreshToken[t].user = u
    BY DEF Unrevoked, Used
<1> HIDE DEF seen
<1>3. /\ rec(op) \in AuthRequest /\ rec(op).op = op /\ rec(op).user = u
      /\ rec(op).seen = seen
    BY <1>2, IdleAuthTyped DEF AuthRequest
<1>4. op # "none" /\ op # "login" /\ ~HoldsToken(op)
    BY DEF HoldsToken
<1> HIDE DEF rec
<1> QED BY <1>1, <1>2, <1>3, <1>4, OpenKeeps DEF seen

LEMMA ActivateBeginKeeps ==
    ASSUME SessionInv, NEW r \in AuthRequests, NEW u \in Admins, ActivateBegin(r, u)
    PROVE  SessionInv'
<1> DEFINE rec == [IdleAuth EXCEPT !.op = "activate", !.user = u]
<1>1. Open(r, rec) /\ UNCHANGED <<account, refreshToken, ended>>
    BY DEF ActivateBegin
<1>2. rec \in AuthRequest /\ rec.op = "activate" /\ rec.user = u /\ rec.seen = {}
    BY IdleAuthTyped DEF AuthRequest
<1> HIDE DEF rec
<1> QED BY <1>1, <1>2, OpenKeeps DEF HoldsToken, RevokesAll

-----------------------------------------------------------------------------
(* Steps that leave the tokens alone *)

\* Some accounts change, requests end or go on; no deactivation takes effect.
LEMMA TokensUntouched ==
    ASSUME SessionInv, UNCHANGED <<refreshToken, clashed, ended>>,
           account' \in [Admins -> {"absent", "active", "inactive"}],
           \A u \in Admins : account'[u] = "inactive" => account[u] = "inactive",
           authReq' \in [AuthRequests -> AuthRequest], ClashesKnown',
           \A q \in AuthRequests :
              \/ authReq'[q] = authReq[q]
              \/ authReq'[q] = IdleAuth
              \/ /\ authReq'[q].op = "rotate" /\ authReq[q].op = "refresh"
                 /\ authReq'[q].user = authReq[q].user /\ authReq'[q].token = authReq[q].token
                 /\ authReq'[q].seen = authReq[q].seen
    PROVE  SessionInv'
<1> USE IdleAuthTyped DEF SessionInv
<1>1. SessionsTypeOK'
    BY DEF SessionsTyped, SessionsTypeOK
<1>2. RowsLinked' /\ EndedUsed'
    BY DEF SessionsTyped, RowsLinked, EndedUsed, Used, SessionOf
<1>3. RequestsLinked'
    BY DEF SessionsTyped, RequestsLinked, Used, HoldsToken
<1>4. \A u : Unrevoked(u)' = Unrevoked(u)
    BY DEF Unrevoked
<1>5. SeenCovers'
    BY <1>4 DEF SeenCovers, RevokesAll
<1>6. TokenStays'
    BY DEF TokenStays, HoldsToken
<1>7. NoLoginInactive'
    BY DEF NoLoginInactive, SessionsTyped, RequestsLinked
<1>8. OneTokenPerSession'
    BY DEF OneTokenPerSession, Unrevoked, SessionOf
<1>9. DeactivatedHoldsNoToken'
    BY <1>4 DEF DeactivatedHoldsNoToken
<1> QED BY <1>1, <1>2, <1>3, <1>5, <1>6, <1>7, <1>8, <1>9 DEF SessionsTyped

LEMMA AccountStepsKeep ==
    ASSUME SessionInv
    PROVE  /\ \A u \in Admins : CreateUser(u) \/ DeleteUser(u) => SessionInv'
           /\ \A r \in AuthRequests :
                 RefreshReadsUser(r) \/ ActivateCommit(r) \/ Abort(r) => SessionInv'
<1> USE DEF SessionInv
<1>1. ASSUME NEW u \in Admins, CreateUser(u) \/ DeleteUser(u) PROVE SessionInv'
    <2>1. /\ account' \in [Admins -> {"absent", "active", "inactive"}]
          /\ \A v \in Admins : account'[v] = "inactive" => account[v] = "inactive"
        BY <1>1 DEF CreateUser, DeleteUser, SessionsTyped, SessionsTypeOK
    <2>2. UNCHANGED <<refreshToken, authReq, clashed, ended>>
        BY <1>1 DEF CreateUser, DeleteUser
    <2>3. ClashesKnown' /\ authReq' \in [AuthRequests -> AuthRequest]
        BY <2>2 DEF ClashesKnown, Clash, RevokesAll, SessionsTyped, SessionsTypeOK
    <2> QED BY <2>1, <2>2, <2>3, TokensUntouched
<1>2. ASSUME NEW r \in AuthRequests, Abort(r) PROVE SessionInv'
    <2>1. Close(r) /\ UNCHANGED <<account, refreshToken, clashed, ended>>
        BY <1>2 DEF Abort
    <2>2. account' \in [Admins -> {"absent", "active", "inactive"}]
        BY <2>1 DEF SessionsTyped, SessionsTypeOK
    <2> QED BY <2>1, <2>2, AuthClosed, TokensUntouched
<1>3. ASSUME NEW r \in AuthRequests, ActivateCommit(r) PROVE SessionInv'
    <2>1. /\ Close(r) /\ UNCHANGED <<refreshToken, clashed, ended>>
          /\ account' = [account EXCEPT ![authReq[r].user] = "active"]
        BY <1>3 DEF ActivateCommit
    <2>2. /\ account' \in [Admins -> {"absent", "active", "inactive"}]
          /\ \A v \in Admins : account'[v] = "inactive" => account[v] = "inactive"
        BY <2>1 DEF SessionsTyped, SessionsTypeOK
    <2> QED BY <2>1, <2>2, AuthClosed, TokensUntouched
<1>4. ASSUME NEW r \in AuthRequests, RefreshReadsUser(r) PROVE SessionInv'
    <2>1. UNCHANGED <<account, refreshToken, clashed, ended>> /\ authReq[r].op = "refresh"
        BY <1>4 DEF RefreshReadsUser
    <2>2. account' \in [Admins -> {"absent", "active", "inactive"}]
        BY <2>1 DEF SessionsTyped, SessionsTypeOK
    <2>3. CASE Close(r)
        BY <2>1, <2>2, <2>3, AuthClosed, TokensUntouched
    <2>4. CASE authReq' = [authReq EXCEPT ![r].op = "rotate"]
        <3> DEFINE next == [authReq[r] EXCEPT !.op = "rotate"]
        <3>1. /\ next \in AuthRequest /\ next.op = "rotate" /\ next.user = authReq[r].user
              /\ next.token = authReq[r].token /\ next.seen = authReq[r].seen
            BY AuthRequestTyped DEF AuthRequest
        <3>2. authReq' = [authReq EXCEPT ![r] = next]
            BY <2>4
        <3> HIDE DEF next
        <3>3. /\ authReq' \in [AuthRequests -> AuthRequest] /\ authReq'[r] = next
              /\ \A q \in AuthRequests \ {r} : authReq'[q] = authReq[q]
            BY <3>1, <3>2 DEF SessionsTyped, SessionsTypeOK
        <3>4. ClashesKnown'
            <4> SUFFICES ASSUME NEW q \in AuthRequests, NEW p \in AuthRequests, q # p,
                                Clash(authReq'[q], authReq'[p])
                         PROVE  authReq'[p].user \in clashed'
                BY DEF ClashesKnown, Clash, RevokesAll
            <4>1. Clash(authReq[q], authReq[p]) /\ authReq'[p].user = authReq[p].user
                BY <2>1, <3>1, <3>3 DEF Clash, RevokesAll
            <4> QED BY <2>1, <4>1 DEF ClashesKnown
        <3> QED BY <2>1, <2>2, <3>1, <3>3, <3>4, TokensUntouched
    <2> QED BY <1>4, <2>3, <2>4 DEF RefreshReadsUser
<1> QED BY <1>1, <1>2, <1>3, <1>4

-----------------------------------------------------------------------------
(* Tokens of a session *)

Live(c) == {t \in Tokens : refreshToken[t].at \in {"valid", "expired"} /\ SessionOf(t) = c}

OneLive(c) == IF c \in ended THEN Live(c) = {} ELSE \E t \in Live(c) : Live(c) = {t}

OneLivePerSession ==
    \A c \in Tokens : (SessionOf(c) = c /\ refreshToken[c].user \notin clashed) => OneLive(c)

\* The property, told by the sessions alone: its tokens are its user's.
LEMMA SessionsByToken ==
    ASSUME SessionsTyped
    PROVE  OneTokenPerSession <=> OneLivePerSession
<1>1. ASSUME NEW c \in Tokens, SessionOf(c) = c
      PROVE  {t \in Unrevoked(refreshToken[c].user) : SessionOf(t) = c} = Live(c)
    <2>1. ASSUME NEW t \in Live(c) PROVE refreshToken[t].user = refreshToken[c].user
        BY DEF Live, SessionsTyped, RowsLinked, Used
    <2> QED BY <2>1 DEF Live, Unrevoked
<1> QED BY <1>1 DEF OneTokenPerSession, OneLivePerSession, OneLive

-----------------------------------------------------------------------------
(* Steps that change tokens *)

\* Used tokens keep their user and their session; a new one is linked.
LEMMA RowsKept ==
    ASSUME SessionsTyped, NEW r \in AuthRequests,
           authReq'[r] = IdleAuth, \A q \in AuthRequests \ {r} : authReq'[q] = authReq[q],
           \A t \in Tokens : Used(t) =>
               Used(t)' /\ refreshToken'[t].user = refreshToken[t].user
                        /\ SessionOf(t)' = SessionOf(t),
           \A t \in Tokens : ~Used(t) =>
               \/ refreshToken'[t] = refreshToken[t]
               \/ /\ Used(t)' /\ refreshToken'[t].user \in Admins
                  /\ SessionOf(t)' \in Tokens /\ Used(SessionOf(t))'
                  /\ SessionOf(SessionOf(t))' = SessionOf(t)'
                  /\ refreshToken'[SessionOf(t)'].user = refreshToken'[t].user
    PROVE  RowsLinked' /\ RequestsLinked'
<1>1. ASSUME NEW t \in Tokens, Used(t)
      PROVE  /\ Used(t)' /\ refreshToken'[t].user \in Admins
             /\ SessionOf(t)' \in Tokens /\ Used(SessionOf(t))'
             /\ SessionOf(SessionOf(t))' = SessionOf(t)'
             /\ refreshToken'[SessionOf(t)'].user = refreshToken'[t].user
    <2> DEFINE c == SessionOf(t)
    <2>1. /\ refreshToken[t].user \in Admins /\ c \in Tokens /\ Used(c)
          /\ SessionOf(c) = c /\ refreshToken[c].user = refreshToken[t].user
        BY <1>1 DEF SessionsTyped, RowsLinked
    <2>2. /\ Used(t)' /\ refreshToken'[t].user = refreshToken[t].user
          /\ SessionOf(t)' = SessionOf(t)
        BY <1>1
    <2>3. /\ Used(c)' /\ refreshToken'[c].user = refreshToken[c].user
          /\ refreshToken'[c].session = SessionOf(c)
        BY <2>1 DEF SessionOf
    <2> QED BY <2>1, <2>2, <2>3 DEF SessionOf, Used
<1>2. ASSUME NEW t \in Tokens, ~Used(t), refreshToken'[t] = refreshToken[t]
      PROVE  ~Used(t)' /\ refreshToken'[t].user = NoAdmin /\ SessionOf(t)' = NoToken
    BY <1>2 DEF SessionsTyped, RowsLinked, Used, SessionOf
<1>3. RowsLinked'
    BY <1>1, <1>2 DEF RowsLinked
<1>4. ASSUME NEW q \in AuthRequests
      PROVE  /\ authReq'[q].op # "none" => authReq'[q].user \in Admins
             /\ HoldsToken(authReq'[q].op) =>
                   /\ authReq'[q].token \in Tokens
                   /\ refreshToken'[authReq'[q].token].at # "unused"
                   /\ refreshToken'[authReq'[q].token].user = authReq'[q].user
             /\ \A t \in authReq'[q].seen :
                   refreshToken'[t].at # "unused" /\ refreshToken'[t].user = authReq'[q].user
    <2>1. CASE q = r
        BY <2>1, IdleAuthTyped DEF HoldsToken
    <2>2. CASE q # r
        <3>1. authReq[q].seen \subseteq Tokens
            BY AuthRequestTyped DEF AuthRequest
        <3> QED BY <2>2, <3>1 DEF SessionsTyped, RequestsLinked, Used
    <2> QED BY <2>1, <2>2
<1>5. RequestsLinked'
    BY <1>4 DEF RequestsLinked, Used, HoldsToken
<1> QED BY <1>3, <1>5

\* A sign-in starts a session with one token.
LEMMA LoginCommitKeeps ==
    ASSUME SessionInv, NEW r \in AuthRequests, LoginCommit(r)
    PROVE  SessionInv'
<1> USE DEF SessionInv
<1> DEFINE u == authReq[r].user
<1>1. PICK new \in Tokens :
          /\ IsNextToken(new)
          /\ refreshToken' = [refreshToken EXCEPT
                                 ![new] = [user |-> u, session |-> new, at |-> "valid"]]
    BY DEF LoginCommit
<1>2. /\ authReq[r].op = "login" /\ Close(r) /\ UNCHANGED <<clashed, ended>>
      /\ account' = [account EXCEPT ![u] = IF @ = "absent" THEN "active" ELSE @]
    BY DEF LoginCommit
<1>3. u \in Admins /\ ~Used(new)
    BY <1>1, <1>2, NextUnused DEF SessionsTyped, RequestsLinked
<1>4. /\ refreshToken'[new].user = u /\ refreshToken'[new].session = new
      /\ refreshToken'[new].at = "valid"
      /\ \A t \in Tokens \ {new} : refreshToken'[t] = refreshToken[t]
      /\ refreshToken' \in [Tokens -> TokenRow]
    BY <1>1, <1>3 DEF SessionsTyped, SessionsTypeOK, TokenRow
<1>5. /\ authReq'[r] = IdleAuth /\ \A q \in AuthRequests \ {r} : authReq'[q] = authReq[q]
      /\ authReq' \in [AuthRequests -> AuthRequest] /\ ClashesKnown'
    BY <1>2, AuthClosed
<1>6. RowsLinked' /\ RequestsLinked'
    BY <1>3, <1>4, <1>5, RowsKept DEF Used, SessionOf
<1>7. /\ account' \in [Admins -> {"absent", "active", "inactive"}]
      /\ \A v \in Admins : account'[v] = "inactive" => account[v] = "inactive"
    BY <1>2 DEF SessionsTyped, SessionsTypeOK
<1>8. EndedUsed' /\ new \notin ended
    BY <1>2, <1>3, <1>4 DEF SessionsTyped, EndedUsed, Used, SessionsTypeOK
<1>9. SessionsTypeOK'
    BY <1>2, <1>4, <1>5, <1>7 DEF SessionsTyped, SessionsTypeOK
<1>10. \A v \in Admins : v # u => Unrevoked(v)' = Unrevoked(v)
    BY <1>3, <1>4 DEF Unrevoked, Used
<1>11. SeenCovers'
    <2> SUFFICES ASSUME NEW q \in AuthRequests, RevokesAll(authReq'[q].op),
                        authReq'[q].user \notin clashed'
                 PROVE  Unrevoked(authReq[q].user)' \subseteq authReq'[q].seen
        BY DEF SeenCovers, RevokesAll
    <2>1. q # r /\ authReq'[q] = authReq[q]
        BY <1>5, IdleAuthTyped DEF RevokesAll
    <2>2. authReq[q].user # u
        <3> SUFFICES ASSUME authReq[q].user = u PROVE FALSE
            OBVIOUS
        <3>1. Clash(authReq[r], authReq[q])
            BY <1>2, <2>1 DEF Clash, RevokesAll
        <3> QED BY <1>2, <2>1, <3>1 DEF ClashesKnown
    <2>3. authReq[q].user \in Admins
        BY <2>1 DEF SessionsTyped, RequestsLinked, RevokesAll
    <2> QED BY <1>2, <1>10, <2>1, <2>2, <2>3 DEF SeenCovers
<1>12. TokenStays'
    <2> SUFFICES ASSUME NEW q \in AuthRequests, HoldsToken(authReq'[q].op),
                        authReq'[q].user \notin clashed'
                 PROVE  refreshToken'[authReq'[q].token].at \in {"valid", "expired"}
        BY DEF TokenStays, HoldsToken
    <2>1. authReq'[q] = authReq[q]
        BY <1>5, IdleAuthTyped DEF HoldsToken
    <2>2. authReq[q].token \in Tokens /\ authReq[q].token # new
        BY <1>3, <2>1 DEF SessionsTyped, RequestsLinked
    <2> QED BY <1>2, <1>4, <2>1, <2>2 DEF TokenStays
<1>13. NoLoginInactive'
    BY <1>2, <1>5, <1>7, IdleAuthTyped DEF NoLoginInactive, SessionsTyped, RequestsLinked
<1>14. OneLivePerSession'
    <2> SUFFICES ASSUME NEW c \in Tokens, SessionOf(c)' = c, refreshToken'[c].user \notin clashed'
                 PROVE  OneLive(c)'
        BY DEF OneLivePerSession
    <2>1. CASE c = new
        <3>1. \A t \in Tokens \ {new} : SessionOf(t) # new
            BY <1>3, TokensArePositive DEF SessionsTyped, RowsLinked
        <3>2. Live(c)' = {new}
            BY <1>4, <2>1, <3>1 DEF Live, SessionOf
        <3> QED BY <1>2, <1>8, <2>1, <3>2 DEF OneLive
    <2>2. CASE c # new
        <3>1. Live(c)' = Live(c)
            BY <1>3, <1>4, <2>2 DEF Live, SessionOf, Used
        <3>2. OneLive(c)
            BY <1>2, <1>4, <2>2, SessionsByToken DEF OneLivePerSession, SessionOf
        <3> QED BY <1>2, <3>1, <3>2 DEF OneLive
    <2> QED BY <2>1, <2>2
<1>15. DeactivatedHoldsNoToken'
    <2> SUFFICES ASSUME NEW v \in Admins \ clashed', account'[v] = "inactive"
                 PROVE  Unrevoked(v)' = {}
        BY DEF DeactivatedHoldsNoToken
    <2>1. account[v] = "inactive" /\ v # u
        BY <1>2, <1>7 DEF NoLoginInactive
    <2> QED BY <1>2, <1>10, <2>1 DEF DeactivatedHoldsNoToken
<1>16. SessionsTyped'
    BY <1>6, <1>8, <1>9 DEF SessionsTyped
<1>17. OneTokenPerSession'
    BY <1>14, <1>16, SessionsByToken, PTL
<1> QED BY <1>5, <1>11, <1>12, <1>13, <1>15, <1>16, <1>17

\* An undisturbed request is alone with its token, and nobody revokes all sessions meanwhile.
LEMMA SlotAlone ==
    ASSUME SessionInv, NEW r \in AuthRequests, NEW q \in AuthRequests \ {r},
           authReq[q].user \notin clashed, authReq[q].user = authReq[r].user,
           HoldsToken(authReq[r].op) \/ RevokesAll(authReq[r].op)
    PROVE  /\ ~RevokesAll(authReq[q].op)
           /\ HoldsToken(authReq[q].op) =>
                 HoldsToken(authReq[r].op) /\ authReq[q].token # authReq[r].token
           /\ RevokesAll(authReq[r].op) => authReq[q].op # "login"
<1>1. ~Clash(authReq[r], authReq[q])
    BY DEF SessionInv, ClashesKnown
<1> QED BY <1>1 DEF Clash, RevokesAll, HoldsToken

\* A refresh replaces the token of its session.
LEMMA RotateKeeps ==
    ASSUME SessionInv, NEW r \in AuthRequests, Rotate(r)
    PROVE  SessionInv'
<1> USE DEF SessionInv
<1> DEFINE u == authReq[r].user
           t == authReq[r].token
<1>0. PICK s : s = SessionOf(t)
    OBVIOUS
<1>1. PICK new \in Tokens : IsNextToken(new) /\ ReplaceToken(t, new)
    BY DEF Rotate
<1>2. /\ authReq[r].op = "rotate" /\ Close(r) /\ UNCHANGED <<account, clashed, ended>>
    BY DEF Rotate
<1>3. /\ t \in Tokens /\ Used(t) /\ refreshToken[t].user = u /\ u \in Admins
      /\ ~Used(new) /\ t # new
    BY <1>1, <1>2, NextUnused DEF SessionsTyped, RequestsLinked, HoldsToken
<1>4. /\ refreshToken'[new].user = u /\ refreshToken'[new].session = s
      /\ refreshToken'[new].at = "valid"
      /\ refreshToken'[t].user = u /\ refreshToken'[t].session = s
      /\ refreshToken'[t].at = "revoked"
      /\ \A x \in Tokens \ {t, new} : refreshToken'[x] = refreshToken[x]
      /\ refreshToken' \in [Tokens -> TokenRow]
    <2> DEFINE old == [refreshToken[t] EXCEPT !.at = "revoked"]
               row == [user |-> refreshToken[t].user, session |-> s, at |-> "valid"]
    <2>1. /\ old \in TokenRow /\ old.at = "revoked" /\ old.user = refreshToken[t].user
          /\ old.session = s
        BY <1>0, <1>3, RowTyped DEF TokenRow, SessionOf
    <2>2. /\ row \in TokenRow /\ row.at = "valid" /\ row.user = refreshToken[t].user
          /\ row.session = s
        BY <1>0, <1>3, RowTyped DEF TokenRow, SessionOf
    <2>3. refreshToken' = [refreshToken EXCEPT ![t] = old, ![new] = row]
        BY <1>0, <1>1 DEF ReplaceToken
    <2>4. refreshToken \in [Tokens -> TokenRow]
        BY DEF SessionsTyped, SessionsTypeOK
    <2> HIDE DEF old, row
    <2>5. /\ refreshToken'[t] = old /\ refreshToken'[new] = row
          /\ \A x \in Tokens \ {t, new} : refreshToken'[x] = refreshToken[x]
          /\ refreshToken' \in [Tokens -> TokenRow]
        BY <1>3, <2>1, <2>2, <2>3, <2>4
    <2> QED BY <1>3, <2>1, <2>2, <2>5
<1>5. /\ s \in Tokens /\ Used(s) /\ SessionOf(s) = s /\ refreshToken[s].user = u
    BY <1>0, <1>3 DEF SessionsTyped, RowsLinked
<1>6. /\ authReq'[r] = IdleAuth /\ \A q \in AuthRequests \ {r} : authReq'[q] = authReq[q]
      /\ authReq' \in [AuthRequests -> AuthRequest] /\ ClashesKnown'
    BY <1>2, AuthClosed
<1>7. \A x \in Tokens : Used(x) =>
          Used(x)' /\ refreshToken'[x].user = refreshToken[x].user /\ SessionOf(x)' = SessionOf(x)
    BY <1>0, <1>3, <1>4 DEF Used, SessionOf
<1>8. /\ Used(new)' /\ SessionOf(new)' = s /\ Used(s)' /\ SessionOf(s)' = s
      /\ refreshToken'[s].user = u
    BY <1>4, <1>5, <1>7 DEF Used, SessionOf
<1>9. \A x \in Tokens : ~Used(x) =>
          \/ refreshToken'[x] = refreshToken[x]
          \/ /\ Used(x)' /\ refreshToken'[x].user \in Admins
             /\ SessionOf(x)' \in Tokens /\ Used(SessionOf(x))'
             /\ SessionOf(SessionOf(x))' = SessionOf(x)'
             /\ refreshToken'[SessionOf(x)'].user = refreshToken'[x].user
    BY <1>3, <1>4, <1>5, <1>8 DEF Used, SessionOf
<1>10. RowsLinked' /\ RequestsLinked'
    BY <1>6, <1>7, <1>9, RowsKept
<1>11. SessionsTypeOK' /\ EndedUsed'
    BY <1>2, <1>4, <1>6, <1>7 DEF SessionsTyped, SessionsTypeOK, EndedUsed
<1>12. SessionsTyped'
    BY <1>10, <1>11 DEF SessionsTyped
<1>13. \A v \in Admins : v # u => Unrevoked(v)' = Unrevoked(v)
    BY <1>3, <1>4 DEF Unrevoked, Used
<1>14. SeenCovers'
    <2> SUFFICES ASSUME NEW q \in AuthRequests, RevokesAll(authReq'[q].op),
                        authReq'[q].user \notin clashed'
                 PROVE  Unrevoked(authReq[q].user)' \subseteq authReq'[q].seen
        BY DEF SeenCovers, RevokesAll
    <2>1. q # r /\ authReq'[q] = authReq[q]
        BY <1>6, IdleAuthTyped DEF RevokesAll
    <2>2. authReq[q].user # u
        BY <1>2, <2>1, SlotAlone DEF HoldsToken
    <2>3. authReq[q].user \in Admins
        BY <2>1 DEF SessionsTyped, RequestsLinked, RevokesAll
    <2> QED BY <1>2, <1>13, <2>1, <2>2, <2>3 DEF SeenCovers
<1>15. TokenStays'
    <2> SUFFICES ASSUME NEW q \in AuthRequests, HoldsToken(authReq'[q].op),
                        authReq'[q].user \notin clashed'
                 PROVE  refreshToken'[authReq'[q].token].at \in {"valid", "expired"}
        BY DEF TokenStays, HoldsToken
    <2>1. q # r /\ authReq'[q] = authReq[q]
        BY <1>6, IdleAuthTyped DEF HoldsToken
    <2>2. /\ authReq[q].token \in Tokens /\ Used(authReq[q].token)
          /\ refreshToken[authReq[q].token].user = authReq[q].user
        BY <2>1 DEF SessionsTyped, RequestsLinked
    <2>3. authReq[q].token # t
        BY <1>2, <1>3, <2>1, <2>2, SlotAlone DEF HoldsToken
    <2> QED BY <1>2, <1>3, <1>4, <2>1, <2>2, <2>3 DEF TokenStays
<1>16. NoLoginInactive'
    BY <1>2, <1>6, IdleAuthTyped DEF NoLoginInactive
<1>17. DeactivatedHoldsNoToken'
    <2> SUFFICES ASSUME NEW v \in Admins \ clashed', account'[v] = "inactive"
                 PROVE  Unrevoked(v)' = {}
        BY DEF DeactivatedHoldsNoToken
    <2>1. Unrevoked(v) = {} /\ v \notin clashed
        BY <1>2 DEF DeactivatedHoldsNoToken
    <2>2. v # u
        BY <1>2, <1>3, <2>1 DEF TokenStays, HoldsToken, Unrevoked
    <2> QED BY <1>13, <2>1, <2>2
<1>18. OneLivePerSession'
    <2> SUFFICES ASSUME NEW c \in Tokens, SessionOf(c)' = c, refreshToken'[c].user \notin clashed'
                 PROVE  OneLive(c)'
        BY DEF OneLivePerSession
    <2>0. c # new
        BY <1>3, <1>5, <1>8
    <2>1. /\ SessionOf(c) = c /\ refreshToken[c].user = refreshToken'[c].user
        BY <1>0, <1>3, <1>4, <2>0 DEF SessionOf
    <2>2. OneLive(c)
        BY <1>2, <2>1, SessionsByToken DEF OneLivePerSession
    <2>3. CASE c = s
        <3>1. t \in Live(s)
            BY <1>0, <1>2, <1>3, <1>5, <2>1, <2>3 DEF Live, TokenStays, HoldsToken
        <3>2. s \notin ended /\ Live(s) = {t}
            BY <2>2, <2>3, <3>1 DEF OneLive
        <3>3. Live(s)' = {new}
            BY <1>3, <1>4, <3>2 DEF Live, SessionOf
        <3> QED BY <1>2, <2>3, <3>2, <3>3 DEF OneLive
    <2>4. CASE c # s
        <3>1. Live(c)' = Live(c)
            BY <1>0, <1>3, <1>4, <2>4 DEF Live, SessionOf, Used
        <3> QED BY <1>2, <2>2, <3>1 DEF OneLive
    <2> QED BY <2>3, <2>4
<1>19. OneTokenPerSession'
    BY <1>12, <1>18, SessionsByToken, PTL
<1> QED BY <1>6, <1>12, <1>14, <1>15, <1>16, <1>17, <1>19

\* Steps that revoke or expire tokens of one user, whose requests are alone with them.
LEMMA LogoutCommitKeeps ==
    ASSUME SessionInv, NEW r \in AuthRequests, LogoutCommit(r)
    PROVE  SessionInv'
<1> USE DEF SessionInv
<1> DEFINE u == authReq[r].user
           t == authReq[r].token
<1>0. PICK s : s = SessionOf(t)
    OBVIOUS
<1>1. /\ authReq[r].op = "logout" /\ Close(r) /\ UNCHANGED <<account, clashed>>
      /\ refreshToken' = [refreshToken EXCEPT ![t].at = "revoked"]
      /\ ended' = ended \cup {s}
    BY <1>0 DEF LogoutCommit
<1>2. /\ t \in Tokens /\ Used(t) /\ refreshToken[t].user = u /\ u \in Admins
    BY <1>1 DEF SessionsTyped, RequestsLinked, HoldsToken
<1>3. /\ refreshToken'[t].user = u /\ refreshToken'[t].session = s
      /\ refreshToken'[t].at = "revoked"
      /\ \A x \in Tokens \ {t} : refreshToken'[x] = refreshToken[x]
      /\ refreshToken' \in [Tokens -> TokenRow]
    BY <1>0, <1>1, <1>2 DEF SessionsTyped, SessionsTypeOK, TokenRow, SessionOf
<1>4. /\ s \in Tokens /\ Used(s) /\ SessionOf(s) = s /\ refreshToken[s].user = u
    BY <1>0, <1>2 DEF SessionsTyped, RowsLinked
<1>5. /\ authReq'[r] = IdleAuth /\ \A q \in AuthRequests \ {r} : authReq'[q] = authReq[q]
      /\ authReq' \in [AuthRequests -> AuthRequest] /\ ClashesKnown'
    BY <1>1, AuthClosed
<1>6. \A x \in Tokens :
          /\ Used(x) => Used(x)'
          /\ refreshToken'[x].user = refreshToken[x].user /\ SessionOf(x)' = SessionOf(x)
          /\ x # t => refreshToken'[x] = refreshToken[x]
    BY <1>0, <1>2, <1>3 DEF Used, SessionOf
<1>7. RowsLinked' /\ RequestsLinked'
    BY <1>2, <1>5, <1>6, RowsKept
<1>8. SessionsTypeOK' /\ EndedUsed'
    BY <1>1, <1>3, <1>4, <1>5, <1>6 DEF SessionsTyped, SessionsTypeOK, EndedUsed
<1>9. SessionsTyped'
    BY <1>7, <1>8 DEF SessionsTyped
<1>10. /\ \A v \in Admins : v # u => Unrevoked(v)' = Unrevoked(v)
       /\ \A v \in Admins : Unrevoked(v)' \subseteq Unrevoked(v)
    BY <1>2, <1>3 DEF Unrevoked
<1>11. SeenCovers'
    <2> SUFFICES ASSUME NEW q \in AuthRequests, RevokesAll(authReq'[q].op),
                        authReq'[q].user \notin clashed'
                 PROVE  Unrevoked(authReq[q].user)' \subseteq authReq'[q].seen
        BY DEF SeenCovers, RevokesAll
    <2>1. q # r /\ authReq'[q] = authReq[q]
        BY <1>5, IdleAuthTyped DEF RevokesAll
    <2>2. authReq[q].user \in Admins
        BY <2>1 DEF SessionsTyped, RequestsLinked, RevokesAll
    <2>3. authReq[q].user # u
        BY <1>1, <2>1, SlotAlone DEF HoldsToken
    <2> QED BY <1>1, <1>10, <2>1, <2>2, <2>3 DEF SeenCovers
<1>12. TokenStays'
    <2> SUFFICES ASSUME NEW q \in AuthRequests, HoldsToken(authReq'[q].op),
                        authReq'[q].user \notin clashed'
                 PROVE  refreshToken'[authReq'[q].token].at \in {"valid", "expired"}
        BY DEF TokenStays, HoldsToken
    <2>1. q # r /\ authReq'[q] = authReq[q]
        BY <1>5, IdleAuthTyped DEF HoldsToken
    <2>2. /\ authReq[q].token \in Tokens
          /\ refreshToken[authReq[q].token].user = authReq[q].user
        BY <2>1 DEF SessionsTyped, RequestsLinked
    <2>3. authReq[q].token # t
        BY <1>1, <1>2, <2>1, <2>2, SlotAlone DEF HoldsToken
    <2> QED BY <1>1, <1>3, <2>1, <2>2, <2>3 DEF TokenStays
<1>13. NoLoginInactive'
    BY <1>1, <1>5, IdleAuthTyped DEF NoLoginInactive
<1>14. DeactivatedHoldsNoToken'
    BY <1>1, <1>10 DEF DeactivatedHoldsNoToken
<1>15. OneLivePerSession'
    <2> SUFFICES ASSUME NEW c \in Tokens, SessionOf(c)' = c, refreshToken'[c].user \notin clashed'
                 PROVE  OneLive(c)'
        BY DEF OneLivePerSession
    <2>1. OneLive(c)
        BY <1>1, <1>6, SessionsByToken DEF OneLivePerSession
    <2>2. CASE c = s
        <3>1. refreshToken[c].user = u
            BY <1>4, <2>2
        <3>2. t \in Live(s)
            BY <1>0, <1>1, <1>2, <1>6, <2>2, <3>1 DEF Live, TokenStays, HoldsToken
        <3>3. Live(s) = {t}
            BY <2>1, <2>2, <3>2 DEF OneLive
        <3>4. Live(s)' = {}
            BY <1>3, <3>3 DEF Live, SessionOf
        <3> QED BY <1>1, <2>2, <3>4 DEF OneLive
    <2>3. CASE c # s
        <3>1. Live(c)' = Live(c)
            BY <1>0, <1>2, <1>3, <2>3 DEF Live, SessionOf
        <3> QED BY <1>1, <2>1, <2>3, <3>1 DEF OneLive
    <2> QED BY <2>2, <2>3
<1>16. OneTokenPerSession'
    BY <1>9, <1>15, SessionsByToken, PTL
<1> QED BY <1>5, <1>9, <1>11, <1>12, <1>13, <1>14, <1>16

\* All sessions of a user end, and the account with them if it is deactivated.
LEMMA RevokeCommitKeeps ==
    ASSUME SessionInv, NEW r \in AuthRequests, RevokeCommit(r)
    PROVE  SessionInv'
<1> USE DEF SessionInv
<1>0. PICK u, seen : u = authReq[r].user /\ seen = authReq[r].seen
    OBVIOUS
<1>1. /\ RevokesAll(authReq[r].op) /\ Close(r) /\ UNCHANGED clashed
      /\ refreshToken' = [t \in Tokens |-> IF t \in seen
                                           THEN [refreshToken[t] EXCEPT !.at = "revoked"]
                                           ELSE refreshToken[t]]
      /\ account' = IF authReq[r].op = "deactivate"
                    THEN [account EXCEPT ![u] = "inactive"] ELSE account
      /\ ended' = ended \cup SessionsOf({t \in Tokens : refreshToken[t].user = u})
    BY <1>0 DEF RevokeCommit
<1>2. u \in Admins /\ \A t \in seen : t \in Tokens /\ Used(t) /\ refreshToken[t].user = u
    <2>1. seen \subseteq Tokens
        BY <1>0, AuthRequestTyped DEF AuthRequest
    <2> QED BY <1>0, <1>1, <2>1 DEF SessionsTyped, RequestsLinked, RevokesAll
<1>3. ASSUME NEW x \in Tokens
      PROVE  /\ refreshToken'[x] \in TokenRow
             /\ refreshToken'[x].user = refreshToken[x].user
             /\ refreshToken'[x].session = refreshToken[x].session
             /\ x \in seen => refreshToken'[x].at = "revoked"
             /\ x \notin seen => refreshToken'[x] = refreshToken[x]
    <2>1. refreshToken'[x] = IF x \in seen THEN [refreshToken[x] EXCEPT !.at = "revoked"]
                             ELSE refreshToken[x]
        BY <1>1
    <2> QED BY <2>1, RowTyped DEF TokenRow
<1>4. /\ \A x \in Tokens :
            /\ Used(x) => Used(x)'
            /\ refreshToken'[x].user = refreshToken[x].user /\ SessionOf(x)' = SessionOf(x)
            /\ ~Used(x) => refreshToken'[x] = refreshToken[x]
      /\ refreshToken' \in [Tokens -> TokenRow]
    <2>1. refreshToken' \in [Tokens -> TokenRow]
        BY <1>1, <1>3
    <2> QED BY <1>2, <1>3, <2>1 DEF Used, SessionOf
<1>5. /\ authReq'[r] = IdleAuth /\ \A q \in AuthRequests \ {r} : authReq'[q] = authReq[q]
      /\ authReq' \in [AuthRequests -> AuthRequest] /\ ClashesKnown'
    BY <1>1, AuthClosed
<1>6. RowsLinked' /\ RequestsLinked'
    BY <1>4, <1>5, RowsKept
<1>7. \A t \in Tokens : refreshToken[t].user = u => SessionOf(t) \in Tokens /\ Used(SessionOf(t))
    BY <1>2, SessionAssumptions DEF SessionsTyped, RowsLinked
<1>8. SessionsTypeOK' /\ EndedUsed'
    <2>1. account' \in [Admins -> {"absent", "active", "inactive"}]
        BY <1>1, <1>2 DEF SessionsTyped, SessionsTypeOK
    <2>2. ended' \subseteq Tokens
        BY <1>1, <1>7 DEF SessionsTyped, SessionsTypeOK, SessionsOf
    <2>3. EndedUsed'
        BY <1>1, <1>4, <1>7 DEF SessionsTyped, SessionsTypeOK, EndedUsed, SessionsOf
    <2> QED BY <1>1, <1>4, <1>5, <2>1, <2>2, <2>3 DEF SessionsTyped, SessionsTypeOK
<1>9. SessionsTyped'
    BY <1>6, <1>8 DEF SessionsTyped
<1>10. /\ \A v \in Admins : v # u => Unrevoked(v)' = Unrevoked(v)
       /\ Unrevoked(u)' = Unrevoked(u) \ seen
    BY <1>2, <1>3 DEF Unrevoked
<1>11. SeenCovers'
    <2> SUFFICES ASSUME NEW q \in AuthRequests, RevokesAll(authReq'[q].op),
                        authReq'[q].user \notin clashed'
                 PROVE  Unrevoked(authReq[q].user)' \subseteq authReq'[q].seen
        BY DEF SeenCovers, RevokesAll
    <2>1. q # r /\ authReq'[q] = authReq[q]
        BY <1>5, IdleAuthTyped DEF RevokesAll
    <2>2. authReq[q].user \in Admins
        BY <2>1 DEF SessionsTyped, RequestsLinked, RevokesAll
    <2>3. authReq[q].user # u
        BY <1>0, <1>1, <2>1, SlotAlone
    <2> QED BY <1>1, <1>10, <2>1, <2>2, <2>3 DEF SeenCovers
<1>12. TokenStays'
    <2> SUFFICES ASSUME NEW q \in AuthRequests, HoldsToken(authReq'[q].op),
                        authReq'[q].user \notin clashed'
                 PROVE  refreshToken'[authReq'[q].token].at \in {"valid", "expired"}
        BY DEF TokenStays, HoldsToken
    <2>1. q # r /\ authReq'[q] = authReq[q]
        BY <1>5, IdleAuthTyped DEF HoldsToken
    <2>2. /\ authReq[q].token \in Tokens
          /\ refreshToken[authReq[q].token].user = authReq[q].user
        BY <2>1 DEF SessionsTyped, RequestsLinked
    <2>3. authReq[q].user # u
        BY <1>0, <1>1, <2>1, SlotAlone DEF HoldsToken, RevokesAll
    <2> QED BY <1>1, <1>2, <1>3, <2>1, <2>2, <2>3 DEF TokenStays
<1>13. NoLoginInactive'
    <2> SUFFICES ASSUME NEW q \in AuthRequests, authReq'[q].op = "login",
                        authReq'[q].user \notin clashed'
                 PROVE  account'[authReq'[q].user] # "inactive"
        BY DEF NoLoginInactive
    <2>1. q # r /\ authReq'[q] = authReq[q] /\ authReq[q].op = "login"
        BY <1>5, IdleAuthTyped
    <2>2. authReq[q].user # u
        BY <1>0, <1>1, <2>1, SlotAlone
    <2>3. authReq[q].user \in Admins /\ account[authReq[q].user] # "inactive"
        BY <1>1, <2>1 DEF SessionsTyped, RequestsLinked, NoLoginInactive
    <2> QED BY <1>1, <2>1, <2>2, <2>3 DEF SessionsTyped, SessionsTypeOK
<1>14. DeactivatedHoldsNoToken'
    <2> SUFFICES ASSUME NEW v \in Admins \ clashed', account'[v] = "inactive"
                 PROVE  Unrevoked(v)' = {}
        BY DEF DeactivatedHoldsNoToken
    <2>1. CASE v = u
        <3>1. Unrevoked(u) \subseteq seen
            BY <1>0, <1>1, <2>1 DEF SeenCovers
        <3> QED BY <1>10, <2>1, <3>1
    <2>2. CASE v # u
        <3>1. account[v] = "inactive"
            BY <1>1, <2>2 DEF SessionsTyped, SessionsTypeOK
        <3> QED BY <1>1, <1>10, <2>2, <3>1 DEF DeactivatedHoldsNoToken
    <2> QED BY <2>1, <2>2
<1>15. OneLivePerSession'
    <2> SUFFICES ASSUME NEW c \in Tokens, SessionOf(c)' = c, refreshToken'[c].user \notin clashed'
                 PROVE  OneLive(c)'
        BY DEF OneLivePerSession
    <2>1. OneLive(c) /\ SessionOf(c) = c
        <3>1. SessionOf(c) = c /\ refreshToken[c].user \notin clashed
            BY <1>1, <1>4 DEF SessionOf
        <3> QED BY <1>1, <3>1, SessionsByToken DEF OneLivePerSession
    <2>2. \A t \in Live(c) : refreshToken[t].user = refreshToken[c].user
        BY DEF Live, SessionsTyped, RowsLinked, Used
    <2>3. CASE refreshToken[c].user = u
        <3>1. c \in ended'
            BY <1>1, <2>1, <2>3 DEF SessionsOf
        <3>2. Unrevoked(u) \subseteq seen
            BY <1>0, <1>1, <1>4, <2>3 DEF SeenCovers
        <3>3. Live(c) \subseteq seen
            BY <2>2, <2>3, <3>2 DEF Live, Unrevoked
        <3>4. Live(c)' = {}
            BY <1>3, <3>3 DEF Live, SessionOf
        <3> QED BY <3>1, <3>4 DEF OneLive
    <2>4. CASE refreshToken[c].user # u
        <3>1. c \in ended' <=> c \in ended
            <4>1. \A t \in Tokens : refreshToken[t].user = u => SessionOf(t) # c
                BY <1>2, <2>4, SessionAssumptions DEF SessionsTyped, RowsLinked
            <4> QED BY <1>1, <4>1 DEF SessionsOf
        <3>2. Live(c)' = Live(c)
            BY <1>2, <1>3, <2>2, <2>4 DEF Live, SessionOf
        <3> QED BY <2>1, <3>1, <3>2 DEF OneLive
    <2> QED BY <2>3, <2>4
<1>16. OneTokenPerSession'
    BY <1>9, <1>15, SessionsByToken, PTL
<1> QED BY <1>5, <1>9, <1>11, <1>12, <1>13, <1>14, <1>16

\* An expired token still counts as unrevoked.
LEMMA ExpireKeeps ==
    ASSUME SessionInv, NEW t \in Tokens, Expire(t)
    PROVE  SessionInv'
<1> USE DEF SessionInv
<1>1. /\ refreshToken[t].at = "valid" /\ UNCHANGED <<account, authReq, clashed, ended>>
      /\ refreshToken' = [refreshToken EXCEPT ![t].at = "expired"]
    BY DEF Expire
<1>2. /\ \A x \in Tokens :
            /\ refreshToken'[x].user = refreshToken[x].user
            /\ refreshToken'[x].session = refreshToken[x].session
            /\ refreshToken'[x].at \in {"valid", "expired"}
                   <=> refreshToken[x].at \in {"valid", "expired"}
            /\ refreshToken'[x].at = "unused" <=> refreshToken[x].at = "unused"
      /\ refreshToken' \in [Tokens -> TokenRow]
    BY <1>1 DEF SessionsTyped, SessionsTypeOK, TokenRow
<1>3. SessionsTyped'
    <2>1. SessionsTypeOK'
        BY <1>1, <1>2 DEF SessionsTyped, SessionsTypeOK
    <2>2. RowsLinked'
        BY <1>2 DEF SessionsTyped, RowsLinked, Used, SessionOf
    <2>3. RequestsLinked'
        <3>1. \A q \in AuthRequests : authReq[q].seen \subseteq Tokens
            BY AuthRequestTyped DEF AuthRequest
        <3> QED BY <1>1, <1>2, <3>1 DEF SessionsTyped, RequestsLinked, Used
    <2>4. EndedUsed'
        BY <1>1, <1>2 DEF SessionsTyped, EndedUsed, Used, SessionsTypeOK
    <2> QED BY <2>1, <2>2, <2>3, <2>4 DEF SessionsTyped
<1>4. \A v : Unrevoked(v)' = Unrevoked(v)
    BY <1>2 DEF Unrevoked
<1>5. ClashesKnown' /\ SeenCovers' /\ NoLoginInactive'
    BY <1>1, <1>4 DEF ClashesKnown, Clash, RevokesAll, SeenCovers, NoLoginInactive
<1>6. TokenStays'
    BY <1>1, <1>2 DEF TokenStays, SessionsTyped, RequestsLinked
<1>7. OneLivePerSession'
    <2>1. \A c \in Tokens : Live(c)' = Live(c)
        BY <1>2 DEF Live, SessionOf
    <2> QED BY <1>1, <1>2, <2>1, SessionsByToken DEF OneLivePerSession, OneLive, SessionOf
<1>8. OneTokenPerSession'
    BY <1>3, <1>7, SessionsByToken, PTL
<1>9. DeactivatedHoldsNoToken'
    BY <1>1, <1>4 DEF DeactivatedHoldsNoToken
<1> QED BY <1>3, <1>5, <1>6, <1>8, <1>9

-----------------------------------------------------------------------------
(* The theorems *)

LEMMA SessionStep ==
    ASSUME SessionInv, [SessionsNext]_sessionVars
    PROVE  SessionInv'
<1>1. CASE UNCHANGED sessionVars
    <2> USE <1>1 DEF sessionVars, SessionInv
    <2>1. SessionsTyped'
        BY DEF SessionsTyped, SessionsTypeOK, RowsLinked, RequestsLinked, EndedUsed, Used, SessionOf,
               HoldsToken
    <2>2. ClashesKnown' /\ SeenCovers' /\ TokenStays' /\ NoLoginInactive'
        BY DEF ClashesKnown, Clash, RevokesAll, SeenCovers, TokenStays, HoldsToken,
               NoLoginInactive, Unrevoked
    <2>3. OneTokenPerSession' /\ DeactivatedHoldsNoToken'
        BY DEF OneTokenPerSession, DeactivatedHoldsNoToken, Unrevoked, SessionOf
    <2> QED BY <2>1, <2>2, <2>3
<1> QED BY <1>1, AccountStepsKeep, ExpireKeeps, LoginBeginKeeps, RevokeBeginKeeps,
           ActivateBeginKeeps, RefreshReadsTokenKeeps, LogoutBeginKeeps, LoginCommitKeeps,
           RotateKeeps, LogoutCommitKeeps, RevokeCommitKeeps DEF SessionsNext

LEMMA SessionInit == SessionsInit => SessionInv
<1> SUFFICES ASSUME SessionsInit PROVE SessionInv
    OBVIOUS
<1> USE IdleAuthTyped, TokensArePositive DEF SessionsInit
<1>1. \A t \in Tokens : /\ refreshToken[t].user = NoAdmin /\ SessionOf(t) = NoToken
                        /\ refreshToken[t].at = "unused" /\ refreshToken[t] \in TokenRow
    BY DEF NoRow, SessionOf, TokenRow
<1>2. SessionsTyped
    BY <1>1 DEF SessionsTyped, SessionsTypeOK, RowsLinked, RequestsLinked, EndedUsed, Used, HoldsToken
<1>3. ClashesKnown /\ SeenCovers /\ TokenStays /\ NoLoginInactive
    BY DEF ClashesKnown, Clash, SeenCovers, TokenStays, NoLoginInactive, RevokesAll, HoldsToken
<1>4. OneTokenPerSession
    BY <1>1 DEF OneTokenPerSession
<1>5. DeactivatedHoldsNoToken
    BY <1>1 DEF DeactivatedHoldsNoToken, Unrevoked
<1> QED BY <1>2, <1>3, <1>4, <1>5 DEF SessionInv

\* Accounts, tokens and requests are well typed in every reachable state.
THEOREM SessionTypes == SessionsSpec => []SessionsTypeOK
<1>1. SessionInv => SessionsTypeOK
    BY DEF SessionInv, SessionsTyped
<1> QED BY <1>1, SessionInit, SessionStep, PTL DEF SessionsSpec

\* refresh_access_token, "one-time use": without overlapping requests of the user a session
\* that nobody ended has exactly one token that is not revoked, and an ended one has none.
THEOREM SessionsHaveOneToken == SessionsSpec => []OneTokenPerSession
<1>1. SessionInv => OneTokenPerSession
    BY DEF SessionInv
<1> QED BY <1>1, SessionInit, SessionStep, PTL DEF SessionsSpec

\* update_user, "revoked all sessions": without overlapping requests of the user a deactivated
\* account holds no token that would work again once it is activated.
THEOREM DeactivationHolds == SessionsSpec => []DeactivatedHoldsNoToken
<1>1. SessionInv => DeactivatedHoldsNoToken
    BY DEF SessionInv
<1> QED BY <1>1, SessionInit, SessionStep, PTL DEF SessionsSpec

-----------------------------------------------------------------------------
(***************************************************************************)
(* Proofs about RoleGrants for every set of users, roles, permissions and  *)
(* requests: the rows are well typed, a user who is not disputed holds     *)
(* what was asked for last, the system roles have what they are due, and   *)
(* no role is deleted under its holders.                                   *)
(***************************************************************************)

-----------------------------------------------------------------------------
(* What the proofs know of the requests *)

\* A request works on rows of its subject only; a synchronisation only adds.
Shaped(q) ==
    /\ q.op = "setRoles" =>
          /\ q.subject \in Holders
          /\ q.gone \subseteq {q.subject} \X Roles
          /\ q.new \subseteq {q.subject} \X Roles
    /\ q.op = "setPermissions" =>
          /\ q.subject \in Roles
          /\ q.gone \subseteq {q.subject} \X Permissions
          /\ q.new \subseteq {q.subject} \X Permissions
    /\ q.op = "sync" => q.gone = {} /\ q.new \subseteq SystemRoles \X Permissions
    /\ q.op = "deleteRole" => q.subject \in CustomRoles /\ q.gone = {}
    /\ q.op = "signIn" =>
          q.subject \in ConfiguredAdmins /\ q.gone = {} /\ q.new = {<<q.subject, SuperadminRole>>}
    /\ q.op = "none" => q.gone = {}

RequestsShaped == \A r \in RoleRequests : Shaped(roleReq[r])

RolesTyped == RoleGrantsTypeOK /\ RequestsShaped

\* The record of an idle request is well typed.
LEMMA IdleRoleTyped == IdleRole \in RoleRequest /\ Shaped(IdleRole)
BY DEF IdleRole, Doing, RoleRequest, Shaped

\* What an open transaction is doing is well typed.
LEMMA RoleRequestTyped ==
    ASSUME RolesTyped, NEW r \in RoleRequests
    PROVE  roleReq[r] \in RoleRequest /\ Shaped(roleReq[r])
BY DEF RolesTyped, RoleGrantsTypeOK, RequestsShaped

\* Opening a transaction changes its own record.
LEMMA RoleOpened ==
    ASSUME RolesTyped, NEW r \in RoleRequests, NEW rec \in RoleRequest, Shaped(rec), OpenRole(r, rec)
    PROVE  /\ roleReq[r] = IdleRole
           /\ \A q \in RoleRequests : roleReq'[q] = IF q = r THEN rec ELSE roleReq[q]
           /\ roleReq' \in [RoleRequests -> RoleRequest]
           /\ RequestsShaped'
BY DEF RolesTyped, RoleGrantsTypeOK, RequestsShaped, OpenRole

\* The end of a transaction changes two fields of the others.
LEMMA RoleClosed ==
    ASSUME RolesTyped, NEW r \in RoleRequests, NEW changed, CloseRole(r, changed)
    PROVE  /\ roleReq'[r] = IdleRole
           /\ \A q \in RoleRequests \ {r} :
                 /\ roleReq'[q].op = roleReq[q].op
                 /\ roleReq'[q].subject = roleReq[q].subject
                 /\ roleReq'[q].new = roleReq[q].new
                 /\ roleReq'[q].gone = roleReq[q].gone \ roleReq[r].gone
                 /\ ~roleReq'[q].taken =>
                       /\ ~roleReq[q].taken /\ roleReq[q].subject \notin changed
                       /\ roleReq[q].op = "sync" => changed = {}
           /\ roleReq' \in [RoleRequests -> RoleRequest]
           /\ RequestsShaped'
<1>1. roleReq'[r] = IdleRole
    BY DEF CloseRole
<1>2. ASSUME NEW q \in RoleRequests \ {r}
      PROVE  /\ roleReq'[q].op = roleReq[q].op
             /\ roleReq'[q].subject = roleReq[q].subject
             /\ roleReq'[q].new = roleReq[q].new
             /\ roleReq'[q].gone = roleReq[q].gone \ roleReq[r].gone
             /\ ~roleReq'[q].taken =>
                   /\ ~roleReq[q].taken /\ roleReq[q].subject \notin changed
                   /\ roleReq[q].op = "sync" => changed = {}
             /\ roleReq'[q] \in RoleRequest
    <2>1. roleReq[q] \in RoleRequest
        BY RoleRequestTyped
    <2>2. roleReq'[q] =
             [roleReq[q] EXCEPT
                 !.gone = @ \ roleReq[r].gone,
                 !.taken = @ \/ roleReq[q].subject \in changed
                             \/ (roleReq[q].op = "sync" /\ changed # {})]
        BY DEF CloseRole
    <2> QED BY <2>1, <2>2 DEF RoleRequest
<1>3. roleReq' \in [RoleRequests -> RoleRequest]
    <2>1. \A q \in RoleRequests : roleReq'[q] \in RoleRequest
        BY <1>1, <1>2, IdleRoleTyped
    <2> QED BY <2>1 DEF CloseRole
<1>4. ASSUME NEW q \in RoleRequests PROVE Shaped(roleReq'[q])
    <2>1. CASE q = r
        BY <1>1, <2>1, IdleRoleTyped
    <2>2. CASE q # r
        BY <1>2, <2>2, RoleRequestTyped DEF Shaped
    <2> QED BY <2>1, <2>2
<1> QED BY <1>1, <1>2, <1>3, <1>4 DEF RequestsShaped

-----------------------------------------------------------------------------
(* Types *)

\* What a system role is due is made of permissions.
LEMMA DuePermissions ==
    ASSUME NEW s
    PROVE  Due(s) \subseteq Permissions
BY RoleAssumptions DEF Due

\* The transactions that are opened, and that they are well typed.
SetRolesRecord(u, R) == Doing("setRoles", u, SeenByDelete(u), {u} \X (R \cap existing))
SetPermissionsRecord(s, P) == Doing("setPermissions", s, RowsOf(s, grants), {s} \X P)
SyncRecord == Doing("sync", NoRole, {}, MissingRows)
DeleteRecord(c) == Doing("deleteRole", c, {}, {})
SignInRecord(u) == Doing("signIn", u, {}, {<<u, SuperadminRole>>})

LEMMA SetRolesTyped ==
    ASSUME RolesTyped, NEW u \in Holders, NEW R \in AskedRoles
    PROVE  SetRolesRecord(u, R) \in RoleRequest /\ Shaped(SetRolesRecord(u, R))
<1>1. SeenByDelete(u) \subseteq {u} \X Roles
    BY DEF SeenByDelete, RowsOf, RolesTyped, RoleGrantsTypeOK
<1>2. {u} \X (R \cap existing) \subseteq {u} \X Roles
    BY DEF RolesTyped, RoleGrantsTypeOK
<1>3. {u} \X Roles \subseteq Rows
    BY DEF Rows
<1> QED BY <1>1, <1>2, <1>3 DEF SetRolesRecord, Doing, RoleRequest, Shaped

LEMMA SetPermissionsTyped ==
    ASSUME RolesTyped, NEW s \in Roles, NEW P \in AskedPermissions
    PROVE  SetPermissionsRecord(s, P) \in RoleRequest /\ Shaped(SetPermissionsRecord(s, P))
<1>1. RowsOf(s, grants) \subseteq {s} \X Permissions
    BY DEF RowsOf, RolesTyped, RoleGrantsTypeOK
<1>2. {s} \X P \subseteq {s} \X Permissions
    BY RoleAssumptions
<1>3. {s} \X Permissions \subseteq Rows
    BY DEF Rows
<1> QED BY <1>1, <1>2, <1>3 DEF SetPermissionsRecord, Doing, RoleRequest, Shaped

\* What a system role lacks is a set of grants.
LEMMA MissingTyped == MissingRows \subseteq SystemRoles \X Permissions
BY DuePermissions DEF MissingRows

LEMMA SyncRolesTyped ==
    SyncRecord \in RoleRequest /\ Shaped(SyncRecord)
<1>1. MissingRows \subseteq Rows
    BY MissingTyped DEF Rows, SystemRoles, Roles
<1> QED BY <1>1, MissingTyped DEF SyncRecord, Doing, RoleRequest, Shaped

LEMMA DeleteRoleTyped ==
    ASSUME NEW c \in CustomRoles
    PROVE  DeleteRecord(c) \in RoleRequest /\ Shaped(DeleteRecord(c))
BY DEF DeleteRecord, Doing, RoleRequest, Shaped, Roles

LEMMA SignInTyped ==
    ASSUME NEW u \in ConfiguredAdmins
    PROVE  SignInRecord(u) \in RoleRequest /\ Shaped(SignInRecord(u))
<1>1. u \in Holders /\ <<u, SuperadminRole>> \in Rows
    BY RoleAssumptions DEF Rows, Roles
<1> QED BY <1>1 DEF SignInRecord, Doing, RoleRequest, Shaped

\* Each first step opens its transaction.
LEMMA Begins ==
    ASSUME NEW r \in RoleRequests
    PROVE  /\ \A u \in Holders, R \in AskedRoles :
                 SetRolesBegin(r, u, R) => OpenRole(r, SetRolesRecord(u, R))
           /\ \A s \in Roles, P \in AskedPermissions :
                 SetPermissionsBegin(r, s, P) => OpenRole(r, SetPermissionsRecord(s, P))
           /\ SyncBegin(r) => OpenRole(r, SyncRecord)
           /\ \A c \in CustomRoles : DeleteRoleBegin(r, c) => OpenRole(r, DeleteRecord(c))
           /\ \A u \in Holders :
                 SignInBegin(r, u) => u \in ConfiguredAdmins /\ OpenRole(r, SignInRecord(u))
BY DEF SetRolesBegin, SetPermissionsBegin, SyncBegin, DeleteRoleBegin, SignInBegin,
       SetRolesRecord, Doing, SetPermissionsRecord, SyncRecord, DeleteRecord, SignInRecord

\* The commit of a sign-in gives the role to the user it is about.
LEMMA SignInGives ==
    ASSUME RolesTyped, NEW r \in RoleRequests, SignInCommit(r)
    PROVE  /\ roleReq[r].op = "signIn" /\ roleReq[r].subject \in ConfiguredAdmins
           /\ holds' = holds \cup {<<roleReq[r].subject, SuperadminRole>>}
           /\ CloseRole(r, {}) /\ UNCHANGED <<existing, grants, asked, disputed, followed>>
<1>1. /\ roleReq[r].op = "signIn" /\ holds' = Replaced(r, holds) /\ CloseRole(r, {})
      /\ UNCHANGED <<existing, grants, asked, disputed, followed>>
    BY DEF SignInCommit
<1>2. /\ roleReq[r].subject \in ConfiguredAdmins /\ roleReq[r].gone = {}
      /\ roleReq[r].new = {<<roleReq[r].subject, SuperadminRole>>}
    BY <1>1, RoleRequestTyped DEF Shaped
<1> QED BY <1>1, <1>2 DEF Replaced

\* One step keeps rows and requests well typed.
LEMMA TypeStep ==
    ASSUME RolesTyped, [RoleGrantsNext]_roleVars
    PROVE  RolesTyped'
<1> USE RoleAssumptions
<1> DEFINE TablesKept == /\ existing' \subseteq Roles /\ holds' \subseteq Holders \X Roles
                     /\ grants' \subseteq Roles \X Permissions
           Ghosts == /\ asked' \in [Holders -> SUBSET Roles] /\ disputed' \subseteq Holders
                     /\ followed' \subseteq SystemRoles
           OpenKept   == roleReq' \in [RoleRequests -> RoleRequest] /\ RequestsShaped'
<1>0. SUFFICES TablesKept /\ Ghosts /\ OpenKept
    BY DEF RolesTyped, RoleGrantsTypeOK
<1>1. UNCHANGED <<existing, holds, grants>> => TablesKept
    BY DEF RolesTyped, RoleGrantsTypeOK
<1>2. UNCHANGED <<asked, disputed, followed>> => Ghosts
    BY DEF RolesTyped, RoleGrantsTypeOK
<1>3. UNCHANGED roleReq => OpenKept
    BY DEF RolesTyped, RoleGrantsTypeOK, RequestsShaped, Shaped
<1>4. CASE UNCHANGED roleVars
    BY <1>1, <1>2, <1>3, <1>4 DEF roleVars
<1>5. ASSUME NEW c \in CustomRoles, NEW P \in AskedPermissions, CreateRole(c, P)
      PROVE  TablesKept /\ Ghosts /\ OpenKept
    <2>1. TablesKept
        BY <1>5 DEF CreateRole, RolesTyped, RoleGrantsTypeOK, Roles
    <2> QED BY <1>2, <1>3, <1>5, <2>1 DEF CreateRole
<1>6. ASSUME NEW r \in RoleRequests, NEW u \in Holders, NEW R \in AskedRoles,
             SetRolesBegin(r, u, R)
      PROVE  TablesKept /\ Ghosts /\ OpenKept
    <2>0. OpenRole(r, SetRolesRecord(u, R))
        BY <1>6, Begins
    <2>1. OpenKept
        BY <2>0, SetRolesTyped, RoleOpened
    <2>2. Ghosts
        BY <1>6 DEF SetRolesBegin, RolesTyped, RoleGrantsTypeOK
    <2> QED BY <1>1, <1>6, <2>1, <2>2 DEF SetRolesBegin
<1>7. ASSUME NEW r \in RoleRequests, NEW s \in Roles, NEW P \in AskedPermissions,
             SetPermissionsBegin(r, s, P)
      PROVE  TablesKept /\ Ghosts /\ OpenKept
    <2>1. OpenRole(r, SetPermissionsRecord(s, P))
        BY <1>7, Begins
    <2>2. OpenKept
        BY <2>1, SetPermissionsTyped, RoleOpened
    <2> QED BY <1>1, <1>2, <1>7, <2>2 DEF SetPermissionsBegin
<1>8. ASSUME NEW r \in RoleRequests, NEW c \in CustomRoles, DeleteRoleBegin(r, c)
      PROVE  TablesKept /\ Ghosts /\ OpenKept
    <2>1. OpenRole(r, DeleteRecord(c))
        BY <1>8, Begins
    <2>2. OpenKept
        BY <2>1, DeleteRoleTyped, RoleOpened
    <2> QED BY <1>1, <1>2, <1>8, <2>2 DEF DeleteRoleBegin
<1>9. ASSUME NEW r \in RoleRequests, SyncBegin(r)
      PROVE  TablesKept /\ Ghosts /\ OpenKept
    <2>1. OpenRole(r, SyncRecord)
        BY <1>9, Begins
    <2>2. OpenKept
        BY <2>1, SyncRolesTyped, RoleOpened
    <2> QED BY <1>1, <1>2, <1>9, <2>2 DEF SyncBegin
<1>10. ASSUME NEW r \in RoleRequests, SetRolesCommit(r)
       PROVE  TablesKept /\ Ghosts /\ OpenKept
    <2> DEFINE given == {row[2] : row \in roleReq[r].new}
    <2>1. /\ roleReq[r].op = "setRoles" /\ given \subseteq existing
          /\ holds' = Replaced(r, holds)
          /\ asked' = [asked EXCEPT ![roleReq[r].subject] = given]
          /\ CloseRole(r, given)
          /\ UNCHANGED <<existing, grants, disputed, followed>>
        BY <1>10 DEF SetRolesCommit
    <2>2. roleReq[r].subject \in Holders /\ roleReq[r].new \subseteq Holders \X Roles
        BY <2>1, RoleRequestTyped DEF Shaped
    <2>3. TablesKept
        BY <2>1, <2>2 DEF Replaced, RolesTyped, RoleGrantsTypeOK
    <2>4. Ghosts
        BY <2>1, <2>2 DEF RolesTyped, RoleGrantsTypeOK
    <2>5. OpenKept
        BY <2>1, RoleClosed
    <2> QED BY <2>3, <2>4, <2>5
<1>11. ASSUME NEW r \in RoleRequests, GrantsCommit(r)
       PROVE  TablesKept /\ Ghosts /\ OpenKept
    <2>1. roleReq[r].new \subseteq Roles \X Permissions
        BY <1>11, RoleRequestTyped DEF GrantsCommit, Shaped, SystemRoles, Roles
    <2>2. TablesKept
        BY <1>11, <2>1 DEF GrantsCommit, Replaced, RolesTyped, RoleGrantsTypeOK
    <2>3. Ghosts
        BY <1>11 DEF GrantsCommit, RolesTyped, RoleGrantsTypeOK, SystemRoles
    <2>4. OpenKept
        BY <1>11, RoleClosed DEF GrantsCommit
    <2> QED BY <2>2, <2>3, <2>4
<1>12. ASSUME NEW r \in RoleRequests, DeleteRoleCommit(r)
       PROVE  TablesKept /\ Ghosts /\ OpenKept
    <2>1. TablesKept
        BY <1>12 DEF DeleteRoleCommit, RolesTyped, RoleGrantsTypeOK
    <2>2. Ghosts
        BY <1>12 DEF DeleteRoleCommit, RolesTyped, RoleGrantsTypeOK
    <2>3. OpenKept
        BY <1>12, RoleClosed DEF DeleteRoleCommit
    <2> QED BY <2>1, <2>2, <2>3
<1>13. ASSUME NEW r \in RoleRequests, RoleRollback(r)
       PROVE  TablesKept /\ Ghosts /\ OpenKept
    <2>1. OpenKept
        BY <1>13, IdleRoleTyped DEF RoleRollback, RolesTyped, RoleGrantsTypeOK, RequestsShaped
    <2> QED BY <1>1, <1>2, <1>13, <2>1 DEF RoleRollback
<1>14. ASSUME NEW r \in RoleRequests, NEW u \in Holders, SignInBegin(r, u)
       PROVE  TablesKept /\ Ghosts /\ OpenKept
    <2>1. u \in ConfiguredAdmins /\ OpenRole(r, SignInRecord(u))
        BY <1>14, Begins
    <2>2. OpenKept
        BY <2>1, SignInTyped, RoleOpened
    <2> QED BY <1>1, <1>2, <1>14, <2>2 DEF SignInBegin
<1>15. ASSUME NEW r \in RoleRequests, SignInCommit(r)
       PROVE  TablesKept /\ Ghosts /\ OpenKept
    <2>1. <<roleReq[r].subject, SuperadminRole>> \in Holders \X Roles
        BY <1>15, SignInGives DEF Roles
    <2>2. TablesKept
        BY <1>15, <2>1, SignInGives DEF RolesTyped, RoleGrantsTypeOK
    <2>3. OpenKept
        BY <1>15, SignInGives, RoleClosed
    <2> QED BY <1>2, <1>15, <2>2, <2>3, SignInGives
<1> QED BY <1>4, <1>5, <1>6, <1>7, <1>8, <1>9, <1>10, <1>11, <1>12, <1>13, <1>14, <1>15
        DEF RoleGrantsNext

\* The empty database is well typed.
LEMMA TypeInit == RoleGrantsInit => RolesTyped
BY IdleRoleTyped DEF RoleGrantsInit, RolesTyped, RoleGrantsTypeOK, RequestsShaped, Roles, SystemRoles

\* Rows and requests are well typed in every reachable state.
THEOREM RoleTypes == RoleGrantsSpec => []RoleGrantsTypeOK
<1>1. RolesTyped => RoleGrantsTypeOK
    BY DEF RolesTyped
<1> QED BY <1>1, TypeInit, TypeStep, PTL DEF RoleGrantsSpec

-----------------------------------------------------------------------------
(* Deleting a role *)

\* A deletion that nobody disturbed still finds no holder.
Unwatched ==
    \A r \in RoleRequests :
        (roleReq[r].op = "deleteRole" /\ ~roleReq[r].taken)
            => \A row \in holds : row[2] # roleReq[r].subject

\* One step keeps the undisturbed deletions without holders.
LEMMA UnwatchedStep ==
    ASSUME RolesTyped, Unwatched, [RoleGrantsNext]_roleVars
    PROVE  Unwatched'
<1>1. CASE UNCHANGED <<holds, roleReq>>
    BY <1>1 DEF Unwatched
<1>2. ASSUME NEW r \in RoleRequests, NEW rec \in RoleRequest, Shaped(rec), OpenRole(r, rec),
             UNCHANGED holds,
             rec.op = "deleteRole" => \A row \in holds : row[2] # rec.subject
      PROVE  Unwatched'
    BY <1>2, RoleOpened DEF Unwatched
<1>3. ASSUME NEW r \in RoleRequests, NEW changed, CloseRole(r, changed),
             \A row \in holds' : row \in holds \/ row[2] \in changed \/ row[2] \notin CustomRoles
      PROVE  Unwatched'
    <2> SUFFICES ASSUME NEW q \in RoleRequests, roleReq'[q].op = "deleteRole", ~roleReq'[q].taken,
                        NEW row \in holds'
                 PROVE  row[2] # roleReq'[q].subject
        BY DEF Unwatched
    <2>1. q # r
        BY <1>3, RoleClosed DEF IdleRole, Doing
    <2>2. /\ roleReq[q].op = "deleteRole" /\ ~roleReq[q].taken
          /\ roleReq'[q].subject = roleReq[q].subject /\ roleReq[q].subject \notin changed
        BY <1>3, <2>1, RoleClosed
    <2>3. roleReq[q].subject \in CustomRoles
        BY <2>2, RoleRequestTyped DEF Shaped
    <2> QED BY <1>3, <2>2, <2>3 DEF Unwatched
<1>4. ASSUME NEW r \in RoleRequests, NEW u \in Holders, NEW R \in AskedRoles,
             SetRolesBegin(r, u, R)
      PROVE  Unwatched'
    BY <1>2, <1>4, SetRolesTyped, Begins DEF SetRolesBegin, SetRolesRecord, Doing
<1>5. ASSUME NEW r \in RoleRequests, NEW s \in Roles, NEW P \in AskedPermissions,
             SetPermissionsBegin(r, s, P)
      PROVE  Unwatched'
    BY <1>2, <1>5, SetPermissionsTyped, Begins DEF SetPermissionsBegin, SetPermissionsRecord, Doing
<1>6. ASSUME NEW r \in RoleRequests, SyncBegin(r) PROVE Unwatched'
    BY <1>2, <1>6, SyncRolesTyped, Begins DEF SyncBegin, SyncRecord, Doing
<1>7. ASSUME NEW r \in RoleRequests, NEW c \in CustomRoles, DeleteRoleBegin(r, c)
      PROVE  Unwatched'
    BY <1>2, <1>7, DeleteRoleTyped, Begins DEF DeleteRoleBegin, Unheld, DeleteRecord, Doing
<1>8. ASSUME NEW r \in RoleRequests, SetRolesCommit(r) PROVE Unwatched'
    BY <1>3, <1>8 DEF SetRolesCommit, Replaced
<1>9. ASSUME NEW r \in RoleRequests, GrantsCommit(r) PROVE Unwatched'
    BY <1>3, <1>9 DEF GrantsCommit
<1>10. ASSUME NEW r \in RoleRequests, DeleteRoleCommit(r) PROVE Unwatched'
    BY <1>3, <1>10 DEF DeleteRoleCommit
<1>11. ASSUME NEW r \in RoleRequests, RoleRollback(r) PROVE Unwatched'
    BY <1>11 DEF RoleRollback, Unwatched, IdleRole, Doing, RolesTyped, RoleGrantsTypeOK
<1>12. ASSUME NEW r \in RoleRequests, NEW u \in Holders, SignInBegin(r, u) PROVE Unwatched'
    <2>1. u \in ConfiguredAdmins /\ OpenRole(r, SignInRecord(u)) /\ UNCHANGED holds
        BY <1>12, Begins DEF SignInBegin
    <2> QED BY <1>2, <2>1, SignInTyped DEF SignInRecord, Doing
<1>13. ASSUME NEW r \in RoleRequests, SignInCommit(r) PROVE Unwatched'
    <2>1. SuperadminRole \notin CustomRoles
        BY RoleAssumptions
    <2> QED BY <1>3, <1>13, <2>1, SignInGives
<1> QED BY <1>1, <1>4, <1>5, <1>6, <1>7, <1>8, <1>9, <1>10, <1>11, <1>12, <1>13
        DEF RoleGrantsNext, roleVars, CreateRole

\* Initially no deletion is open.
LEMMA UnwatchedInit == RoleGrantsInit => Unwatched
BY DEF RoleGrantsInit, Unwatched, IdleRole, Doing

\* A role that goes had no holder, or got one after the holders had been counted.
LEMMA DeletedUnheld ==
    ASSUME RolesTyped, Unwatched, RoleGrantsNext, NEW c \in existing \ existing'
    PROVE  \/ \A u \in Holders : <<u, c>> \notin holds
           \/ \E r \in RoleRequests : roleReq[r].subject = c /\ roleReq[r].taken
<1>1. PICK r \in RoleRequests : DeleteRoleCommit(r)
    <2>1. ~UNCHANGED existing /\ ~(\E d \in CustomRoles, P \in AskedPermissions : CreateRole(d, P))
        BY DEF CreateRole
    <2> QED BY <2>1 DEF RoleGrantsNext, SetRolesBegin, SetPermissionsBegin, DeleteRoleBegin,
            SyncBegin, SignInBegin, SignInCommit, SetRolesCommit, GrantsCommit, RoleRollback
<1>2. roleReq[r].op = "deleteRole" /\ roleReq[r].subject = c
    BY <1>1 DEF DeleteRoleCommit
<1> QED BY <1>2 DEF Unwatched

\* delete_role, "Cannot delete role with assigned users": nobody loses a role because it is
\* deleted, unless it was assigned after the holders had been counted.
THEOREM HeldRolesStay == RoleGrantsSpec => HeldRoleStays
<1> DEFINE Kept == \A c \in existing \ existing' :
                       \/ \A u \in Holders : <<u, c>> \notin holds
                       \/ \E r \in RoleRequests : roleReq[r].subject = c /\ roleReq[r].taken
<1>1. RoleGrantsInit => RolesTyped /\ Unwatched
    BY TypeInit, UnwatchedInit
<1>2. RolesTyped /\ Unwatched /\ [RoleGrantsNext]_roleVars => (RolesTyped /\ Unwatched)'
    BY TypeStep, UnwatchedStep
<1>3. RolesTyped /\ Unwatched /\ [RoleGrantsNext]_roleVars => [Kept]_roleVars
    BY DeletedUnheld
<1> QED BY <1>1, <1>2, <1>3, PTL DEF RoleGrantsSpec, HeldRoleStays

-----------------------------------------------------------------------------
(* Replacing the roles of a user *)

Replaces(q, u) == roleReq[q].op = "setRoles" /\ roleReq[q].subject = u

RolesOf(u, table) == {row[2] : row \in RowsOf(u, table)}

\* Two replacements of one user's roles that overlap are recorded as disputed.
Contested ==
    \A q, r \in RoleRequests, u \in Holders :
        (q # r /\ Replaces(q, u) /\ Replaces(r, u)) => u \in disputed

\* The rows that sign-ins add.
AtSignIn(u) == {row \in {<<u, SuperadminRole>>} : u \in ConfiguredAdmins}

\* What an undisputed replacement deletes is all that the user still holds, but for what a
\* sign-in has added since.
GoneCovers ==
    \A q \in RoleRequests, u \in Holders \ disputed :
        Replaces(q, u) => RowsOf(u, holds) \subseteq roleReq[q].gone \cup AtSignIn(u)

\* The property, row by row.
AskedRows ==
    \A u \in Holders \ disputed :
        /\ {u} \X asked[u] \subseteq holds
        /\ RowsOf(u, holds) \subseteq ({u} \X asked[u]) \cup AtSignIn(u)

HoldersInv == RolesTyped /\ Contested /\ GoneCovers /\ AskedRows

\* The rows of a user are not in the way of those of another, nor of a role's permissions.
LEMMA OthersRows ==
    ASSUME RolesTyped, NEW r \in RoleRequests, NEW u \in Holders, ~Replaces(r, u)
    PROVE  \A row \in Holders \X Roles : row[1] = u => row \notin roleReq[r].gone
<1>1. \/ roleReq[r].op = "none"
      \/ roleReq[r].op \in {"setRoles", "setPermissions", "sync", "deleteRole", "signIn"}
    BY RoleRequestTyped DEF RoleRequest
<1> QED BY <1>1, RoleRequestTyped, RoleAssumptions DEF Shaped, Replaces

\* A step that leaves the rows and requests of users alone, but for deleting from both.
LEMMA HoldersQuiet ==
    ASSUME HoldersInv, holds' = holds, UNCHANGED <<asked, disputed>>,
           \A q \in RoleRequests :
              /\ roleReq'[q].op = "setRoles" =>
                    roleReq[q].op = "setRoles" /\ roleReq'[q].subject = roleReq[q].subject
              /\ roleReq'[q].op = "setRoles" =>
                    \A u \in Holders : Replaces(q, u) =>
                        RowsOf(u, holds) \cap roleReq[q].gone \subseteq roleReq'[q].gone
    PROVE  Contested' /\ GoneCovers' /\ AskedRows'
<1>1. \A q \in RoleRequests, u \in Holders : Replaces(q, u)' => Replaces(q, u)
    BY DEF Replaces
<1>2. Contested'
    BY <1>1 DEF Contested, HoldersInv
<1>3. GoneCovers'
    <2> SUFFICES ASSUME NEW q \in RoleRequests, NEW u \in Holders \ disputed', Replaces(q, u)'
                 PROVE  RowsOf(u, holds)' \subseteq roleReq'[q].gone \cup AtSignIn(u)
        BY DEF GoneCovers
    <2>1. Replaces(q, u) /\ u \notin disputed
        BY <1>1
    <2>2. RowsOf(u, holds) \subseteq roleReq[q].gone \cup AtSignIn(u)
        BY <2>1 DEF HoldersInv, GoneCovers
    <2>3. RowsOf(u, holds)' = RowsOf(u, holds)
        BY DEF RowsOf
    <2> QED BY <2>1, <2>2, <2>3 DEF Replaces
<1>4. AskedRows'
    BY DEF HoldersInv, AskedRows, RowsOf, AtSignIn
<1> QED BY <1>2, <1>3, <1>4

\* The commit of a replacement.
LEMMA SetRolesCommitHolders ==
    ASSUME HoldersInv, NEW r \in RoleRequests, SetRolesCommit(r)
    PROVE  Contested' /\ GoneCovers' /\ AskedRows'
<1> DEFINE v     == roleReq[r].subject
           given == {row[2] : row \in roleReq[r].new}
<1>1. /\ roleReq[r].op = "setRoles" /\ holds' = Replaced(r, holds)
      /\ asked' = [asked EXCEPT ![v] = given]
      /\ CloseRole(r, given) /\ disputed' = disputed
    BY DEF SetRolesCommit
<1>2. /\ v \in Holders /\ Replaces(r, v)
      /\ roleReq[r].gone \subseteq {v} \X Roles /\ roleReq[r].new \subseteq {v} \X Roles
    BY <1>1, RoleRequestTyped DEF HoldersInv, Shaped, Replaces
<1>3. \A q \in RoleRequests, u \in Holders : Replaces(q, u)' => q # r /\ Replaces(q, u)
    BY <1>1, RoleClosed DEF HoldersInv, Replaces, IdleRole, Doing
<1>4. Contested'
    BY <1>1, <1>3 DEF Contested, HoldersInv
<1>5. ASSUME NEW u \in Holders, u # v
      PROVE  RowsOf(u, holds)' = RowsOf(u, holds)
    BY <1>1, <1>2, <1>5 DEF RowsOf, Replaced
<1>6. GoneCovers'
    <2> SUFFICES ASSUME NEW q \in RoleRequests, NEW u \in Holders \ disputed', Replaces(q, u)'
                 PROVE  RowsOf(u, holds)' \subseteq roleReq'[q].gone \cup AtSignIn(u)
        BY DEF GoneCovers
    <2>1. q # r /\ Replaces(q, u) /\ u \notin disputed
        BY <1>1, <1>3
    <2>2. u # v
        BY <1>2, <2>1 DEF HoldersInv, Contested
    <2>3. RowsOf(u, holds) \subseteq roleReq[q].gone \cup AtSignIn(u)
        BY <2>1 DEF HoldersInv, GoneCovers
    <2>4. \A row \in RowsOf(u, holds) : row \notin roleReq[r].gone
        BY <1>2, <2>2 DEF RowsOf
    <2>5. roleReq'[q].gone = roleReq[q].gone \ roleReq[r].gone
        BY <1>1, <2>1, RoleClosed DEF HoldersInv
    <2> QED BY <1>5, <2>2, <2>3, <2>4, <2>5
<1>7. AskedRows'
    <2> SUFFICES ASSUME NEW u \in Holders \ disputed'
                 PROVE  /\ {u} \X asked'[u] \subseteq holds'
                        /\ RowsOf(u, holds)' \subseteq ({u} \X asked'[u]) \cup AtSignIn(u)
        BY DEF AskedRows, AtSignIn
    <2>0. /\ {u} \X asked[u] \subseteq holds
          /\ RowsOf(u, holds) \subseteq ({u} \X asked[u]) \cup AtSignIn(u)
        BY <1>1 DEF HoldersInv, AskedRows
    <2>1. CASE u # v
        <3>1. asked'[u] = asked[u]
            BY <1>1, <2>1 DEF HoldersInv, RolesTyped, RoleGrantsTypeOK
        <3>2. {u} \X asked[u] \subseteq RowsOf(u, holds)
            BY <2>0 DEF RowsOf
        <3>3. RowsOf(u, holds)' \subseteq holds'
            BY DEF RowsOf
        <3> QED BY <1>5, <2>0, <2>1, <3>1, <3>2, <3>3
    <2>2. CASE u = v
        <3>1. RowsOf(u, holds) \subseteq roleReq[r].gone \cup AtSignIn(u)
            BY <1>1, <1>2, <2>2 DEF HoldersInv, GoneCovers
        <3>2. RowsOf(u, holds)' \subseteq roleReq[r].new \cup AtSignIn(u)
            BY <1>1, <1>2, <2>2, <3>1 DEF RowsOf, Replaced
        <3>3. asked'[u] = given
            BY <1>1, <1>2, <2>2 DEF HoldersInv, RolesTyped, RoleGrantsTypeOK
        <3>4. roleReq[r].new = {u} \X given
            <4>1. roleReq[r].new \subseteq {u} \X given
                BY <1>2, <2>2
            <4>2. ASSUME NEW g \in given PROVE <<u, g>> \in roleReq[r].new
                <5>1. PICK row \in roleReq[r].new : row[2] = g
                    OBVIOUS
                <5>2. row = <<u, g>>
                    BY <1>2, <2>2, <5>1
                <5> QED BY <5>2
            <4> QED BY <4>1, <4>2
        <3>5. roleReq[r].new \subseteq holds'
            BY <1>1 DEF Replaced
        <3> QED BY <3>2, <3>3, <3>4, <3>5
    <2> QED BY <2>1, <2>2
<1> QED BY <1>4, <1>6, <1>7

\* A deletion takes a role from those who hold it and from what was asked for.
LEMMA DeleteCommitHolders ==
    ASSUME HoldersInv, NEW r \in RoleRequests, DeleteRoleCommit(r)
    PROVE  Contested' /\ GoneCovers' /\ AskedRows'
<1> DEFINE c == roleReq[r].subject
<1>1. /\ roleReq[r].op = "deleteRole" /\ holds' = {row \in holds : row[2] # c}
      /\ asked' = [u \in Holders |-> asked[u] \ {c}]
      /\ CloseRole(r, {}) /\ disputed' = disputed
    BY DEF DeleteRoleCommit
<1>2. roleReq[r].gone = {}
    BY <1>1, RoleRequestTyped DEF HoldersInv, Shaped
<1>3. \A q \in RoleRequests, u \in Holders : Replaces(q, u)' => q # r /\ Replaces(q, u)
    BY <1>1, RoleClosed DEF HoldersInv, Replaces, IdleRole, Doing
<1>4. Contested'
    BY <1>1, <1>3 DEF Contested, HoldersInv
<1>5. ASSUME NEW u \in Holders
      PROVE  RowsOf(u, holds)' = {row \in RowsOf(u, holds) : row[2] # c}
    BY <1>1 DEF RowsOf
<1>6. GoneCovers'
    <2> SUFFICES ASSUME NEW q \in RoleRequests, NEW u \in Holders \ disputed', Replaces(q, u)'
                 PROVE  RowsOf(u, holds)' \subseteq roleReq'[q].gone \cup AtSignIn(u)
        BY DEF GoneCovers
    <2>1. q # r /\ Replaces(q, u) /\ u \notin disputed
        BY <1>1, <1>3
    <2>2. RowsOf(u, holds) \subseteq roleReq[q].gone \cup AtSignIn(u)
        BY <2>1 DEF HoldersInv, GoneCovers
    <2>3. roleReq'[q].gone = roleReq[q].gone \ roleReq[r].gone
        BY <1>1, <2>1, RoleClosed DEF HoldersInv
    <2> QED BY <1>2, <1>5, <2>2, <2>3
<1>7. AskedRows'
    <2> SUFFICES ASSUME NEW u \in Holders \ disputed'
                 PROVE  /\ {u} \X asked'[u] \subseteq holds'
                        /\ RowsOf(u, holds)' \subseteq ({u} \X asked'[u]) \cup AtSignIn(u)
        BY DEF AskedRows, AtSignIn
    <2>1. /\ {u} \X asked[u] \subseteq holds
          /\ RowsOf(u, holds) \subseteq ({u} \X asked[u]) \cup AtSignIn(u)
        BY <1>1 DEF HoldersInv, AskedRows
    <2>2. asked'[u] = asked[u] \ {c}
        BY <1>1
    <2>3. {u} \X asked'[u] \subseteq holds'
        BY <1>1, <2>1, <2>2
    <2> QED BY <1>5, <2>1, <2>2, <2>3
<1> QED BY <1>4, <1>6, <1>7

\* The beginning of a replacement: it sees every row of the user, or the user is disputed.
LEMMA SetRolesBeginHolders ==
    ASSUME HoldersInv, NEW r \in RoleRequests, NEW v \in Holders, NEW R \in AskedRoles,
           SetRolesBegin(r, v, R)
    PROVE  Contested' /\ GoneCovers' /\ AskedRows'
<1> DEFINE busy == \E q \in RoleRequests : Replaces(q, v)
<1>1. /\ OpenRole(r, SetRolesRecord(v, R))
      /\ disputed' = IF busy THEN disputed \cup {v} ELSE disputed
      /\ UNCHANGED <<holds, asked>>
    BY Begins DEF SetRolesBegin, Replaces
<1>2. /\ roleReq[r] = IdleRole
      /\ \A q \in RoleRequests :
            roleReq'[q] = IF q = r THEN SetRolesRecord(v, R) ELSE roleReq[q]
    BY <1>1, SetRolesTyped, RoleOpened DEF HoldersInv
<1>3. \A q \in RoleRequests, u \in Holders :
          Replaces(q, u)' <=> IF q = r THEN u = v ELSE Replaces(q, u)
    BY <1>2 DEF Replaces, SetRolesRecord, Doing
<1>4. Contested'
    BY <1>1, <1>3 DEF Contested, HoldersInv
<1>5. roleReq'[r].gone = RowsOf(v, holds)
    BY <1>2 DEF SetRolesRecord, Doing, SeenByDelete
<1>6. GoneCovers'
    <2> SUFFICES ASSUME NEW q \in RoleRequests, NEW u \in Holders \ disputed', Replaces(q, u)'
                 PROVE  RowsOf(u, holds)' \subseteq roleReq'[q].gone \cup AtSignIn(u)
        BY DEF GoneCovers
    <2>1. RowsOf(u, holds)' = RowsOf(u, holds)
        BY <1>1 DEF RowsOf
    <2>2. CASE q = r
        BY <1>3, <1>5, <2>1, <2>2
    <2>3. CASE q # r
        BY <1>1, <1>2, <1>3, <2>1, <2>3 DEF HoldersInv, GoneCovers
    <2> QED BY <2>2, <2>3
<1>7. AskedRows'
    BY <1>1 DEF HoldersInv, AskedRows, RowsOf, AtSignIn
<1> QED BY <1>4, <1>6, <1>7

\* The commit of a sign-in.
LEMMA SignInHolders ==
    ASSUME HoldersInv, NEW r \in RoleRequests, SignInCommit(r)
    PROVE  Contested' /\ GoneCovers' /\ AskedRows'
<1> DEFINE v == roleReq[r].subject
<1>1. /\ roleReq[r].op = "signIn" /\ v \in ConfiguredAdmins
      /\ holds' = holds \cup {<<v, SuperadminRole>>}
      /\ CloseRole(r, {}) /\ asked' = asked /\ disputed' = disputed
    BY SignInGives DEF HoldersInv
<1>2. roleReq[r].gone = {}
    BY <1>1, RoleRequestTyped DEF HoldersInv, Shaped
<1>3. \A q \in RoleRequests, u \in Holders : Replaces(q, u)' => q # r /\ Replaces(q, u)
    BY <1>1, RoleClosed DEF HoldersInv, Replaces, IdleRole, Doing
<1>4. Contested'
    BY <1>1, <1>3 DEF Contested, HoldersInv
<1>5. ASSUME NEW u \in Holders
      PROVE  RowsOf(u, holds)' \subseteq RowsOf(u, holds) \cup AtSignIn(u)
    BY <1>1 DEF RowsOf, AtSignIn
<1>6. GoneCovers'
    <2> SUFFICES ASSUME NEW q \in RoleRequests, NEW u \in Holders \ disputed', Replaces(q, u)'
                 PROVE  RowsOf(u, holds)' \subseteq roleReq'[q].gone \cup AtSignIn(u)
        BY DEF GoneCovers
    <2>1. q # r /\ Replaces(q, u) /\ u \notin disputed
        BY <1>1, <1>3
    <2>2. RowsOf(u, holds) \subseteq roleReq[q].gone \cup AtSignIn(u)
        BY <2>1 DEF HoldersInv, GoneCovers
    <2>3. roleReq'[q].gone = roleReq[q].gone \ roleReq[r].gone
        BY <1>1, <2>1, RoleClosed DEF HoldersInv
    <2> QED BY <1>2, <1>5, <2>2, <2>3
<1>7. AskedRows'
    <2> SUFFICES ASSUME NEW u \in Holders \ disputed
                 PROVE  /\ {u} \X asked[u] \subseteq holds'
                        /\ RowsOf(u, holds)' \subseteq ({u} \X asked[u]) \cup AtSignIn(u)
        BY <1>1 DEF AskedRows, AtSignIn
    <2>1. /\ {u} \X asked[u] \subseteq holds
          /\ RowsOf(u, holds) \subseteq ({u} \X asked[u]) \cup AtSignIn(u)
        BY DEF HoldersInv, AskedRows
    <2> QED BY <1>1, <1>5, <2>1
<1> QED BY <1>4, <1>6, <1>7

\* One step keeps what the users hold in line with what was asked for.
LEMMA HoldersStep ==
    ASSUME HoldersInv, [RoleGrantsNext]_roleVars
    PROVE  HoldersInv'
<1> USE DEF HoldersInv
<1>0. RolesTyped'
    BY TypeStep
<1> SUFFICES Contested' /\ GoneCovers' /\ AskedRows'
    BY <1>0
<1>1. CASE UNCHANGED <<holds, roleReq, asked, disputed>>
    BY <1>1, HoldersQuiet
<1>2. ASSUME NEW r \in RoleRequests, NEW rec \in RoleRequest, Shaped(rec), OpenRole(r, rec),
             rec.op # "setRoles", UNCHANGED <<holds, asked, disputed>>
      PROVE  Contested' /\ GoneCovers' /\ AskedRows'
    <2>1. \A q \in RoleRequests :
              roleReq'[q].op = "setRoles" => roleReq'[q] = roleReq[q]
        BY <1>2, RoleOpened
    <2> QED BY <1>2, <2>1, HoldersQuiet
<1>3. ASSUME NEW r \in RoleRequests, NEW changed, CloseRole(r, changed),
             roleReq[r].op # "setRoles", UNCHANGED <<holds, asked, disputed>>
      PROVE  Contested' /\ GoneCovers' /\ AskedRows'
    <2>1. ASSUME NEW q \in RoleRequests, roleReq'[q].op = "setRoles"
          PROVE  /\ roleReq[q].op = "setRoles" /\ roleReq'[q].subject = roleReq[q].subject
                 /\ \A u \in Holders : Replaces(q, u) =>
                        RowsOf(u, holds) \cap roleReq[q].gone \subseteq roleReq'[q].gone
        <3>1. q # r
            BY <1>3, <2>1, RoleClosed DEF IdleRole, Doing
        <3>2. /\ roleReq[q].op = "setRoles" /\ roleReq'[q].subject = roleReq[q].subject
              /\ roleReq'[q].gone = roleReq[q].gone \ roleReq[r].gone
            BY <1>3, <2>1, <3>1, RoleClosed
        <3>3. ASSUME NEW u \in Holders, NEW row \in RowsOf(u, holds)
              PROVE  row \notin roleReq[r].gone
            BY <1>3, OthersRows DEF Replaces, RowsOf, RolesTyped, RoleGrantsTypeOK
        <3> QED BY <3>2, <3>3
    <2> QED BY <1>3, <2>1, HoldersQuiet
<1>4. ASSUME NEW r \in RoleRequests, NEW s \in Roles, NEW P \in AskedPermissions,
             SetPermissionsBegin(r, s, P)
      PROVE  Contested' /\ GoneCovers' /\ AskedRows'
    BY <1>2, <1>4, SetPermissionsTyped, Begins
       DEF SetPermissionsBegin, SetPermissionsRecord, Doing
<1>5. ASSUME NEW r \in RoleRequests, SyncBegin(r)
      PROVE  Contested' /\ GoneCovers' /\ AskedRows'
    BY <1>2, <1>5, SyncRolesTyped, Begins DEF SyncBegin, SyncRecord, Doing
<1>6. ASSUME NEW r \in RoleRequests, NEW c \in CustomRoles, DeleteRoleBegin(r, c)
      PROVE  Contested' /\ GoneCovers' /\ AskedRows'
    BY <1>2, <1>6, DeleteRoleTyped, Begins DEF DeleteRoleBegin, DeleteRecord, Doing
<1>7. ASSUME NEW r \in RoleRequests, GrantsCommit(r)
      PROVE  Contested' /\ GoneCovers' /\ AskedRows'
    BY <1>3, <1>7 DEF GrantsCommit
<1>8. ASSUME NEW r \in RoleRequests, RoleRollback(r)
      PROVE  Contested' /\ GoneCovers' /\ AskedRows'
    <2>1. \A q \in RoleRequests :
              roleReq'[q].op = "setRoles" => roleReq'[q] = roleReq[q]
        BY <1>8 DEF RoleRollback, RolesTyped, RoleGrantsTypeOK, IdleRole, Doing
    <2> QED BY <1>8, <2>1, HoldersQuiet DEF RoleRollback
<1>9. ASSUME NEW r \in RoleRequests, NEW u \in Holders, SignInBegin(r, u)
      PROVE  Contested' /\ GoneCovers' /\ AskedRows'
    <2>1. /\ u \in ConfiguredAdmins /\ OpenRole(r, SignInRecord(u))
          /\ UNCHANGED <<holds, asked, disputed>>
        BY <1>9, Begins DEF SignInBegin
    <2> QED BY <1>2, <2>1, SignInTyped DEF SignInRecord, Doing
<1> QED BY <1>1, <1>4, <1>5, <1>6, <1>7, <1>8, <1>9, SetRolesBeginHolders,
           SetRolesCommitHolders, DeleteCommitHolders, SignInHolders DEF RoleGrantsNext, roleVars, CreateRole

\* At the beginning nobody holds or is to hold anything.
LEMMA HoldersInit == RoleGrantsInit => HoldersInv
<1> SUFFICES ASSUME RoleGrantsInit PROVE HoldersInv
    OBVIOUS
<1>1. Contested /\ GoneCovers
    BY DEF RoleGrantsInit, Contested, GoneCovers, Replaces, IdleRole, Doing
<1>2. AskedRows
    <2>1. \A u \in Holders : RowsOf(u, holds) = {} /\ asked[u] = {}
        BY DEF RoleGrantsInit, RowsOf
    <2> QED BY <2>1 DEF AskedRows
<1> QED BY <1>1, <1>2, TypeInit DEF HoldersInv

\* What the rows say of the roles.
LEMMA RowsToRoles ==
    ASSUME HoldersInv
    PROVE  RolesAsAsked
<1> SUFFICES ASSUME NEW u \in Holders \ disputed
             PROVE  LET held == {row[2] : row \in RowsOf(u, holds)} IN
                    /\ asked[u] \subseteq held
                    /\ held \subseteq asked[u] \cup {rl \in {SuperadminRole} : u \in ConfiguredAdmins}
    BY DEF RolesAsAsked
<1>1. /\ {u} \X asked[u] \subseteq holds
      /\ RowsOf(u, holds) \subseteq ({u} \X asked[u]) \cup AtSignIn(u)
    BY DEF HoldersInv, AskedRows
<1>2. ASSUME NEW a \in asked[u] PROVE \E row \in RowsOf(u, holds) : row[2] = a
    <2>1. <<u, a>> \in RowsOf(u, holds)
        BY <1>1 DEF RowsOf
    <2> QED BY <2>1
<1>3. ASSUME NEW row \in RowsOf(u, holds)
      PROVE  row[2] \in asked[u] \cup {rl \in {SuperadminRole} : u \in ConfiguredAdmins}
    BY <1>1 DEF AtSignIn
<1> QED BY <1>2, <1>3

\* set_roles "replaces existing": a user whose replacements did not overlap holds every role that
\* the last one asked for and that still exists, and no other but the superadmin role that the
\* sign-ins of the configured superadministrator add.
THEOREM RolesAreAsAsked == RoleGrantsSpec => []RolesAsAsked
<1>1. HoldersInv => RolesAsAsked
    BY RowsToRoles
<1> QED BY <1>1, HoldersInit, HoldersStep, PTL DEF RoleGrantsSpec

-----------------------------------------------------------------------------
(* What the system roles follow *)

\* A synchronisation that nothing disturbed will leave the system roles what they are due.
SyncReady ==
    \A q \in RoleRequests :
        (roleReq[q].op = "sync" /\ ~roleReq[q].taken)
            => \A s \in SystemRoles : {s} \X Due(s) \subseteq grants \cup roleReq[q].new

FollowInv == RolesTyped /\ SyncReady /\ SystemRolesFollow

\* The property, row by row.
LEMMA FollowsByRows ==
    ASSUME RolesTyped
    PROVE  SystemRolesFollow <=> \A s \in followed : {s} \X Due(s) \subseteq grants
<1>1. ASSUME NEW s \in followed
      PROVE  Due(s) \subseteq {row[2] : row \in RowsOf(s, grants)}
                 <=> {s} \X Due(s) \subseteq grants
    <2>1. ASSUME Due(s) \subseteq {row[2] : row \in RowsOf(s, grants)}, NEW d \in Due(s)
          PROVE  <<s, d>> \in grants
        <3>1. PICK row \in RowsOf(s, grants) : row[2] = d
            BY <2>1
        <3>2. row = <<s, d>>
            BY <3>1 DEF RowsOf, RolesTyped, RoleGrantsTypeOK
        <3> QED BY <3>2 DEF RowsOf
    <2>2. ASSUME {s} \X Due(s) \subseteq grants, NEW d \in Due(s)
          PROVE  \E row \in RowsOf(s, grants) : row[2] = d
        <3>1. <<s, d>> \in grants
            BY <2>2
        <3> QED BY <3>1 DEF RowsOf
    <2> QED BY <2>1, <2>2
<1> QED BY <1>1 DEF SystemRolesFollow

\* What has been read to be missing completes what is there.
LEMMA MissingCompletes ==
    ASSUME NEW s \in SystemRoles
    PROVE  {s} \X Due(s) \subseteq grants \cup MissingRows
BY DEF MissingRows

\* One step keeps the system roles at what they are due.
LEMMA FollowStep ==
    ASSUME FollowInv, [RoleGrantsNext]_roleVars
    PROVE  FollowInv'
<1> USE DEF FollowInv
<1> DEFINE Follows == \A s \in followed : {s} \X Due(s) \subseteq grants
<1>0. RolesTyped' /\ Follows
    BY TypeStep, FollowsByRows
<1>f. Follows' => SystemRolesFollow'
    BY <1>0, FollowsByRows, PTL
<1> SUFFICES SyncReady' /\ Follows'
    BY <1>0, <1>f
<1>1. CASE UNCHANGED <<grants, roleReq, followed>>
    <2>1. UNCHANGED SystemRoles
        BY DEF SystemRoles
    <2> QED BY <1>0, <1>1 DEF SyncReady
<1>2. ASSUME NEW r \in RoleRequests, NEW rec \in RoleRequest, Shaped(rec), OpenRole(r, rec),
             UNCHANGED <<grants, followed>>,
             rec.op = "sync" =>
                 \A s \in SystemRoles : {s} \X Due(s) \subseteq grants \cup rec.new
      PROVE  SyncReady' /\ Follows'
    BY <1>0, <1>2, RoleOpened DEF SyncReady
<1>3. ASSUME NEW r \in RoleRequests, NEW changed, CloseRole(r, changed),
             changed # {} \/ \A s \in SystemRoles, d \in Permissions :
                                 <<s, d>> \in grants => <<s, d>> \in grants'
      PROVE  SyncReady'
    <2> SUFFICES ASSUME NEW q \in RoleRequests, roleReq'[q].op = "sync", ~roleReq'[q].taken,
                        NEW s \in SystemRoles, NEW d \in Due(s)
                 PROVE  <<s, d>> \in grants' \/ <<s, d>> \in roleReq'[q].new
        BY DEF SyncReady
    <2>1. q # r
        BY <1>3, RoleClosed DEF IdleRole, Doing
    <2>2. /\ roleReq[q].op = "sync" /\ ~roleReq[q].taken /\ changed = {}
          /\ roleReq'[q].new = roleReq[q].new
        BY <1>3, <2>1, RoleClosed
    <2>3. <<s, d>> \in grants \cup roleReq[q].new
        BY <2>2 DEF SyncReady
    <2>4. d \in Permissions
        BY DuePermissions
    <2> QED BY <1>3, <2>2, <2>3, <2>4
<1>4. ASSUME NEW c \in CustomRoles, NEW P \in AskedPermissions, CreateRole(c, P)
      PROVE  SyncReady' /\ Follows'
    BY <1>0, <1>4 DEF CreateRole, SyncReady
<1>5. ASSUME NEW r \in RoleRequests, NEW u \in Holders, NEW R \in AskedRoles,
             SetRolesBegin(r, u, R)
      PROVE  SyncReady' /\ Follows'
    BY <1>2, <1>5, SetRolesTyped, Begins DEF SetRolesBegin, SetRolesRecord, Doing
<1>6. ASSUME NEW r \in RoleRequests, NEW s \in Roles, NEW P \in AskedPermissions,
             SetPermissionsBegin(r, s, P)
      PROVE  SyncReady' /\ Follows'
    BY <1>2, <1>6, SetPermissionsTyped, Begins
       DEF SetPermissionsBegin, SetPermissionsRecord, Doing
<1>7. ASSUME NEW r \in RoleRequests, NEW c \in CustomRoles, DeleteRoleBegin(r, c)
      PROVE  SyncReady' /\ Follows'
    BY <1>2, <1>7, DeleteRoleTyped, Begins DEF DeleteRoleBegin, DeleteRecord, Doing
<1>8. ASSUME NEW r \in RoleRequests, SyncBegin(r) PROVE SyncReady' /\ Follows'
    <2>1. \A s \in SystemRoles : {s} \X Due(s) \subseteq grants \cup SyncRecord.new
        BY MissingCompletes DEF SyncRecord, Doing
    <2> QED BY <1>2, <1>8, <2>1, SyncRolesTyped, Begins DEF SyncBegin
<1>9. ASSUME NEW r \in RoleRequests, SetRolesCommit(r) PROVE SyncReady' /\ Follows'
    BY <1>0, <1>3, <1>9 DEF SetRolesCommit
<1>10. ASSUME NEW r \in RoleRequests, GrantsCommit(r), roleReq[r].op = "setPermissions"
       PROVE  SyncReady' /\ Follows'
    <2> DEFINE v == roleReq[r].subject
    <2>1. /\ CloseRole(r, {v}) /\ followed' = followed \ {v}
          /\ grants' = (grants \ roleReq[r].gone) \cup roleReq[r].new
        BY <1>10 DEF GrantsCommit, Replaced
    <2>2. roleReq[r].gone \subseteq {v} \X Permissions
        BY <1>10, RoleRequestTyped DEF Shaped
    <2>3. SyncReady'
        BY <1>3, <2>1
    <2>4. Follows'
        BY <1>0, <2>1, <2>2
    <2> QED BY <2>3, <2>4
<1>11. ASSUME NEW r \in RoleRequests, GrantsCommit(r), roleReq[r].op = "sync"
       PROVE  SyncReady' /\ Follows'
    <2>1. roleReq[r].gone = {}
        BY <1>11, RoleRequestTyped DEF Shaped
    <2>2. /\ CloseRole(r, {})
          /\ followed' = IF roleReq[r].taken THEN followed ELSE SystemRoles
          /\ grants' = grants \cup roleReq[r].new
        BY <1>11, <2>1 DEF GrantsCommit, Replaced
    <2>3. SyncReady'
        BY <1>3, <2>2
    <2>4. CASE roleReq[r].taken
        <3>1. followed' = followed
            BY <2>2, <2>4
        <3>2. grants \subseteq grants'
            BY <2>2
        <3>3. \A s \in followed : {s} \X Due(s) \subseteq grants'
            BY <1>0, <3>2
        <3> QED BY <2>3, <3>1, <3>3
    <2>5. CASE ~roleReq[r].taken
        BY <1>11, <2>2, <2>5 DEF SyncReady
    <2> QED BY <2>3, <2>4, <2>5, <2>2
<1>12. ASSUME NEW r \in RoleRequests, DeleteRoleCommit(r) PROVE SyncReady' /\ Follows'
    <2> DEFINE c == roleReq[r].subject
    <2>1. /\ CloseRole(r, {}) /\ followed' = followed
          /\ grants' = grants \ RowsOf(c, grants)
        BY <1>12 DEF DeleteRoleCommit
    <2>2. c \notin SystemRoles
        <3>1. c \in CustomRoles
            BY <1>12, RoleRequestTyped DEF DeleteRoleCommit, Shaped
        <3> QED BY <3>1, RoleAssumptions DEF SystemRoles
    <2>3. \A s \in SystemRoles, d \in Permissions : <<s, d>> \in grants => <<s, d>> \in grants'
        BY <2>1, <2>2 DEF RowsOf
    <2>4. SyncReady'
        BY <1>3, <2>1, <2>3
    <2>5. Follows'
        BY <1>0, <2>1, <2>3, DuePermissions DEF RolesTyped, RoleGrantsTypeOK
    <2> QED BY <2>4, <2>5
<1>13. ASSUME NEW r \in RoleRequests, RoleRollback(r) PROVE SyncReady' /\ Follows'
    BY <1>0, <1>13 DEF RoleRollback, SyncReady, IdleRole, Doing, RolesTyped, RoleGrantsTypeOK
<1>14. ASSUME NEW r \in RoleRequests, NEW u \in Holders, SignInBegin(r, u)
       PROVE  SyncReady' /\ Follows'
    <2>1. /\ u \in ConfiguredAdmins /\ OpenRole(r, SignInRecord(u))
          /\ UNCHANGED <<grants, followed>>
        BY <1>14, Begins DEF SignInBegin
    <2> QED BY <1>2, <2>1, SignInTyped DEF SignInRecord, Doing
<1>15. ASSUME NEW r \in RoleRequests, SignInCommit(r) PROVE SyncReady' /\ Follows'
    <2>1. CloseRole(r, {}) /\ UNCHANGED <<grants, followed>>
        BY <1>15 DEF SignInCommit
    <2> QED BY <1>0, <1>3, <2>1
<1> QED BY <1>1, <1>4, <1>5, <1>6, <1>7, <1>8, <1>9, <1>10, <1>11, <1>12, <1>13, <1>14, <1>15
        DEF RoleGrantsNext, roleVars, GrantsCommit

\* At the beginning no role follows anything.
LEMMA FollowInit == RoleGrantsInit => FollowInv
BY TypeInit DEF RoleGrantsInit, FollowInv, SyncReady, SystemRolesFollow, IdleRole, Doing

\* permission_sync_service: from the first start on a system role has what it is due, until a
\* request replaces its permissions, however many processes start at once.
THEOREM SystemRolesDoFollow == RoleGrantsSpec => []SystemRolesFollow
<1>1. FollowInv => SystemRolesFollow
    BY DEF FollowInv
<1> QED BY <1>1, FollowInit, FollowStep, PTL DEF RoleGrantsSpec

-----------------------------------------------------------------------------
(***************************************************************************)
(* Proofs about Notifications, for any rules, senders and event types: the *)
(* types, that nothing expires in silence, and that a message is repeated  *)
(* only after a lost answer.                                               *)
(***************************************************************************)

-----------------------------------------------------------------------------
(* The inductive invariant *)

\* Something in the list of calls is the announcement of the expiry of k.
Coming(k, calls) == \E i \in 1 .. Len(calls) : calls[i].about = k

\* A sender that posts has a call and a rule to post it for; what it has counted is part of
\* its attempts.
SenderGood(row) ==
    /\ row \in SenderRows
    /\ row.at = "post" => row.calls # <<>>
    /\ row.attempt < SlackMaxRetries
    /\ row.lost <= row.attempt /\ row.posted <= row.lost

NoticesTyped ==
    /\ rule \in [Rules -> [event : AskedEvents \cup {NoEvent}, enabled : BOOLEAN]]
    /\ tokenAt \in SUBSET SettingKeys
    /\ item \in [Expirables -> {"current", "due", "expired", "cancelled"}]
    /\ heard \in [Expirables -> {"no", "asked", "excused"}]
    /\ sender \in [Senders -> SenderRows]
    /\ \A s \in Senders : SenderGood(sender[s])

\* Whatever a job has marked has been announced, or is still going to be.
Told(row, k, what) ==
    row.at \in {"calls", "post"} => what[k] # "no" \/ Coming(k, row.calls)

Announcing == \A s \in Senders : \A k \in sender[s].marks : Told(sender[s], k, heard)

NoticesInv == NoticesTyped /\ Announcing /\ NoSilentExpiry

-----------------------------------------------------------------------------
(* Senders *)

LEMMA SendingGood ==
    \A marks \in SUBSET Expirables, calls \in Seq(Calls) :
        /\ SenderGood(Sending("none", "idle", marks, calls))
        /\ \A doing \in {"expiring", "report", "request"} :
              /\ SenderGood(Sending(doing, "token", marks, calls))
              /\ Sending(doing, "token", marks, calls).at = "token"
              /\ Sending(doing, "token", marks, calls).marks = marks
BY DEF SenderGood, SenderRows, Sending, SlackMaxRetries

LEMMA IdleSenderGood == SenderGood(IdleSender) /\ IdleSender.at = "idle" /\ IdleSender.marks = {}
<1>1. <<>> \in Seq(Calls) /\ {} \in SUBSET Expirables
    OBVIOUS
<1>2. IdleSender.at = "idle" /\ IdleSender.marks = {}
    BY DEF IdleSender, Sending
<1>3. SenderGood(IdleSender)
    BY <1>1, SendingGood DEF IdleSender
<1> QED BY <1>2, <1>3

LEMMA SenderTyped ==
    ASSUME NEW row, SenderGood(row)
    PROVE  /\ row \in SenderRows
           /\ row.job \in {"none", "expiring", "report", "request"}
           /\ row.at \in {"idle", "token", "calls", "post"}
           /\ row.marks \subseteq Expirables /\ row.calls \in Seq(Calls)
           /\ row.rules \subseteq Rules
           /\ row.attempt \in 0 .. 3 /\ row.posted \in 0 .. 3 /\ row.lost \in 0 .. 3
           /\ row.attempt < 3 /\ row.lost <= row.attempt /\ row.posted <= row.lost
           /\ row.at = "post" => row.calls # <<>>
BY DEF SenderGood, SenderRows, SlackMaxRetries

\* A row after one more attempt, and after the last one for a rule.
WithCounts(row, a, p, l) == [row EXCEPT !.attempt = a, !.posted = p, !.lost = l]

WithMessageDone(row, left, step, calls) ==
    [row EXCEPT !.rules = left, !.attempt = 0, !.posted = 0, !.lost = 0,
                !.at = step, !.calls = calls]

LEMMA CountsTyped ==
    ASSUME NEW row \in SenderRows, NEW a \in 0 .. 3, NEW p \in 0 .. 3, NEW l \in 0 .. 3
    PROVE  LET new == WithCounts(row, a, p, l) IN
           /\ new \in SenderRows /\ new.attempt = a /\ new.posted = p /\ new.lost = l
           /\ new.at = row.at /\ new.calls = row.calls /\ new.marks = row.marks
<1> DEFINE new == WithCounts(row, a, p, l)
<1>1. new.attempt = a /\ new.posted = p /\ new.lost = l
    BY DEF SenderRows, WithCounts
<1>2. new.at = row.at /\ new.calls = row.calls /\ new.marks = row.marks
    BY DEF SenderRows, WithCounts
<1>3. new \in SenderRows
    BY DEF SenderRows, WithCounts, SlackMaxRetries
<1> QED BY <1>1, <1>2, <1>3

LEMMA MessageDoneTyped ==
    ASSUME NEW row \in SenderRows, NEW left, left \subseteq Rules,
           NEW step, step \in {"calls", "post"}, NEW calls \in Seq(Calls)
    PROVE  LET new == WithMessageDone(row, left, step, calls) IN
           /\ new \in SenderRows /\ new.attempt = 0 /\ new.posted = 0 /\ new.lost = 0
           /\ new.at = step /\ new.calls = calls /\ new.marks = row.marks
<1> DEFINE new == WithMessageDone(row, left, step, calls)
<1>1. new.attempt = 0 /\ new.posted = 0 /\ new.lost = 0
    BY DEF SenderRows, WithMessageDone
<1>2. new.at = step /\ new.calls = calls /\ new.marks = row.marks
    BY DEF SenderRows, WithMessageDone
<1>3. new \in SenderRows
    <2> DEFINE first == [row EXCEPT !.rules = left]
               second == WithCounts(first, 0, 0, 0)
    <2>1. first \in SenderRows
        BY DEF SenderRows
    <2>2. new = [second EXCEPT !.at = step, !.calls = calls]
        BY DEF WithMessageDone, WithCounts
    <2> HIDE DEF first
    <2>3. second \in SenderRows
        BY <2>1, CountsTyped
    <2> HIDE DEF second, new
    <2> QED BY <2>2, <2>3 DEF SenderRows
<1> QED BY <1>1, <1>2, <1>3

-----------------------------------------------------------------------------
(* Lists of calls *)

LEMMA PendingJoined ==
    ASSUME NEW k, NEW a \in Seq(Calls), NEW b \in Seq(Calls), Coming(k, a) \/ Coming(k, b)
    PROVE  Coming(k, a \o b)
<1>1. CASE Coming(k, a)
    <2>1. PICK i \in 1 .. Len(a) : a[i].about = k
        BY <1>1 DEF Coming
    <2>2. i \in 1 .. Len(a \o b) /\ (a \o b)[i] = a[i]
        OBVIOUS
    <2> QED BY <2>1, <2>2 DEF Coming
<1>2. CASE Coming(k, b)
    <2>1. PICK i \in 1 .. Len(b) : b[i].about = k
        BY <1>2 DEF Coming
    <2>2. Len(a) + i \in 1 .. Len(a \o b) /\ (a \o b)[Len(a) + i] = b[i]
        OBVIOUS
    <2> QED BY <2>1, <2>2 DEF Coming
<1> QED BY <1>1, <1>2

\* Without its first call a list announces what it did, but for what that call is about.
LEMMA PendingRest ==
    ASSUME NEW k, NEW calls \in Seq(Calls), calls # <<>>, Coming(k, calls)
    PROVE  Head(calls).about = k \/ Coming(k, Tail(calls))
<1>1. PICK i \in 1 .. Len(calls) : calls[i].about = k
    BY DEF Coming
<1>2. CASE i = 1
    BY <1>1, <1>2
<1>3. CASE i # 1
    <2>1. i - 1 \in 1 .. Len(Tail(calls)) /\ Tail(calls)[i - 1] = calls[i]
        BY <1>3
    <2> QED BY <1>1, <2>1 DEF Coming
<1> QED BY <1>2, <1>3

LEMMA CallTyped ==
    ASSUME NEW k \in Expirables, NEW what \in {"expired", "cancelled", "renewed", "reorder"}
    PROVE  /\ Call(ChangeEvent(k, what), "nothing") \in Calls
           /\ what = "expired" => ChangeEvent(k, what) = EndOf[k].expired
           /\ Call(ChangeEvent(k, what), k) \in Calls
BY DEF Call, Calls, Events, ChangeEvent

LEMMA AnnouncedTyped ==
    ASSUME NEW marks \in SUBSET Expirables, NEW k
    PROVE  /\ Announced(k, k \in marks) \in Seq(Calls)
           /\ k \in marks => Coming(k, Announced(k, k \in marks))
<1>1. CASE k \in marks
    <2>1. Announced(k, k \in marks) = <<Call(EndOf[k].expired, k)>>
        BY <1>1 DEF Announced
    <2>2. Call(EndOf[k].expired, k) \in Calls
        BY <1>1, CallTyped
    <2>3. Call(EndOf[k].expired, k).about = k
        BY DEF Call
    <2>4. 1 \in 1 .. Len(<<Call(EndOf[k].expired, k)>>)
        OBVIOUS
    <2> QED BY <1>1, <2>1, <2>2, <2>3, <2>4 DEF Coming
<1>2. CASE k \notin marks
    BY <1>2 DEF Announced
<1> QED BY <1>1, <1>2

\* The job announces every kind of which it marked anything.
LEMMA ExpiredCallsTell ==
    ASSUME NEW marks \in SUBSET Expirables
    PROVE  ExpiredCalls(marks) \in Seq(Calls) /\ \A k \in marks : Coming(k, ExpiredCalls(marks))
<1> DEFINE a == Announced("license", "license" \in marks)
           b == Announced("package", "package" \in marks)
           c == Announced("org", "org" \in marks)
<1>1. a \in Seq(Calls) /\ ("license" \in marks => Coming("license", a))
    BY AnnouncedTyped
<1>2. b \in Seq(Calls) /\ ("package" \in marks => Coming("package", b))
    BY AnnouncedTyped
<1>3. c \in Seq(Calls) /\ ("org" \in marks => Coming("org", c))
    BY AnnouncedTyped
<1>4. ExpiredCalls(marks) = (a \o b) \o c
    BY DEF ExpiredCalls
<1> HIDE DEF a, b, c
<1>5. a \o b \in Seq(Calls) /\ (a \o b) \o c \in Seq(Calls)
    BY <1>1, <1>2, <1>3
<1>6. \A k \in marks : k \in {"license", "package", "org"}
    BY NoticeAssumptions
<1> QED BY <1>1, <1>2, <1>3, <1>4, <1>5, <1>6, PendingJoined

LEMMA ExpiringCallsTyped ==
    ASSUME NEW groups \in Nat
    PROVE  ExpiringCalls(groups) \in Seq(Calls)
<1>1. Call(ExpiringEvent, "nothing") \in Calls
    BY DEF Call, Calls, Events
<1> QED BY <1>1 DEF ExpiringCalls

-----------------------------------------------------------------------------
(* Steps of one sender *)

\* A sender s becomes row; what was heard is not forgotten of anything marked.
LEMMA SenderMoves ==
    ASSUME NoticesInv, NEW s \in Senders, NEW row, SenderGood(row),
           sender' = [sender EXCEPT ![s] = row],
           UNCHANGED <<rule, tokenAt>>,
           item' \in [Expirables -> {"current", "due", "expired", "cancelled"}],
           heard' \in [Expirables -> {"no", "asked", "excused"}],
           \A q \in Senders \ {s} : \A k \in sender[q].marks : heard[k] # "no" => heard'[k] # "no",
           \A k \in row.marks : Told(row, k, heard'),
           NoSilentExpiry'
    PROVE  NoticesInv'
<1>1. /\ sender'[s] = row /\ \A q \in Senders \ {s} : sender'[q] = sender[q]
      /\ sender' \in [Senders -> SenderRows]
    BY DEF NoticesInv, NoticesTyped, SenderGood
<1>2. NoticesTyped'
    BY <1>1 DEF NoticesInv, NoticesTyped
<1>3. Announcing'
    <2> SUFFICES ASSUME NEW q \in Senders, NEW k \in sender'[q].marks
                 PROVE  Told(sender'[q], k, heard')
        BY DEF Announcing
    <2>1. CASE q = s
        BY <1>1, <2>1 DEF Told
    <2>2. CASE q # s
        BY <1>1, <2>2 DEF Told, NoticesInv, Announcing
    <2> QED BY <2>1, <2>2
<1> QED BY <1>2, <1>3 DEF NoticesInv

LEMMA SendersInv ==
    ASSUME NoticesInv
    PROVE  /\ item \in [Expirables -> {"current", "due", "expired", "cancelled"}]
           /\ heard \in [Expirables -> {"no", "asked", "excused"}]
           /\ NoticesTyped /\ NoSilentExpiry
           /\ \A q \in Senders :
                 /\ SenderGood(sender[q]) /\ sender[q].marks \subseteq Expirables
                 /\ \A k \in sender[q].marks : Told(sender[q], k, heard)
<1>1. \A q \in Senders : SenderGood(sender[q]) /\ sender[q].marks \subseteq Expirables
    BY SenderTyped DEF NoticesInv, NoticesTyped
<1> QED BY <1>1 DEF NoticesInv, NoticesTyped, Announcing

\* The same where neither the items nor what was heard of them change.
LEMMA SenderOnlyMoves ==
    ASSUME NoticesInv, NEW s \in Senders, NEW row, SenderGood(row),
           sender' = [sender EXCEPT ![s] = row], UNCHANGED <<rule, tokenAt, item, heard>>,
           \A k \in row.marks : Told(row, k, heard)
    PROVE  NoticesInv'
<1>1. NoSilentExpiry'
    BY SendersInv DEF NoSilentExpiry
<1>2. /\ item' \in [Expirables -> {"current", "due", "expired", "cancelled"}]
      /\ heard' \in [Expirables -> {"no", "asked", "excused"}]
      /\ \A q \in Senders \ {s} : \A k \in sender[q].marks : heard[k] # "no" => heard'[k] # "no"
      /\ \A k \in row.marks : Told(row, k, heard')
    BY SendersInv
<1> QED BY <1>1, <1>2, SenderMoves

\* Being excused forgets nothing.
LEMMA Excused ==
    ASSUME NoticesTyped, NEW K, Excuse(K)
    PROVE  /\ heard' \in [Expirables -> {"no", "asked", "excused"}]
           /\ \A k \in Expirables : (heard[k] # "no" \/ k \in K) => heard'[k] # "no"
BY DEF NoticesTyped, Excuse

LEMMA BeginExpiringKeeps ==
    ASSUME NoticesInv, NEW s \in Senders, BeginExpiring(s)
    PROVE  NoticesInv'
<1> DEFINE due == {k \in Expirables : item[k] = "due"}
           row == Sending("expiring", "token", due, <<>>)
<1>1. SenderGood(row) /\ row.at = "token" /\ row.marks = due
    <2>1. <<>> \in Seq(Calls)
        OBVIOUS
    <2> QED BY <2>1, SendingGood
<1>2. sender' = [sender EXCEPT ![s] = row] /\ UNCHANGED <<rule, tokenAt, item, heard>>
    BY DEF BeginExpiring
<1> HIDE DEF row, due
<1>3. \A k \in row.marks : Told(row, k, heard)
    BY <1>1 DEF Told
<1> QED BY <1>1, <1>2, <1>3, SenderOnlyMoves

LEMMA BeginReportKeeps ==
    ASSUME NoticesInv, NEW s \in Senders, NEW report \in DOMAIN ReportEvent, NEW n \in Reported,
           BeginReport(s, report, n)
    PROVE  NoticesInv'
<1> DEFINE sent == IF n < ReportLimit[report] THEN n ELSE ReportLimit[report]
           calls == [i \in 1 .. sent |-> Call(ReportEvent[report], "nothing")]
           row == Sending("report", "token", {}, calls)
<1>1. calls \in Seq(Calls)
    <2>1. sent \in Nat
        BY NoticeAssumptions DEF ReportLimit, ReportEvent
    <2>2. Call(ReportEvent[report], "nothing") \in Calls
        BY DEF Call, Calls, Events, ReportEvent
    <2> QED BY <2>1, <2>2
<1>2. SenderGood(row) /\ row.at = "token" /\ row.marks = {}
    BY <1>1, SendingGood
<1>3. sender' = [sender EXCEPT ![s] = row] /\ UNCHANGED <<rule, tokenAt, item, heard>>
    BY DEF BeginReport
<1> HIDE DEF row, calls, sent
<1> QED BY <1>2, <1>3, SenderOnlyMoves

LEMMA RequestKeeps ==
    ASSUME NoticesInv, NEW s \in Senders, NEW k \in Expirables,
           NEW what \in {"cancelled", "renewed", "reorder"}, Request(s, k, what)
    PROVE  NoticesInv'
<1> DEFINE calls == <<Call(ChangeEvent(k, what), "nothing")>>
           row == Sending("request", "token", {}, calls)
<1>1. calls \in Seq(Calls)
    BY CallTyped
<1>2. SenderGood(row) /\ row.at = "token" /\ row.marks = {}
    BY <1>1, SendingGood
<1>3. sender' = [sender EXCEPT ![s] = row] /\ UNCHANGED <<rule, tokenAt>>
    BY DEF Request
<1>4. /\ ~Locked(k)
      /\ \/ item' = [item EXCEPT ![k] = "current"] /\ heard' = [heard EXCEPT ![k] = "no"]
         \/ /\ UNCHANGED heard
            /\ \E now \in {item[k], "cancelled"} : item' = [item EXCEPT ![k] = now]
         \/ UNCHANGED <<item, heard>>
    BY DEF Request
<1> HIDE DEF row, calls
<1>5. /\ item' \in [Expirables -> {"current", "due", "expired", "cancelled"}]
      /\ heard' \in [Expirables -> {"no", "asked", "excused"}]
    BY <1>4 DEF NoticesInv, NoticesTyped
<1>6. \A q \in Senders : \A j \in sender[q].marks : heard[j] # "no" => heard'[j] # "no"
    <2>1. \A q \in Senders : k \notin sender[q].marks /\ sender[q].marks \subseteq Expirables
        BY <1>4, SendersInv DEF Locked
    <2> QED BY <1>4, <2>1, SendersInv
<1>7. NoSilentExpiry'
    BY <1>4 DEF NoticesInv, NoticesTyped, NoSilentExpiry
<1> QED BY <1>2, <1>3, <1>5, <1>6, <1>7, SenderMoves

LEMMA ReadTokenKeeps ==
    ASSUME NoticesInv, NEW s \in Senders, ReadToken(s)
    PROVE  NoticesInv'
<1> DEFINE old == sender[s]
<1>0. SenderGood(old) /\ old.at = "token"
    BY SendersInv DEF ReadToken
<1>3. old \in SenderRows /\ old.marks \subseteq Expirables /\ old.calls \in Seq(Calls)
    BY <1>0, SenderTyped
<1>1. CASE "slack_config" \in tokenAt
    <2>0. ExpiringGroups(old.job) \subseteq 0 .. 1
        BY DEF ExpiringGroups
    <2>1. PICK groups \in ExpiringGroups(old.job) :
            /\ sender' = [sender EXCEPT ![s] =
                  [old EXCEPT !.at = "calls",
                              !.calls = @ \o ExpiredCalls(old.marks) \o ExpiringCalls(groups)]]
            /\ UNCHANGED <<rule, tokenAt, item, heard>>
        BY <1>1 DEF ReadToken
    <2> DEFINE calls == old.calls \o ExpiredCalls(old.marks) \o ExpiringCalls(groups)
               row == [old EXCEPT !.at = "calls", !.calls = calls]
    <2>2. /\ old.calls \in Seq(Calls) /\ ExpiredCalls(old.marks) \in Seq(Calls)
          /\ ExpiringCalls(groups) \in Seq(Calls)
        BY <1>3, <2>0, ExpiredCallsTell, ExpiringCallsTyped
    <2>3. old.calls \o ExpiredCalls(old.marks) \in Seq(Calls) /\ calls \in Seq(Calls)
        BY <2>2
    <2>4. \A k \in old.marks : Coming(k, calls)
        BY <1>3, <2>2, <2>3, ExpiredCallsTell, PendingJoined
    <2>5. sender' = [sender EXCEPT ![s] = row]
        BY <2>1
    <2> HIDE DEF calls
    <2>6. SenderGood(row) /\ row.marks = old.marks /\ row.calls = calls
        BY <1>0, <1>3, <2>3 DEF SenderGood, SenderRows, SlackMaxRetries
    <2> HIDE DEF row
    <2>7. \A k \in row.marks : Told(row, k, heard)
        BY <2>4, <2>6 DEF Told
    <2> QED BY <2>1, <2>5, <2>6, <2>7, SenderOnlyMoves
<1>2. CASE "slack_config" \notin tokenAt
    <2> DEFINE row == [old EXCEPT !.at = "calls", !.calls = <<>>]
    <2>1. sender' = [sender EXCEPT ![s] = row] /\ Excuse(old.marks)
          /\ UNCHANGED <<rule, tokenAt, item>>
        BY <1>2 DEF ReadToken
    <2>2. SenderGood(row) /\ row.marks = old.marks
        <3>1. <<>> \in Seq(Calls)
            OBVIOUS
        <3> QED BY <1>0, <1>3, <3>1 DEF SenderGood, SenderRows, SlackMaxRetries
    <2> HIDE DEF row
    <2>3. /\ heard' \in [Expirables -> {"no", "asked", "excused"}]
          /\ \A k \in Expirables : (heard[k] # "no" \/ k \in old.marks) => heard'[k] # "no"
        BY <2>1, SendersInv, Excused
    <2>4. \A k \in row.marks : Told(row, k, heard')
        BY <1>3, <2>2, <2>3 DEF Told
    <2>5. NoSilentExpiry'
        BY <2>1, <2>3, SendersInv DEF NoSilentExpiry
    <2>6. /\ item' \in [Expirables -> {"current", "due", "expired", "cancelled"}]
          /\ \A q \in Senders : \A k \in sender[q].marks : heard[k] # "no" => heard'[k] # "no"
        BY <2>1, <2>3, SendersInv
    <2> QED BY <2>1, <2>2, <2>3, <2>4, <2>5, <2>6, SenderMoves
<1> QED BY <1>1, <1>2

\* The sender is done with the first of its calls, about which something was heard.
LEMMA CallDone ==
    ASSUME NoticesInv, NEW s \in Senders, NEW row, SenderGood(row), sender[s].calls # <<>>,
           sender[s].at \in {"calls", "post"},
           row.marks = sender[s].marks, row.calls = Tail(sender[s].calls),
           NEW k \in row.marks,
           heard[k] # "no" => heard'[k] # "no",
           Current(s).about = k => heard'[k] # "no"
    PROVE  Told(row, k, heard')
<1>1. sender[s].calls \in Seq(Calls)
    BY SendersInv, SenderTyped
<1>2. heard[k] # "no" \/ Coming(k, sender[s].calls)
    BY SendersInv DEF Told
<1>3. CASE heard[k] # "no"
    BY <1>3 DEF Told
<1>4. CASE Coming(k, sender[s].calls)
    <2>1. Head(sender[s].calls).about = k \/ Coming(k, Tail(sender[s].calls))
        BY <1>1, <1>4, PendingRest
    <2> QED BY <2>1 DEF Told, Current
<1> QED BY <1>2, <1>3, <1>4

LEMMA StartCallKeeps ==
    ASSUME NoticesInv, NEW s \in Senders, StartCall(s)
    PROVE  NoticesInv'
<1> DEFINE old == sender[s]
           found == RulesFor(Current(s).event)
<1>0. SenderGood(old) /\ old.at = "calls" /\ old.calls # <<>> /\ UNCHANGED <<rule, tokenAt, item>>
    BY SendersInv DEF StartCall
<1>3. old \in SenderRows /\ old.marks \subseteq Expirables /\ old.calls \in Seq(Calls)
    BY <1>0, SenderTyped
<1>4. /\ item' \in [Expirables -> {"current", "due", "expired", "cancelled"}]
      /\ \A q \in Senders : sender[q].marks \subseteq Expirables
    BY <1>0, SendersInv
<1>1. CASE found = {}
    <2> DEFINE row == [old EXCEPT !.calls = Tail(@)]
    <2>1. sender' = [sender EXCEPT ![s] = row] /\ Excuse({Current(s).about})
        BY <1>1 DEF StartCall
    <2>2. SenderGood(row) /\ row.marks = old.marks /\ row.calls = Tail(old.calls)
        <3>1. Tail(old.calls) \in Seq(Calls)
            BY <1>0, <1>3
        <3> QED BY <1>0, <1>3, <3>1 DEF SenderGood, SenderRows, SlackMaxRetries
    <2> HIDE DEF row
    <2>3. /\ heard' \in [Expirables -> {"no", "asked", "excused"}]
          /\ \A k \in Expirables :
                (heard[k] # "no" \/ k \in {Current(s).about}) => heard'[k] # "no"
        BY <2>1, SendersInv, Excused
    <2>4. \A k \in row.marks : Told(row, k, heard')
        BY <1>0, <1>3, <2>2, <2>3, CallDone
    <2>5. NoSilentExpiry'
        BY <1>0, <2>3, SendersInv DEF NoSilentExpiry
    <2> QED BY <1>0, <1>4, <2>1, <2>2, <2>3, <2>4, <2>5, SenderMoves
<1>2. CASE found # {}
    <2> DEFINE row == [old EXCEPT !.at = "post", !.rules = found]
    <2>1. sender' = [sender EXCEPT ![s] = row] /\ UNCHANGED heard
        BY <1>2 DEF StartCall
    <2>2. SenderGood(row) /\ row.marks = old.marks /\ row.calls = old.calls
        <3>1. found \subseteq Rules
            BY DEF RulesFor
        <3> HIDE DEF found
        <3> QED BY <1>0, <1>3, <3>1 DEF SenderGood, SenderRows, SlackMaxRetries
    <2> HIDE DEF row
    <2>3. \A k \in row.marks : Told(row, k, heard)
        BY <1>0, <2>2, SendersInv DEF Told
    <2> QED BY <1>0, <2>1, <2>2, <2>3, SenderOnlyMoves
<1> QED BY <1>1, <1>2

LEMMA PostKeeps ==
    ASSUME NoticesInv, NEW s \in Senders, Post(s)
    PROVE  NoticesInv'
<1> DEFINE old == sender[s]
           attempt == old.attempt + 1
<1>0. SenderGood(old) /\ old.at = "post" /\ UNCHANGED <<rule, tokenAt, item>>
    BY SendersInv DEF Post
<1>1. /\ old.calls # <<>> /\ old.calls \in Seq(Calls)
      /\ old \in SenderRows /\ old.marks \subseteq Expirables
      /\ old.attempt \in 0 .. 3 /\ old.posted \in 0 .. 3 /\ old.lost \in 0 .. 3
      /\ old.lost <= old.attempt /\ old.posted <= old.lost
    BY <1>0, SenderTyped
<1>2. /\ item' \in [Expirables -> {"current", "due", "expired", "cancelled"}]
      /\ \A q \in Senders : sender[q].marks \subseteq Expirables
    BY <1>0, SendersInv
<1>3. PICK o \in PostOutcomes, x \in old.rules :
        sender' = [sender EXCEPT ![s] =
            IF TriesAgain(o.answer, attempt)
            THEN [old EXCEPT !.attempt = attempt,
                             !.posted = @ + (IF o.delivered THEN 1 ELSE 0),
                             !.lost = @ + (IF o.delivered /\ o.answer # "ok" THEN 1 ELSE 0)]
            ELSE AfterMessage(old, x)]
    BY DEF Post
<1>4. /\ heard' \in [Expirables -> {"no", "asked", "excused"}]
      /\ \A k \in Expirables :
            (heard[k] # "no" \/ Current(s).about = k) => heard'[k] # "no"
    BY SendersInv DEF Post
<1>5. NoSilentExpiry'
    BY <1>0, <1>4, SendersInv DEF NoSilentExpiry
<1>6. CASE TriesAgain(o.answer, attempt)
    <2> DEFINE again == IF o.delivered THEN 1 ELSE 0
               unheard == IF o.delivered /\ o.answer # "ok" THEN 1 ELSE 0
               row == [old EXCEPT !.attempt = attempt, !.posted = @ + again, !.lost = @ + unheard]
    <2>1. sender' = [sender EXCEPT ![s] = row]
        BY <1>3, <1>6
    <2>2. o.answer # "ok" /\ attempt < 3
        BY <1>6 DEF TriesAgain, SlackMaxRetries
    <2>3. again \in {0, 1} /\ unheard = again
        BY <2>2
    <2> DEFINE posted == old.posted + again
               lost == old.lost + unheard
    <2> HIDE DEF again, unheard
    <2>4. attempt \in 0 .. 3 /\ posted \in 0 .. 3 /\ lost \in 0 .. 3
          /\ lost <= attempt /\ posted <= lost
        BY <1>1, <2>2, <2>3
    <2>7. row = WithCounts(old, attempt, posted, lost)
        BY DEF WithCounts
    <2> HIDE DEF posted, lost, row, attempt
    <2>8. SenderGood(row) /\ row.marks = old.marks /\ row.calls = old.calls
        <3>1. /\ row \in SenderRows /\ row.attempt = attempt /\ row.posted = posted /\ row.lost = lost
              /\ row.at = old.at /\ row.calls = old.calls /\ row.marks = old.marks
            BY <1>1, <2>4, <2>7, CountsTyped
        <3>2. attempt < 3
            BY <2>2
        <3> QED BY <1>1, <2>4, <3>1, <3>2 DEF SenderGood, SlackMaxRetries
    <2>5. \A k \in row.marks : Told(row, k, heard')
        BY <1>0, <1>1, <1>4, <2>8, SendersInv DEF Told
    <2> QED BY <1>0, <1>2, <1>4, <1>5, <2>1, <2>8, <2>5, SenderMoves
<1>7. CASE ~TriesAgain(o.answer, attempt)
    <2> DEFINE row == AfterMessage(old, x)
    <2>1. sender' = [sender EXCEPT ![s] = row]
        BY <1>3, <1>7
    <2>2. CASE old.rules \ {x} = {}
        <3> DEFINE rest == Tail(old.calls)
        <3>1. row = WithMessageDone(old, old.rules \ {x}, "calls", rest)
            BY <2>2 DEF AfterMessage, WithMessageDone
        <3>2. rest \in Seq(Calls)
            BY <1>1
        <3> HIDE DEF row, rest
        <3>3. SenderGood(row) /\ row.marks = old.marks /\ row.calls = rest
            <4>1. old.rules \ {x} \subseteq Rules
                BY <2>2
            <4>2. /\ row \in SenderRows /\ row.attempt = 0 /\ row.posted = 0 /\ row.lost = 0
                  /\ row.at = "calls" /\ row.calls = rest /\ row.marks = old.marks
                BY <1>1, <3>1, <3>2, <4>1, MessageDoneTyped
            <4> QED BY <4>2 DEF SenderGood, SlackMaxRetries
        <3>4. \A k \in row.marks : Told(row, k, heard')
            BY <1>0, <1>1, <1>4, <3>3, CallDone DEF rest
        <3> QED BY <1>0, <1>2, <1>4, <1>5, <2>1, <3>3, <3>4, SenderMoves
    <2>3. CASE old.rules \ {x} # {}
        <3>0. old.rules \ {x} \subseteq Rules
            BY <1>0, SenderTyped
        <3>1. row = WithMessageDone(old, old.rules \ {x}, "post", old.calls)
            BY <2>3 DEF AfterMessage, WithMessageDone
        <3> HIDE DEF row
        <3>2. SenderGood(row) /\ row.marks = old.marks /\ row.calls = old.calls
            <4>1. /\ row \in SenderRows /\ row.attempt = 0 /\ row.posted = 0 /\ row.lost = 0
                  /\ row.at = "post" /\ row.calls = old.calls /\ row.marks = old.marks
                BY <1>1, <3>0, <3>1, MessageDoneTyped
            <4> QED BY <1>1, <4>1 DEF SenderGood, SlackMaxRetries
        <3>3. \A k \in row.marks : Told(row, k, heard')
            BY <1>0, <1>1, <1>4, <3>2, SendersInv DEF Told
        <3> QED BY <1>0, <1>2, <1>4, <1>5, <2>1, <3>2, <3>3, SenderMoves
    <2> QED BY <2>2, <2>3
<1> QED BY <1>6, <1>7

LEMMA FinishKeeps ==
    ASSUME NoticesInv, NEW s \in Senders, Finish(s)
    PROVE  NoticesInv'
<1>1. /\ sender' = [sender EXCEPT ![s] = IdleSender] /\ UNCHANGED <<rule, tokenAt, heard>>
      /\ item' = [k \in Expirables |-> IF k \in sender[s].marks THEN "expired" ELSE item[k]]
    BY DEF Finish
<1>2. \A k \in sender[s].marks : heard[k] # "no"
    <2>1. sender[s].at = "calls" /\ sender[s].calls = <<>>
        BY DEF Finish
    <2>2. \A k : ~Coming(k, <<>>)
        BY DEF Coming
    <2> QED BY <2>1, <2>2 DEF NoticesInv, Announcing, Told
<1>3. item' \in [Expirables -> {"current", "due", "expired", "cancelled"}]
    BY <1>1 DEF NoticesInv, NoticesTyped
<1>4. NoSilentExpiry'
    BY <1>1, <1>2 DEF NoticesInv, NoSilentExpiry
<1> QED BY <1>1, <1>3, <1>4, IdleSenderGood, SenderMoves DEF NoticesInv, NoticesTyped

LEMMA FailKeeps ==
    ASSUME NoticesInv, NEW s \in Senders, Fail(s)
    PROVE  NoticesInv'
<1>1. sender' = [sender EXCEPT ![s] = IdleSender] /\ UNCHANGED <<rule, tokenAt, item, heard>>
    BY DEF Fail
<1>2. NoSilentExpiry'
    BY <1>1 DEF NoticesInv, NoSilentExpiry
<1> QED BY <1>1, <1>2, IdleSenderGood, SenderMoves DEF NoticesInv, NoticesTyped

LEMMA SendKeeps ==
    ASSUME NoticesInv, NEW s \in Senders, SendNext(s)
    PROVE  NoticesInv'
BY BeginExpiringKeeps, BeginReportKeeps, RequestKeeps, ReadTokenKeeps, StartCallKeeps, PostKeeps,
   FinishKeeps, FailKeeps DEF SendNext

-----------------------------------------------------------------------------
(* The other steps *)

\* Administrators change rules and settings, which no part of the argument depends on.
LEMMA AdminKeeps ==
    ASSUME NoticesInv, AdminNext
    PROVE  NoticesInv'
<1>1. UNCHANGED <<item, heard, sender>>
    BY DEF AdminNext, CreateRule, UpdateRule, DeleteRule, SetSetting, DeleteSetting
<1>2. rule' \in [Rules -> [event : AskedEvents \cup {NoEvent}, enabled : BOOLEAN]]
    <2>1. CASE UNCHANGED rule
        BY <2>1 DEF NoticesInv, NoticesTyped
    <2>2. ASSUME NEW x \in Rules, NEW e \in AskedEvents, CreateRule(x, e)
          PROVE  rule' \in [Rules -> [event : AskedEvents \cup {NoEvent}, enabled : BOOLEAN]]
        BY <2>2 DEF NoticesInv, NoticesTyped, CreateRule
    <2>3. ASSUME NEW x \in Rules, DeleteRule(x)
          PROVE  rule' \in [Rules -> [event : AskedEvents \cup {NoEvent}, enabled : BOOLEAN]]
        BY <2>3 DEF NoticesInv, NoticesTyped, DeleteRule, NoRule
    <2>4. ASSUME NEW x \in Rules, NEW enabled \in BOOLEAN, UpdateRule(x, enabled)
          PROVE  rule' \in [Rules -> [event : AskedEvents \cup {NoEvent}, enabled : BOOLEAN]]
        BY <2>4 DEF NoticesInv, NoticesTyped, UpdateRule
    <2> QED BY <2>1, <2>2, <2>3, <2>4 DEF AdminNext, SetSetting, DeleteSetting
<1>3. tokenAt' \in SUBSET SettingKeys
    BY DEF NoticesInv, NoticesTyped, AdminNext, CreateRule, UpdateRule, DeleteRule, SetSetting,
           DeleteSetting
<1> QED BY <1>1, <1>2, <1>3 DEF NoticesInv, NoticesTyped, Announcing, Told, NoSilentExpiry

LEMMA ComesDueKeeps ==
    ASSUME NoticesInv, NEW k \in Expirables, ComesDue(k)
    PROVE  NoticesInv'
<1>1. item' = [item EXCEPT ![k] = "due"] /\ UNCHANGED <<rule, tokenAt, heard, sender>>
    BY DEF ComesDue
<1> QED BY <1>1 DEF NoticesInv, NoticesTyped, Announcing, Told, NoSilentExpiry

LEMMA CrashKeeps ==
    ASSUME NoticesInv, Crash
    PROVE  NoticesInv'
<1>1. sender' = [s \in Senders |-> IdleSender] /\ UNCHANGED <<rule, tokenAt, item, heard>>
    BY DEF Crash
<1>2. NoticesTyped'
    BY <1>1, IdleSenderGood DEF NoticesInv, NoticesTyped, SenderGood
<1>3. Announcing'
    BY <1>1, IdleSenderGood DEF Announcing
<1> QED BY <1>1, <1>2, <1>3 DEF NoticesInv, NoSilentExpiry

LEMMA NoticesStep == NoticesInv /\ [NoticesNext]_noticeVars => NoticesInv'
<1> SUFFICES ASSUME NoticesInv, [NoticesNext]_noticeVars
             PROVE  NoticesInv'
    OBVIOUS
<1>1. CASE UNCHANGED noticeVars
    BY <1>1 DEF noticeVars, NoticesInv, NoticesTyped, Announcing, Told, NoSilentExpiry
<1>2. CASE NoticesNext
    BY <1>2, AdminKeeps, ComesDueKeeps, SendKeeps, CrashKeeps DEF NoticesNext
<1> QED BY <1>1, <1>2

LEMMA NoticesStart == NoticesInit => NoticesInv
<1> SUFFICES ASSUME NoticesInit
             PROVE  NoticesInv
    OBVIOUS
<1>1. NoticesTyped
    BY IdleSenderGood DEF NoticesInit, NoticesTyped, SenderGood, NoRule
<1>2. Announcing
    BY IdleSenderGood DEF NoticesInit, Announcing
<1> QED BY <1>1, <1>2 DEF NoticesInit, NoticesInv, NoSilentExpiry

-----------------------------------------------------------------------------
\* Rules, settings, items and senders are well formed in every reachable state.
THEOREM NoticeTypes == NoticesSpec => []NoticesTypeOK
<1>1. NoticesInv => NoticesTypeOK
    BY DEF NoticesInv, NoticesTyped, NoticesTypeOK
<1> QED BY <1>1, NoticesStart, NoticesStep, PTL DEF NoticesSpec

(* Nothing expires in silence: check_expiring_licenses_job commits its     *)
(* marks only after an announcement of each has been posted or excused by  *)
(* a missing token or rule, however jobs and requests overlap and fail.    *)
THEOREM ExpiriesAnnounced == NoticesSpec => []NoSilentExpiry
<1>1. NoticesInv => NoSilentExpiry
    BY DEF NoticesInv
<1> QED BY <1>1, NoticesStart, NoticesStep, PTL DEF NoticesSpec

(* _send_slack_message repeats a message that has been delivered only when *)
(* the answer to the earlier post was lost.                                *)
THEOREM RepeatsFollowLostAnswers == NoticesSpec => []RepeatsOnlyAfterLostAnswers
<1>1. NoticesInv => RepeatsOnlyAfterLostAnswers
    BY DEF NoticesInv, NoticesTyped, SenderGood, RepeatsOnlyAfterLostAnswers
<1> QED BY <1>1, NoticesStart, NoticesStep, PTL DEF NoticesSpec

-----------------------------------------------------------------------------

-----------------------------------------------------------------------------
(* Types *)

\* An execution whose counters have no bound yet.
Counting ==
    [phase: {"idle", "reading", "rows", "commit", "strict", "clean"}, file: CsvFiles \cup {<<>>},
     strict: BOOLEAN, known: SUBSET Keys, was: SUBSET Keys, done: Nat,
     made: SUBSET Keys, skipped: Nat, failed: Nat]

LEMMA IdleImportTyped == IdleImport \in Counting /\ IdleImport.phase = "idle"
BY DEF IdleImport, Counting

LEMMA FileRows ==
    ASSUME NEW csv \in CsvFiles
    PROVE  /\ Len(csv) \in Nat /\ DOMAIN csv = 1 .. Len(csv)
           /\ \A i \in 1 .. Len(csv) : csv[i] \in Row
BY ImportAssumptions

\* The three things that the loop makes of a row.
AfterRow(q) ==
    [q EXCEPT !.done = @ + 1, !.phase = IF q.done + 1 = Len(q.file) THEN "commit" ELSE "rows"]
Raised(q, stops) ==
    [AfterRow(q) EXCEPT !.failed = @ + 1, !.phase = IF stops THEN "strict" ELSE @]
SkippedRow(q) == [AfterRow(q) EXCEPT !.skipped = @ + 1]
MadeRow(q, key) == [AfterRow(q) EXCEPT !.made = @ \cup {key}, !.known = @ \cup {key}]

PhaseAfter(q) == IF q.done + 1 = Len(q.file) THEN "commit" ELSE "rows"

LEMMA AfterRowTyped ==
    ASSUME NEW q \in Counting
    PROVE  /\ AfterRow(q) \in Counting /\ AfterRow(q).done = q.done + 1
           /\ AfterRow(q).phase = PhaseAfter(q) /\ AfterRow(q).file = q.file
           /\ AfterRow(q).strict = q.strict /\ AfterRow(q).known = q.known
           /\ AfterRow(q).was = q.was /\ AfterRow(q).made = q.made
           /\ AfterRow(q).skipped = q.skipped /\ AfterRow(q).failed = q.failed
<1>1. PICK phase \in {"commit", "rows"} : phase = PhaseAfter(q)
    BY DEF PhaseAfter
<1>2. AfterRow(q) = [q EXCEPT !.done = q.done + 1, !.phase = phase]
    BY <1>1 DEF AfterRow, PhaseAfter
<1>3. q.done + 1 \in Nat
    BY DEF Counting
<1>4. AfterRow(q) \in Counting
    BY <1>2, <1>3 DEF Counting
<1> QED BY <1>1, <1>2, <1>4 DEF Counting

LEMMA RaisedTyped ==
    ASSUME NEW q \in Counting, NEW stops \in BOOLEAN
    PROVE  /\ Raised(q, stops) \in Counting /\ Raised(q, stops).done = q.done + 1
           /\ Raised(q, stops).phase = (IF stops THEN "strict" ELSE PhaseAfter(q))
           /\ Raised(q, stops).file = q.file
           /\ Raised(q, stops).strict = q.strict /\ Raised(q, stops).known = q.known
           /\ Raised(q, stops).was = q.was /\ Raised(q, stops).made = q.made
           /\ Raised(q, stops).skipped = q.skipped /\ Raised(q, stops).failed = q.failed + 1
<1>1. PICK a \in Counting : a = AfterRow(q)
    BY AfterRowTyped
<1>2. PICK phase \in {"commit", "rows", "strict"} :
         phase = (IF stops THEN "strict" ELSE PhaseAfter(q))
    BY DEF PhaseAfter
<1>4. Raised(q, stops) = [a EXCEPT !.failed = a.failed + 1, !.phase = phase]
    BY <1>1, <1>2, AfterRowTyped DEF Raised
<1>5. a.failed + 1 \in Nat
    BY DEF Counting
<1>3. /\ Raised(q, stops) \in Counting /\ Raised(q, stops).done = a.done
      /\ Raised(q, stops).phase = phase
      /\ Raised(q, stops).file = a.file
      /\ Raised(q, stops).strict = a.strict /\ Raised(q, stops).known = a.known
      /\ Raised(q, stops).was = a.was /\ Raised(q, stops).made = a.made
      /\ Raised(q, stops).skipped = a.skipped /\ Raised(q, stops).failed = a.failed + 1
    BY <1>4, <1>5 DEF Counting
<1> QED BY <1>1, <1>2, <1>3, AfterRowTyped

LEMMA SkippedRowTyped ==
    ASSUME NEW q \in Counting
    PROVE  /\ SkippedRow(q) \in Counting /\ SkippedRow(q).done = q.done + 1
           /\ SkippedRow(q).phase = PhaseAfter(q) /\ SkippedRow(q).file = q.file
           /\ SkippedRow(q).strict = q.strict /\ SkippedRow(q).known = q.known
           /\ SkippedRow(q).was = q.was /\ SkippedRow(q).made = q.made
           /\ SkippedRow(q).skipped = q.skipped + 1 /\ SkippedRow(q).failed = q.failed
<1>1. PICK a \in Counting : a = AfterRow(q)
    BY AfterRowTyped
<1>2. SkippedRow(q) = [a EXCEPT !.skipped = @ + 1]
    BY <1>1 DEF SkippedRow
<1>3. /\ SkippedRow(q) \in Counting /\ SkippedRow(q).done = a.done
      /\ SkippedRow(q).phase = a.phase /\ SkippedRow(q).file = a.file
      /\ SkippedRow(q).strict = a.strict /\ SkippedRow(q).known = a.known
      /\ SkippedRow(q).was = a.was /\ SkippedRow(q).made = a.made
      /\ SkippedRow(q).skipped = a.skipped + 1 /\ SkippedRow(q).failed = a.failed
    BY <1>2 DEF Counting
<1> QED BY <1>1, <1>3, AfterRowTyped

LEMMA MadeRowTyped ==
    ASSUME NEW q \in Counting, NEW key \in Keys
    PROVE  /\ MadeRow(q, key) \in Counting /\ MadeRow(q, key).done = q.done + 1
           /\ MadeRow(q, key).phase = PhaseAfter(q) /\ MadeRow(q, key).file = q.file
           /\ MadeRow(q, key).strict = q.strict /\ MadeRow(q, key).known = q.known \cup {key}
           /\ MadeRow(q, key).was = q.was /\ MadeRow(q, key).made = q.made \cup {key}
           /\ MadeRow(q, key).skipped = q.skipped /\ MadeRow(q, key).failed = q.failed
<1>1. PICK a \in Counting : a = AfterRow(q)
    BY AfterRowTyped
<1>2. MadeRow(q, key) = [a EXCEPT !.made = a.made \cup {key}, !.known = a.known \cup {key}]
    BY <1>1 DEF MadeRow
<1>5. a.made \cup {key} \in SUBSET Keys /\ a.known \cup {key} \in SUBSET Keys
    BY DEF Counting
<1>3. /\ MadeRow(q, key) \in Counting /\ MadeRow(q, key).done = a.done
      /\ MadeRow(q, key).phase = a.phase /\ MadeRow(q, key).file = a.file
      /\ MadeRow(q, key).strict = a.strict /\ MadeRow(q, key).known = a.known \cup {key}
      /\ MadeRow(q, key).was = a.was /\ MadeRow(q, key).made = a.made \cup {key}
      /\ MadeRow(q, key).skipped = a.skipped /\ MadeRow(q, key).failed = a.failed
    BY <1>2, <1>5 DEF Counting
<1> QED BY <1>1, <1>3, AfterRowTyped

-----------------------------------------------------------------------------
(* The invariant *)

\* A file that the preview finds nothing to say about.
CleanFile(csv) ==
    IsValid(csv) /\ \A n \in DOMAIN csv : csv[n].flaw = "none" /\ ~InFileBefore(csv, n)

KeysUpTo(csv, n) == {csv[m].key : m \in 1 .. n}
CreatesUpTo(csv, n, stored) == {i \in 1 .. n : CountsAsCreate(csv, i, stored)}

\* Every row that was decided was made, skipped or failed.
RowsAccounted(q) ==
    /\ q.done \in 0 .. Len(q.file)
    /\ q.known = q.was \cup q.made /\ q.made \cap q.was = {}
    /\ q.made \subseteq KeysUpTo(q.file, q.done)
    /\ IsFiniteSet(q.made) /\ Cardinality(q.made) + q.skipped + q.failed = q.done

StrictSoFar(q) ==
    q.strict /\ q.phase # "strict" => q.failed = 0 /\ q.made = KeysUpTo(q.file, q.done) \ q.was

StoppedAtRow(q) ==
    /\ q.strict /\ q.done > 0
    /\ q.file[q.done].key = NoKeyGiven \/ q.file[q.done].flaw = "hidden"
    /\ q.made = KeysUpTo(q.file, q.done - 1) \ q.was

CleanSoFar(q) ==
    CleanFile(q.file) =>
        /\ q.phase # "strict" /\ q.failed = 0
        /\ IsFiniteSet(CreatesUpTo(q.file, q.done, q.was))
        /\ Cardinality(q.made) = Cardinality(CreatesUpTo(q.file, q.done, q.was))

Deciding(q) == q.phase \in {"rows", "commit", "strict"}

ExecutionGood(q) ==
    /\ q \in Counting
    /\ q.phase # "idle" => q.file \in CsvFiles /\ Len(q.file) \in 1 .. MaxRows
    /\ q.phase \in {"idle", "reading"} => q.done = 0 /\ q.made = {} /\ q.skipped = 0 /\ q.failed = 0
    /\ q.phase \notin {"idle", "reading"} => RowsAccounted(q)
    /\ Deciding(q) => StrictSoFar(q) /\ CleanSoFar(q)
    /\ q.phase = "rows" => q.done < Len(q.file)
    /\ q.phase = "commit" => q.done = Len(q.file)
    /\ q.phase = "strict" => StoppedAtRow(q)

JobAccounts(j) ==
    j.status = "completed" =>
        j.created + j.skipped + j.errors = j.total /\ j.created = Cardinality(j.made)

JobStrict(j) ==
    j.strict =>
        IF j.status = "completed" THEN j.errors = 0
        ELSE \E n \in DOMAIN j.file :
                /\ j.file[n].key = NoKeyGiven \/ j.file[n].flaw = "hidden"
                /\ j.made = {j.file[m].key : m \in 1 .. n - 1} \ j.was

JobForetold(j) ==
    CleanFile(j.file) => j.status = "completed" /\ j.created = WillCreate(j.file, j.was)

JobGood(j) == j \in Job /\ JobAccounts(j) /\ JobStrict(j) /\ JobForetold(j)

ImportInv ==
    /\ upload = <<>> \/ (upload \in CsvFiles /\ Len(upload) \in 1 .. MaxRows)
    /\ keyed \subseteq Keys
    /\ importJobs \in Seq(Job) /\ \A i \in 1 .. Len(importJobs) : JobGood(importJobs[i])
    /\ importReq = [r \in ImportRequests |-> importReq[r]]
    /\ \A r \in ImportRequests : ExecutionGood(importReq[r])

-----------------------------------------------------------------------------
(* One row *)

LEMMA KeysUpToNext ==
    ASSUME NEW csv, NEW n \in Nat
    PROVE  KeysUpTo(csv, n + 1) = KeysUpTo(csv, n) \cup {csv[n + 1].key}
BY DEF KeysUpTo

LEMMA CreatesUpToNext ==
    ASSUME NEW csv, NEW n \in Nat, NEW stored, IsFiniteSet(CreatesUpTo(csv, n, stored))
    PROVE  /\ IsFiniteSet(CreatesUpTo(csv, n + 1, stored))
           /\ Cardinality(CreatesUpTo(csv, n + 1, stored))
                = Cardinality(CreatesUpTo(csv, n, stored))
                    + (IF CountsAsCreate(csv, n + 1, stored) THEN 1 ELSE 0)
<1> DEFINE C == CreatesUpTo(csv, n, stored)
           D == CreatesUpTo(csv, n + 1, stored)
<1>1. n + 1 \notin C
    BY DEF CreatesUpTo
<1>2. CASE CountsAsCreate(csv, n + 1, stored)
    <2>1. D = C \cup {n + 1}
        BY <1>2 DEF CreatesUpTo
    <2> QED BY <1>1, <1>2, <2>1, FS_AddElement
<1>3. CASE ~CountsAsCreate(csv, n + 1, stored)
    <2>1. D = C
        BY <1>3 DEF CreatesUpTo
    <2>2. Cardinality(C) \in Nat
        BY FS_CardinalityType
    <2> QED BY <1>3, <2>1, <2>2
<1> QED BY <1>2, <1>3

\* A row of a clean file does not raise, and is known only if its key was there before.
LEMMA CleanRow ==
    ASSUME NEW q, ExecutionGood(q), q.phase = "rows", CleanFile(q.file)
    PROVE  LET row == q.file[q.done + 1] IN
           /\ ~RowRaises(q, row) /\ row.key \in Keys
           /\ CountsAsCreate(q.file, q.done + 1, q.was) <=> row.key \notin q.known
<1> DEFINE n == q.done + 1
           row == q.file[n]
<1>1. /\ q \in Counting /\ q.file \in CsvFiles /\ q.done \in Nat /\ q.done < Len(q.file)
      /\ q.known = q.was \cup q.made /\ q.made \subseteq KeysUpTo(q.file, q.done)
    BY DEF ExecutionGood, RowsAccounted, Counting
<1>2. /\ Len(q.file) \in Nat /\ DOMAIN q.file = 1 .. Len(q.file) /\ row \in Row
      /\ n \in 1 .. Len(q.file)
    <2>1. /\ Len(q.file) \in Nat /\ DOMAIN q.file = 1 .. Len(q.file)
          /\ \A i \in 1 .. Len(q.file) : q.file[i] \in Row
        BY <1>1, FileRows
    <2> QED BY <1>1, <2>1
<1>3. ~RowErrors(row) /\ row.flaw = "none" /\ ~InFileBefore(q.file, n)
    BY <1>2 DEF CleanFile, IsValid
<1>4. row.key \in Keys /\ ~RowRaises(q, row)
    BY <1>2, <1>3 DEF RowErrors, Row, RowRaises
<1>5. row.key \notin KeysUpTo(q.file, q.done)
    BY <1>1, <1>3 DEF InFileBefore, KeysUpTo
<1>6. row.key \notin q.known <=> row.key \notin q.was
    BY <1>1, <1>5
<1> QED BY <1>3, <1>4, <1>6 DEF CountsAsCreate

LEMMA RowKeeps ==
    ASSUME NEW q, ExecutionGood(q), q.phase = "rows", NEW next,
           LET row == q.file[q.done + 1] IN
             next = IF RowRaises(q, row) THEN Raised(q, StopsAt(q, row))
                    ELSE IF row.key \in q.known THEN SkippedRow(q)
                    ELSE MadeRow(q, row.key)
    PROVE  ExecutionGood(next)
<1> DEFINE n == q.done + 1
           row == q.file[n]
<1>1. /\ q \in Counting /\ q.file \in CsvFiles /\ Len(q.file) \in 1 .. MaxRows
      /\ q.done \in Nat /\ q.skipped \in Nat /\ q.failed \in Nat /\ q.strict \in BOOLEAN
      /\ q.done < Len(q.file) /\ RowsAccounted(q)
      /\ StrictSoFar(q) /\ CleanSoFar(q)
    BY DEF ExecutionGood, Counting, Deciding
<1>2. /\ Len(q.file) \in Nat /\ row \in Row /\ n \in 1 .. Len(q.file)
    BY <1>1, FileRows
<1>3. /\ KeysUpTo(q.file, n) = KeysUpTo(q.file, q.done) \cup {row.key}
    BY <1>1, KeysUpToNext
<1>4. PhaseAfter(q) = IF n = Len(q.file) THEN "commit" ELSE "rows"
    BY DEF PhaseAfter
<1>5. Cardinality(q.made) \in Nat
    BY <1>1, FS_CardinalityType DEF RowsAccounted
<1>6. ASSUME CleanFile(q.file)
      PROVE  /\ ~RowRaises(q, row)
             /\ IsFiniteSet(CreatesUpTo(q.file, n, q.was))
             /\ Cardinality(CreatesUpTo(q.file, n, q.was))
                  = Cardinality(q.made) + (IF row.key \in q.known THEN 0 ELSE 1)
    BY <1>1, <1>6, CleanRow, CreatesUpToNext DEF CleanSoFar
<1>7. CASE RowRaises(q, row)
    <2>1. PICK stops \in BOOLEAN : stops = StopsAt(q, row)
        BY DEF StopsAt
    <2>2. next = Raised(q, stops)
        BY <1>7, <2>1
    <2>3. stops <=> q.strict
        BY <1>7, <2>1 DEF StopsAt
    <2>4. /\ next \in Counting /\ next.done = n
          /\ next.phase = (IF stops THEN "strict" ELSE PhaseAfter(q)) /\ next.file = q.file
          /\ next.strict = q.strict /\ next.known = q.known /\ next.was = q.was
          /\ next.made = q.made /\ next.skipped = q.skipped /\ next.failed = q.failed + 1
        BY <1>1, <2>2, RaisedTyped
    <2>5. RowsAccounted(next)
        <3>1. next.done \in 0 .. Len(next.file)
            BY <1>1, <1>2, <1>3, <1>5, <2>4
        <3>2. Cardinality(next.made) + next.skipped + next.failed = next.done
            BY <1>1, <1>2, <1>3, <1>5, <2>4 DEF RowsAccounted
        <3>3. /\ next.known = next.was \cup next.made /\ next.made \cap next.was = {}
              /\ next.made \subseteq KeysUpTo(next.file, next.done) /\ IsFiniteSet(next.made)
            BY <1>1, <1>2, <1>3, <1>5, <2>4 DEF RowsAccounted
        <3> QED BY <3>1, <3>2, <3>3 DEF RowsAccounted
    <2>6. StrictSoFar(next)
        BY <2>3, <2>4 DEF StrictSoFar
    <2>7. CleanSoFar(next)
        BY <1>6, <1>7, <2>4 DEF CleanSoFar
    <2>8. ASSUME next.phase = "strict"
          PROVE  StoppedAtRow(next)
        <3>1. stops /\ q.strict
            BY <1>4, <2>3, <2>4, <2>8
        <3>2. q.made = KeysUpTo(q.file, q.done) \ q.was
            BY <1>1, <3>1 DEF StrictSoFar
        <3>3. row.key = NoKeyGiven \/ row.flaw = "hidden"
            BY <1>7 DEF RowRaises
        <3>4. next.done - 1 = q.done /\ next.done > 0
            BY <1>1, <2>4
        <3> QED BY <2>4, <3>1, <3>2, <3>3, <3>4 DEF StoppedAtRow
    <2>10. /\ next.phase \in {"rows", "commit", "strict"}
           /\ next.phase = "rows" => next.done < Len(next.file)
           /\ next.phase = "commit" => next.done = Len(next.file)
        BY <1>1, <1>2, <1>4, <2>4
    <2>11. next.file \in CsvFiles /\ Len(next.file) \in 1 .. MaxRows
        BY <1>1, <2>4
    <2>12. next.phase # "idle" /\ next.phase # "reading" /\ (next.phase = "strict" => StoppedAtRow(next))
        BY <1>4, <2>10, <2>5, <2>6, <2>7, <2>8
    <2> QED BY <2>10, <2>11, <2>12, <2>4, <2>5, <2>6, <2>7, <2>8 DEF ExecutionGood
<1>8. CASE ~RowRaises(q, row) /\ row.key \in q.known
    <2>1. next = SkippedRow(q)
        BY <1>8
    <2>2. /\ next \in Counting /\ next.done = n /\ next.phase = PhaseAfter(q) /\ next.file = q.file
          /\ next.strict = q.strict /\ next.known = q.known /\ next.was = q.was
          /\ next.made = q.made /\ next.skipped = q.skipped + 1 /\ next.failed = q.failed
        BY <1>1, <2>1, SkippedRowTyped
    <2>3. RowsAccounted(next)
        <3>1. next.done \in 0 .. Len(next.file)
            BY <1>1, <1>2, <1>3, <1>5, <2>2
        <3>2. Cardinality(next.made) + next.skipped + next.failed = next.done
            BY <1>1, <1>2, <1>3, <1>5, <2>2 DEF RowsAccounted
        <3>3. /\ next.known = next.was \cup next.made /\ next.made \cap next.was = {}
              /\ next.made \subseteq KeysUpTo(next.file, next.done) /\ IsFiniteSet(next.made)
            BY <1>1, <1>2, <1>3, <1>5, <2>2 DEF RowsAccounted
        <3> QED BY <3>1, <3>2, <3>3 DEF RowsAccounted
    <2>4. StrictSoFar(next)
        BY <1>1, <1>3, <1>8, <2>2 DEF StrictSoFar, RowsAccounted
    <2>5. CleanSoFar(next)
        BY <1>1, <1>4, <1>5, <1>6, <1>8, <2>2 DEF CleanSoFar
    <2>10. /\ next.phase \in {"rows", "commit", "strict"}
           /\ next.phase = "rows" => next.done < Len(next.file)
           /\ next.phase = "commit" => next.done = Len(next.file)
        BY <1>1, <1>2, <1>4, <2>2
    <2>11. next.file \in CsvFiles /\ Len(next.file) \in 1 .. MaxRows
        BY <1>1, <2>2
    <2>12. next.phase # "idle" /\ next.phase # "reading" /\ (next.phase = "strict" => StoppedAtRow(next))
        BY <1>4, <2>10, <2>2
    <2> QED BY <2>10, <2>11, <2>12, <2>2, <2>3, <2>4, <2>5 DEF ExecutionGood
<1>9. CASE ~RowRaises(q, row) /\ row.key \notin q.known
    <2>0. row.key \in Keys
        BY <1>2, <1>9 DEF RowRaises, Row
    <2>1. next = MadeRow(q, row.key)
        BY <1>9
    <2>2. /\ next \in Counting /\ next.done = n /\ next.phase = PhaseAfter(q) /\ next.file = q.file
          /\ next.strict = q.strict /\ next.known = q.known \cup {row.key} /\ next.was = q.was
          /\ next.made = q.made \cup {row.key} /\ next.skipped = q.skipped
          /\ next.failed = q.failed
        BY <1>1, <2>0, <2>1, MadeRowTyped
    <2>3. row.key \notin q.made /\ row.key \notin q.was
        BY <1>1, <1>9 DEF RowsAccounted
    <2>4. IsFiniteSet(next.made) /\ Cardinality(next.made) = Cardinality(q.made) + 1
        BY <1>1, <2>2, <2>3, FS_AddElement DEF RowsAccounted
    <2>5. RowsAccounted(next)
        <3>1. next.done \in 0 .. Len(next.file)
            BY <1>1, <1>2, <1>3, <1>5, <2>2, <2>3, <2>4
        <3>2. Cardinality(next.made) + next.skipped + next.failed = next.done
            <4>1. Cardinality(q.made) + q.skipped + q.failed = q.done
                BY <1>1 DEF RowsAccounted
            <4>2. Cardinality(next.made) = Cardinality(q.made) + 1
                BY <2>4
            <4> QED BY <1>1, <1>5, <2>2, <4>1, <4>2
        <3>3. /\ next.known = next.was \cup next.made /\ next.made \cap next.was = {}
              /\ next.made \subseteq KeysUpTo(next.file, next.done) /\ IsFiniteSet(next.made)
            BY <1>1, <1>2, <1>3, <1>5, <2>2, <2>3, <2>4 DEF RowsAccounted
        <3> QED BY <3>1, <3>2, <3>3 DEF RowsAccounted
    <2>6. StrictSoFar(next)
        BY <1>1, <1>3, <2>2, <2>3 DEF StrictSoFar
    <2>7. CleanSoFar(next)
        BY <1>1, <1>4, <1>6, <1>9, <2>2, <2>4 DEF CleanSoFar
    <2>10. /\ next.phase \in {"rows", "commit", "strict"}
           /\ next.phase = "rows" => next.done < Len(next.file)
           /\ next.phase = "commit" => next.done = Len(next.file)
        BY <1>1, <1>2, <1>4, <2>2
    <2>11. next.file \in CsvFiles /\ Len(next.file) \in 1 .. MaxRows
        BY <1>1, <2>2
    <2>12. next.phase # "idle" /\ next.phase # "reading" /\ (next.phase = "strict" => StoppedAtRow(next))
        BY <1>4, <2>10, <2>2
    <2> QED BY <2>10, <2>11, <2>12, <2>2, <2>5, <2>6, <2>7 DEF ExecutionGood
<1> QED BY <1>7, <1>8, <1>9

-----------------------------------------------------------------------------
(* Steps *)

LEMMA ImportStart == ImportInit => ImportInv
<1> SUFFICES ASSUME ImportInit
             PROVE  ImportInv
    OBVIOUS
<1>1. \A r \in ImportRequests : importReq[r] = IdleImport
    BY DEF ImportInit
<1>2. ExecutionGood(IdleImport)
    BY IdleImportTyped DEF IdleImport, ExecutionGood, Deciding
<1>3. importReq = [r \in ImportRequests |-> importReq[r]]
    BY <1>1 DEF ImportInit
<1>4. importJobs \in Seq(Job) /\ Len(importJobs) = 0
    BY DEF ImportInit
<1> QED BY <1>1, <1>2, <1>3, <1>4 DEF ImportInit, ImportInv

\* One execution goes on.
LEMMA ExecutionMoves ==
    ASSUME ImportInv, NEW r \in ImportRequests, NEW new, ExecutionGood(new),
           importReq' = [importReq EXCEPT ![r] = new]
    PROVE  /\ importReq' = [q \in ImportRequests |-> importReq'[q]]
           /\ \A q \in ImportRequests : ExecutionGood(importReq'[q])
<1>1. importReq = [q \in ImportRequests |-> importReq[q]]
    BY DEF ImportInv
<1>2. DOMAIN importReq = ImportRequests
    BY <1>1
<1>3. \A q \in ImportRequests : importReq'[q] = IF q = r THEN new ELSE importReq[q]
    BY <1>2
<1>4. importReq' = [q \in ImportRequests |-> importReq'[q]]
    BY <1>1
<1> QED BY <1>3, <1>4 DEF ImportInv

LEMMA IdleImportGood == ExecutionGood(IdleImport)
BY IdleImportTyped DEF IdleImport, ExecutionGood, Deciding

LEMMA ExecuteBeginKeeps ==
    ASSUME ImportInv, NEW r \in ImportRequests, NEW strict \in BOOLEAN, ExecuteBegin(r, strict)
    PROVE  ImportInv'
<1> DEFINE new == [IdleImport EXCEPT !.phase = "reading", !.file = upload, !.strict = strict]
<1>1. /\ upload # <<>> /\ importReq' = [importReq EXCEPT ![r] = new]
      /\ UNCHANGED <<upload, keyed, importJobs>>
    BY DEF ExecuteBegin
<1>2. upload \in CsvFiles /\ Len(upload) \in 1 .. MaxRows
    BY <1>1 DEF ImportInv
<1>3. /\ new \in Counting /\ new.phase = "reading" /\ new.file = upload
      /\ new.done = 0 /\ new.made = {} /\ new.skipped = 0 /\ new.failed = 0
    BY <1>2 DEF IdleImport, Counting
<1> HIDE DEF new
<1>4. ExecutionGood(new)
    BY <1>2, <1>3 DEF ExecutionGood, Deciding
<1> QED BY <1>1, <1>4, ExecutionMoves DEF ImportInv

LEMMA ReadExistingKeysKeeps ==
    ASSUME ImportInv, NEW r \in ImportRequests, ReadExistingKeys(r)
    PROVE  ImportInv'
<1> DEFINE q == importReq[r]
           new == [q EXCEPT !.phase = "rows", !.known = keyed, !.was = keyed]
<1>1. /\ q.phase = "reading" /\ importReq' = [importReq EXCEPT ![r] = new]
      /\ UNCHANGED <<upload, keyed, importJobs>>
    BY DEF ReadExistingKeys
<1>2. /\ q \in Counting /\ q.file \in CsvFiles /\ Len(q.file) \in 1 .. MaxRows
      /\ q.done = 0 /\ q.made = {} /\ q.skipped = 0 /\ q.failed = 0 /\ keyed \subseteq Keys
    BY <1>1 DEF ImportInv, ExecutionGood
<1>3. /\ new \in Counting /\ new.phase = "rows" /\ new.file = q.file
      /\ new.done = 0 /\ new.made = {} /\ new.skipped = 0 /\ new.failed = 0
      /\ new.known = keyed /\ new.was = keyed
    BY <1>2 DEF Counting
<1> HIDE DEF q, new
<1>4. Len(new.file) \in Nat /\ Len(new.file) > 0
    BY <1>2, <1>3, ImportAssumptions
<1>5. RowsAccounted(new)
    BY <1>3, <1>4, FS_EmptySet DEF RowsAccounted, KeysUpTo
<1>6. KeysUpTo(new.file, 0) = {} /\ CreatesUpTo(new.file, 0, keyed) = {}
    BY DEF KeysUpTo, CreatesUpTo
<1>7. StrictSoFar(new) /\ CleanSoFar(new)
    BY <1>3, <1>6, FS_EmptySet DEF StrictSoFar, CleanSoFar
<1>8. ExecutionGood(new)
    BY <1>2, <1>3, <1>4, <1>5, <1>7 DEF ExecutionGood
<1> QED BY <1>1, <1>8, ExecutionMoves DEF ImportInv

LEMMA ProcessRowKeeps ==
    ASSUME ImportInv, NEW r \in ImportRequests, ProcessRow(r)
    PROVE  ImportInv'
<1> DEFINE q == importReq[r]
           row == q.file[q.done + 1]
           new == IF RowRaises(q, row) THEN Raised(q, StopsAt(q, row))
                  ELSE IF row.key \in q.known THEN SkippedRow(q) ELSE MadeRow(q, row.key)
<1>1. /\ q.phase = "rows" /\ importReq' = [importReq EXCEPT ![r] = new]
      /\ UNCHANGED <<upload, keyed, importJobs>>
    BY DEF ProcessRow, Raised, SkippedRow, MadeRow, AfterRow, Remember
<1>2. ExecutionGood(q)
    BY DEF ImportInv
<1>3. ExecutionGood(new)
    BY <1>1, <1>2, RowKeeps
<1> HIDE DEF new
<1> QED BY <1>1, <1>3, ExecutionMoves DEF ImportInv

\* A job that is committed, completed or failed.
LEMMA JobTyped ==
    ASSUME NEW q, ExecutionGood(q), q.phase \in {"commit", "strict"}
    PROVE  /\ q.skipped \in 0 .. MaxRows /\ q.failed \in 0 .. MaxRows
           /\ q.done - q.skipped - q.failed \in 0 .. MaxRows
           /\ q.done - q.skipped - q.failed = Cardinality(q.made)
           /\ Len(q.file) \in 0 .. MaxRows /\ 0 \in 0 .. MaxRows
           /\ q.file \in CsvFiles /\ q.strict \in BOOLEAN /\ q.made \in SUBSET Keys
           /\ q.was \in SUBSET Keys /\ q.skipped + q.failed + Cardinality(q.made) = q.done
<1>1. /\ q \in Counting /\ q.file \in CsvFiles /\ Len(q.file) \in 1 .. MaxRows
      /\ RowsAccounted(q) /\ MaxRows \in Nat
    BY ImportAssumptions DEF ExecutionGood
<1>2. Cardinality(q.made) \in Nat
    BY <1>1, FS_CardinalityType DEF RowsAccounted
<1>3. /\ q.skipped \in Nat /\ q.failed \in Nat /\ q.done \in Nat /\ Len(q.file) \in Nat
      /\ q.done <= Len(q.file) /\ Cardinality(q.made) + q.skipped + q.failed = q.done
    BY <1>1, FileRows DEF RowsAccounted, Counting
<1>4. q.strict \in BOOLEAN /\ q.made \in SUBSET Keys /\ q.was \in SUBSET Keys
    BY <1>1 DEF Counting
<1> QED BY <1>1, <1>2, <1>3, <1>4

LEMMA CompletedJobGood ==
    ASSUME NEW q, ExecutionGood(q), q.phase = "commit"
    PROVE  JobGood(JobRecord(q, "completed", q.done - q.skipped - q.failed))
<1> DEFINE created == q.done - q.skipped - q.failed
           j == JobRecord(q, "completed", created)
<1>1. /\ j.status = "completed" /\ j.created = created /\ j.total = Len(q.file)
      /\ j.skipped = q.skipped /\ j.errors = q.failed /\ j.file = q.file
      /\ j.strict = q.strict /\ j.made = q.made /\ j.was = q.was
    BY DEF JobRecord
<1>2. /\ q.skipped \in 0 .. MaxRows /\ q.failed \in 0 .. MaxRows
      /\ created \in 0 .. MaxRows /\ created = Cardinality(q.made)
      /\ Len(q.file) \in 0 .. MaxRows /\ q.file \in CsvFiles
      /\ q.skipped + q.failed + Cardinality(q.made) = q.done
    BY JobTyped
<1>3. j \in Job
    BY <1>2, JobTyped DEF JobRecord, Job, Outcomes
<1>4. q.done = Len(q.file) /\ StrictSoFar(q) /\ CleanSoFar(q)
    BY DEF ExecutionGood, Deciding
<1> HIDE DEF j, created
<1>5. JobAccounts(j)
    BY <1>1, <1>2, <1>4 DEF JobAccounts
<1>6. JobStrict(j)
    BY <1>1, <1>4 DEF JobStrict, StrictSoFar
<1>7. JobForetold(j)
    <2>1. DOMAIN q.file = 1 .. Len(q.file)
        BY <1>2, FileRows
    <2>2. WillCreate(q.file, q.was) = Cardinality(CreatesUpTo(q.file, q.done, q.was))
        BY <1>4, <2>1 DEF WillCreate, CreatesUpTo
    <2> QED BY <1>1, <1>2, <1>4, <2>2 DEF JobForetold, CleanSoFar
<1> QED BY <1>3, <1>5, <1>6, <1>7 DEF JobGood, j, created

LEMMA FailedJobGood ==
    ASSUME NEW q, ExecutionGood(q), q.phase = "strict"
    PROVE  JobGood(JobRecord(q, "failed", 0))
<1> DEFINE j == JobRecord(q, "failed", 0)
<1>1. /\ j.status = "failed" /\ j.file = q.file /\ j.strict = q.strict
      /\ j.made = q.made /\ j.was = q.was
    BY DEF JobRecord
<1>2. j \in Job
    BY JobTyped DEF JobRecord, Job, Outcomes
<1>3. StoppedAtRow(q) /\ CleanSoFar(q) /\ RowsAccounted(q) /\ q.file \in CsvFiles
    BY DEF ExecutionGood, Deciding
<1> HIDE DEF j
<1>4. JobAccounts(j) /\ JobForetold(j)
    BY <1>1, <1>3 DEF JobAccounts, JobForetold, CleanSoFar
<1>5. JobStrict(j)
    <2>1. q.done \in DOMAIN q.file
        BY <1>3, FileRows DEF StoppedAtRow, RowsAccounted
    <2>2. q.made = {q.file[m].key : m \in 1 .. q.done - 1} \ q.was
        BY <1>3 DEF StoppedAtRow, KeysUpTo
    <2> QED BY <1>1, <1>3, <2>1, <2>2 DEF JobStrict, StoppedAtRow
<1> QED BY <1>2, <1>4, <1>5 DEF JobGood, j

LEMMA JobCommitted ==
    ASSUME ImportInv, NEW j, JobGood(j), importJobs' = Append(importJobs, j)
    PROVE  /\ importJobs' \in Seq(Job)
           /\ \A i \in 1 .. Len(importJobs') : JobGood(importJobs'[i])
<1>1. importJobs \in Seq(Job) /\ j \in Job
    BY DEF ImportInv, JobGood
<1>2. /\ importJobs' \in Seq(Job) /\ Len(importJobs') = Len(importJobs) + 1
      /\ importJobs'[Len(importJobs) + 1] = j
      /\ \A i \in 1 .. Len(importJobs) : importJobs'[i] = importJobs[i]
    BY <1>1
<1>3. ASSUME NEW i \in 1 .. Len(importJobs')
      PROVE  JobGood(importJobs'[i])
    <2>1. i \in 1 .. Len(importJobs) \/ i = Len(importJobs) + 1
        BY <1>1, <1>2
    <2> QED BY <1>2, <2>1 DEF ImportInv
<1> QED BY <1>2, <1>3

LEMMA CommitImportKeeps ==
    ASSUME ImportInv, NEW r \in ImportRequests, CommitImport(r)
    PROVE  ImportInv'
<1> DEFINE q == importReq[r]
           new == [q EXCEPT !.phase = "clean"]
           j == JobRecord(q, "completed", q.done - q.skipped - q.failed)
<1>1. /\ q.phase = "commit" /\ importReq' = [importReq EXCEPT ![r] = new]
      /\ keyed' = keyed \cup q.made /\ importJobs' = Append(importJobs, j)
      /\ UNCHANGED upload
    BY DEF CommitImport, InsertLicenses
<1>2. ExecutionGood(q) /\ q \in Counting /\ q.made \subseteq Keys
    BY DEF ImportInv, ExecutionGood, Counting
<1>3. JobGood(j)
    BY <1>1, <1>2, CompletedJobGood
<1>4. /\ new \in Counting /\ new.phase = "clean" /\ new.file = q.file /\ new.done = q.done
      /\ new.known = q.known /\ new.was = q.was /\ new.made = q.made
      /\ new.skipped = q.skipped /\ new.failed = q.failed
    BY <1>2 DEF Counting
<1> HIDE DEF new, j
<1>5. ExecutionGood(new)
    BY <1>1, <1>2, <1>4 DEF ExecutionGood, Deciding, RowsAccounted
<1>6. /\ importJobs' \in Seq(Job)
      /\ \A i \in 1 .. Len(importJobs') : JobGood(importJobs'[i])
    BY <1>1, <1>3, JobCommitted
<1>7. keyed' \subseteq Keys
    BY <1>1, <1>2 DEF ImportInv
<1> QED BY <1>1, <1>5, <1>6, <1>7, ExecutionMoves DEF ImportInv

LEMMA FailImportKeeps ==
    ASSUME ImportInv, NEW r \in ImportRequests, FailImport(r)
    PROVE  ImportInv'
<1> DEFINE q == importReq[r]
           j == JobRecord(q, "failed", 0)
<1>1. /\ q.phase = "strict" /\ importReq' = [importReq EXCEPT ![r] = IdleImport]
      /\ keyed' = keyed \cup q.made /\ importJobs' = Append(importJobs, j)
      /\ UNCHANGED upload
    BY DEF FailImport, InsertLicenses
<1>2. ExecutionGood(q) /\ q.made \subseteq Keys
    BY DEF ImportInv, ExecutionGood, Counting
<1>3. JobGood(j)
    BY <1>1, <1>2, FailedJobGood
<1> HIDE DEF j
<1>4. /\ importJobs' \in Seq(Job)
      /\ \A i \in 1 .. Len(importJobs') : JobGood(importJobs'[i])
    BY <1>1, <1>3, JobCommitted
<1>5. keyed' \subseteq Keys
    BY <1>1, <1>2 DEF ImportInv
<1> QED BY <1>1, <1>4, <1>5, IdleImportGood, ExecutionMoves DEF ImportInv

LEMMA ImportStep == ImportInv /\ [ImportNext]_importVars => ImportInv'
<1> SUFFICES ASSUME ImportInv, [ImportNext]_importVars
             PROVE  ImportInv'
    OBVIOUS
<1>1. CASE UNCHANGED importVars
    BY <1>1 DEF importVars, ImportInv
<1>2. ASSUME NEW csv \in CsvFiles, Upload(csv)
      PROVE  ImportInv'
    BY <1>2 DEF Upload, ImportInv
<1>3. ASSUME NEW r \in ImportRequests, RemoveFile(r)
      PROVE  ImportInv'
    <2>1. upload' \in {upload, <<>>}
        BY <1>3 DEF RemoveFile
    <2> QED BY <1>3, <2>1, IdleImportGood, ExecutionMoves DEF RemoveFile, ImportInv
<1>4. ASSUME NEW r \in ImportRequests, ImportStops(r)
      PROVE  ImportInv'
    BY <1>4, IdleImportGood, ExecutionMoves DEF ImportStops, ImportInv
<1>5. ASSUME NEW k \in Keys, OtherChange(k)
      PROVE  ImportInv'
    <2>1. keyed' \subseteq Keys
        BY <1>5 DEF OtherChange, ImportInv
    <2> QED BY <1>5, <2>1 DEF OtherChange, ImportInv
<1>6. CASE ImportNext
    BY <1>2, <1>3, <1>4, <1>5, <1>6, ExecuteBeginKeeps, ReadExistingKeysKeeps, ProcessRowKeeps,
       CommitImportKeeps, FailImportKeeps DEF ImportNext
<1> QED BY <1>1, <1>6

-----------------------------------------------------------------------------
(* An execution never decides more rows than MAX_IMPORT_ROWS, and its      *)
(* counts and those of the jobs stay below it.                             *)
THEOREM ImportTypes == ImportSpec => []ImportTypeOK
<1>1. ImportInv => ImportTypeOK
    <2> SUFFICES ASSUME ImportInv
                 PROVE  ImportTypeOK
        OBVIOUS
    <2>1. ASSUME NEW r \in ImportRequests
          PROVE  importReq[r] \in Execution
        <3> DEFINE q == importReq[r]
        <3>1. ExecutionGood(q) /\ q \in Counting /\ MaxRows \in Nat
            BY ImportAssumptions DEF ImportInv, ExecutionGood
        <3>2. q.done \in 0 .. MaxRows /\ q.skipped \in 0 .. MaxRows /\ q.failed \in 0 .. MaxRows
            <4>1. CASE q.phase \in {"idle", "reading"}
                BY <3>1, <4>1 DEF ExecutionGood
            <4>2. CASE q.phase \notin {"idle", "reading"}
                <5>1. RowsAccounted(q) /\ Len(q.file) \in 1 .. MaxRows
                    BY <3>1, <4>2 DEF ExecutionGood
                <5>2. Cardinality(q.made) \in Nat
                    BY <5>1, FS_CardinalityType DEF RowsAccounted
                <5>3. q.skipped \in Nat /\ q.failed \in Nat /\ q.done \in Nat
                    BY <3>1 DEF Counting
                <5>4. q.done <= Len(q.file) /\ Cardinality(q.made) + q.skipped + q.failed = q.done
                    BY <5>1 DEF RowsAccounted
                <5> QED BY <3>1, <5>1, <5>2, <5>3, <5>4
            <4> QED BY <4>1, <4>2
        <3> QED BY <3>1, <3>2 DEF Counting, Execution
    <2>2. importReq \in [ImportRequests -> Execution]
        BY <2>1 DEF ImportInv
    <2> QED BY <2>2 DEF ImportInv, ImportTypeOK
<1> QED BY <1>1, ImportStart, ImportStep, PTL DEF ImportSpec

(* _process_row counts every row once, whatever is made of it, and the     *)
(* strict loop commits exactly the rows before its first error.            *)
THEOREM ImportsAreAccounted == ImportSpec => []ImportsAccount
<1>1. ImportInv => ImportsAccount
    <2> SUFFICES ASSUME ImportInv
                 PROVE  ImportsAccount
        OBVIOUS
    <2>1. DOMAIN importJobs = 1 .. Len(importJobs)
        BY DEF ImportInv
    <2>2. \A i \in DOMAIN importJobs : JobAccounts(importJobs[i]) /\ JobStrict(importJobs[i])
        BY <2>1 DEF ImportInv, JobGood
    <2> QED BY <2>2 DEF ImportsAccount, JobsAccount, StrictStopsAtFirstError, JobAccounts, JobStrict
<1> QED BY <1>1, ImportStart, ImportStep, PTL DEF ImportSpec

(* validate_import and _process_row agree on the files they read alike:    *)
(* what the preview announces is what the import creates.                  *)
THEOREM ImportsAreForetold == ImportSpec => []PreviewForetells
<1>1. ImportInv => PreviewForetells
    <2> SUFFICES ASSUME ImportInv
                 PROVE  PreviewForetells
        OBVIOUS
    <2>1. DOMAIN importJobs = 1 .. Len(importJobs)
        BY DEF ImportInv
    <2>2. \A i \in DOMAIN importJobs : JobForetold(importJobs[i])
        BY <2>1 DEF ImportInv, JobGood
    <2> QED BY <2>2 DEF PreviewForetells, JobForetold, CleanFile
<1> QED BY <1>1, ImportStart, ImportStep, PTL DEF ImportSpec

-----------------------------------------------------------------------------

-----------------------------------------------------------------------------
(* Types *)

TasksTyped ==
    /\ task \in [BackupTasks -> Task]
    /\ \A t \in BackupTasks : /\ task[t].backup \in 0 .. written
                              /\ task[t].op = "counts" => task[t].backup > 0

\* The types, and that the numbers of the backups are those of backups written.
BackupTyped ==
    /\ config \in Config
    /\ job \in Schedules \cup {NoJob}
    /\ written \in 0 .. MaxBackups
    /\ file \subseteq 1 .. written /\ meta \subseteq 1 .. written
    /\ TasksTyped
    /\ updates \in 0 .. MaxUpdates
    /\ strayed \in BOOLEAN
    /\ torn \subseteq Stored /\ removed \subseteq Stored
    /\ lowest \in Nat

LEMMA RestingTyped ==
    /\ Resting \in Task /\ Resting.op = "none" /\ Resting.backup = 0
    /\ DefaultConfig \in Config
BY BackupAssumptions DEF Resting, Task

LEMMA MergedTyped ==
    ASSUME NEW c \in Config, NEW given \in AskedConfigs
    PROVE  /\ Merged(c, given) \in Config
           /\ ~TimesGiven(given) => SameTimes(c, Merged(c, given))
<1>1. /\ given.enabled \in BOOLEAN \cup {NotGiven} /\ given.schedule \in Schedules \cup {NotGiven}
      /\ given.retention \in (Nat \ {0}) \cup {NotGiven} /\ given.password \in {TRUE, NotGiven}
    BY BackupAssumptions
<1>2. /\ c.enabled \in BOOLEAN /\ c.schedule \in Schedules /\ c.retention \in Nat \ {0}
      /\ c.password \in BOOLEAN
    BY DEF Config
<1>3. /\ Given(given.enabled, c.enabled) \in BOOLEAN
      /\ Given(given.schedule, c.schedule) \in Schedules
      /\ Given(given.retention, c.retention) \in Nat \ {0}
      /\ Given(given.password, c.password) \in BOOLEAN
    BY <1>1, <1>2 DEF Given
<1>4. Merged(c, given) \in Config
    BY <1>3 DEF Merged, Config
<1>5. ~TimesGiven(given) => SameTimes(c, Merged(c, given))
    BY DEF TimesGiven, SameTimes, Merged, Given
<1> QED BY <1>4, <1>5

\* A task on its way through an update or a backup.
Step(t, op) == [t EXCEPT !.op = op]

LEMMA StepTyped ==
    ASSUME NEW t \in Task, NEW op \in {"none", "update", "flushed", "collect", "counts"}
    PROVE  /\ Step(t, op) \in Task /\ Step(t, op).op = op /\ Step(t, op).seen = t.seen
           /\ Step(t, op).want = t.want /\ Step(t, op).times = t.times
           /\ Step(t, op).backup = t.backup
BY DEF Step, Task

-----------------------------------------------------------------------------
(* The invariant *)

PendingRun(t) == task[t].op \in {"update", "flushed"}
Flushed(t) == task[t].op = "flushed"
BackingUp(t) == task[t].op \in {"collect", "counts"}

\* The scheduler follows the configuration that was committed last, or the one that a
\* flushed update is going to commit.
SchedulerGood ==
    /\ \A t, q \in BackupTasks : Flushed(t) /\ Flushed(q) => t = q
    /\ \A t \in BackupTasks : PendingRun(t) /\ ~task[t].times => SameTimes(task[t].seen, task[t].want)
    /\ \A t \in BackupTasks : Flushed(t) /\ task[t].times => job = JobOf(task[t].want)
    /\ (~strayed /\ \A t \in BackupTasks : Flushed(t) => ~task[t].times) => job = JobOf(config)

\* Nothing is backed up before the first configuration, and no configuration in use keeps
\* fewer backups than the lowest.
RetentionGood ==
    /\ lowest <= config.retention
    /\ \A t \in BackupTasks : BackingUp(t) => lowest <= task[t].seen.retention
    /\ \A t \in BackupTasks : PendingRun(t) => updates > 0
    /\ (updates = 0 /\ config = DefaultConfig)
           => written = 0 /\ \A t \in BackupTasks : ~BackingUp(t)

BackupsInv == BackupTyped /\ SchedulerGood /\ RetentionGood /\ StoredInPairs /\ OnlyOldBackupsGo

-----------------------------------------------------------------------------
(* Steps *)

LEMMA BackupsStart == BackupsInit => BackupsInv
<1> SUFFICES ASSUME BackupsInit
             PROVE  BackupsInv
    OBVIOUS
<1>1. BackupTyped
    <2>1. \A t \in BackupTasks : task[t] = Resting
        BY DEF BackupsInit
    <2>2. DefaultConfig.retention \in Nat
        BY RestingTyped DEF Config
    <2>3. 0 \in 0 .. MaxBackups /\ 0 \in 0 .. MaxUpdates
        BY BackupAssumptions
    <2>4. file = {} /\ meta = {} /\ torn = {} /\ removed = {}
        BY DEF BackupsInit
    <2>5. TasksTyped
        BY <2>1, RestingTyped DEF BackupsInit, TasksTyped
    <2>6. config \in Config /\ job \in Schedules \cup {NoJob} /\ lowest \in Nat
        BY <2>2, RestingTyped DEF BackupsInit
    <2>7. written \in 0 .. MaxBackups /\ updates \in 0 .. MaxUpdates /\ strayed \in BOOLEAN
        BY <2>3 DEF BackupsInit
    <2> QED BY <2>4, <2>5, <2>6, <2>7 DEF BackupTyped
<1>2. \A t \in BackupTasks : ~PendingRun(t) /\ ~Flushed(t) /\ ~BackingUp(t)
    BY RestingTyped DEF BackupsInit, PendingRun, Flushed, BackingUp
<1>3. SchedulerGood
    BY <1>2, BackupAssumptions DEF BackupsInit, SchedulerGood, JobOf
<1>4. RetentionGood
    BY <1>2, BackupAssumptions DEF BackupsInit, RetentionGood, Config
<1>5. StoredInPairs /\ OnlyOldBackupsGo
    BY DEF BackupsInit, StoredInPairs, OnlyOldBackupsGo
<1> QED BY <1>1, <1>3, <1>4, <1>5 DEF BackupsInv

LEMMA TaskSet ==
    ASSUME BackupTyped, NEW t \in BackupTasks, NEW new \in Task, Run(t, new),
           written' \in Nat, written' >= written,
           new.backup \in 0 .. written', new.op = "counts" => new.backup > 0
    PROVE  /\ task'[t] = new /\ \A q \in BackupTasks \ {t} : task'[q] = task[q]
           /\ TasksTyped'
<1>1. task \in [BackupTasks -> Task] /\ written \in Nat
    BY DEF BackupTyped, TasksTyped
<1>2. /\ task'[t] = new /\ \A q \in BackupTasks \ {t} : task'[q] = task[q]
      /\ task' \in [BackupTasks -> Task]
    BY <1>1 DEF Run
<1>3. ASSUME NEW q \in BackupTasks
      PROVE  task'[q].backup \in 0 .. written' /\ (task'[q].op = "counts" => task'[q].backup > 0)
    <2>1. CASE q = t
        BY <1>2, <2>1
    <2>2. CASE q # t
        <3>1. task[q].backup \in 0 .. written /\ (task[q].op = "counts" => task[q].backup > 0)
            BY DEF BackupTyped, TasksTyped
        <3> QED BY <1>1, <1>2, <2>2, <3>1
    <2> QED BY <2>1, <2>2
<1> QED BY <1>2, <1>3 DEF TasksTyped

\* One task goes on, the directory stays.
LEMMA TaskMoves ==
    ASSUME BackupsInv, NEW t \in BackupTasks, NEW new \in Task, Run(t, new),
           UNCHANGED directoryVars, new.backup \in 0 .. written, new.op # "counts"
    PROVE  /\ task'[t] = new /\ \A q \in BackupTasks \ {t} : task'[q] = task[q]
           /\ TasksTyped'
           /\ OnlyOldBackupsGo' <=> (\A b \in 1 .. written : b \notin file \cup removed => written - b >= lowest')
           /\ (task[t].op # "counts") => StoredInPairs'
<1>1. BackupTyped /\ written' = written /\ written \in Nat
    BY DEF BackupsInv, BackupTyped, directoryVars
<1>2. /\ task'[t] = new /\ \A q \in BackupTasks \ {t} : task'[q] = task[q]
      /\ TasksTyped'
    BY <1>1, TaskSet
<1>3. OnlyOldBackupsGo' <=> (\A b \in 1 .. written : b \notin file \cup removed => written - b >= lowest')
    BY DEF OnlyOldBackupsGo, directoryVars
<1>4. ASSUME task[t].op # "counts"
      PROVE  StoredInPairs'
    BY <1>2, <1>4 DEF BackupsInv, StoredInPairs, directoryVars
<1> QED BY <1>2, <1>3, <1>4

LEMMA UpdateBeginKeeps ==
    ASSUME BackupsInv, NEW t \in BackupTasks, NEW given \in AskedConfigs, UpdateBegin(t, given)
    PROVE  BackupsInv'
<1>0. PICK times \in BOOLEAN : times = TimesGiven(given)
    BY DEF TimesGiven
<1> DEFINE new == [Resting EXCEPT !.op = "update", !.seen = config,
                                  !.want = Merged(config, given), !.times = times]
<1>1. /\ task[t] = Resting /\ updates' = updates + 1 /\ updates < MaxUpdates /\ Run(t, new)
      /\ UNCHANGED <<config, job, strayed, lowest, directoryVars>>
    BY <1>0 DEF UpdateBegin
<1>2. /\ Merged(config, given) \in Config
      /\ ~TimesGiven(given) => SameTimes(config, Merged(config, given))
    BY MergedTyped DEF BackupsInv, BackupTyped
<1>3. config \in Config /\ TimesGiven(given) \in BOOLEAN /\ written \in Nat
    BY DEF BackupsInv, BackupTyped, TimesGiven
<1>4. /\ new \in Task /\ new.op = "update" /\ new.seen = config /\ new.want = Merged(config, given)
      /\ new.times = times /\ new.backup = 0
    BY <1>2, <1>3, RestingTyped DEF Task
<1> HIDE DEF new
<1>5. /\ task'[t] = new /\ \A q \in BackupTasks \ {t} : task'[q] = task[q]
      /\ TasksTyped'
      /\ OnlyOldBackupsGo' /\ StoredInPairs'
    BY <1>1, <1>3, <1>4, TaskMoves, RestingTyped DEF BackupsInv, OnlyOldBackupsGo
<1>6. BackupTyped'
    BY <1>1, <1>5, BackupAssumptions DEF BackupsInv, BackupTyped, directoryVars
<1>7. \A q \in BackupTasks : (Flushed(q)' <=> Flushed(q)) /\ (BackingUp(q)' <=> BackingUp(q))
    BY <1>1, <1>4, <1>5, RestingTyped DEF Flushed, BackingUp
<1>8. \A q \in BackupTasks \ {t} : PendingRun(q)' <=> PendingRun(q)
    BY <1>5 DEF PendingRun
<1>9. ~Flushed(t)
    BY <1>1, RestingTyped DEF Flushed
<1>10. SchedulerGood'
    BY <1>0, <1>1, <1>2, <1>4, <1>5, <1>7, <1>8, <1>9 DEF BackupsInv, SchedulerGood
<1>11. RetentionGood'
    BY <1>1, <1>5, <1>7, <1>8, <1>9, RestingTyped, BackupAssumptions
       DEF BackupsInv, BackupTyped, RetentionGood, BackingUp
<1> QED BY <1>5, <1>6, <1>10, <1>11 DEF BackupsInv
LEMMA UpdateFlushKeeps ==
    ASSUME BackupsInv, NEW t \in BackupTasks, UpdateFlush(t)
    PROVE  BackupsInv'
<1> DEFINE new == Step(task[t], "flushed")
<1>1. /\ task[t].op = "update" /\ \A q \in BackupTasks : ~Flushed(q) /\ Run(t, new)
      /\ job' = IF task[t].times THEN JobOf(task[t].want) ELSE job
      /\ UNCHANGED <<config, updates, strayed, lowest, directoryVars>>
    BY DEF UpdateFlush, Flushed, Step
<1>2. /\ new \in Task /\ new.op = "flushed" /\ new.seen = task[t].seen
      /\ new.want = task[t].want /\ new.times = task[t].times /\ new.backup = task[t].backup
    BY StepTyped DEF BackupsInv, BackupTyped, TasksTyped
<1> HIDE DEF new
<1>3. /\ task'[t] = new /\ \A q \in BackupTasks \ {t} : task'[q] = task[q]
      /\ TasksTyped'
      /\ OnlyOldBackupsGo' /\ StoredInPairs'
    BY <1>1, <1>2, TaskMoves DEF BackupsInv, BackupTyped, TasksTyped, OnlyOldBackupsGo
<1>4. JobOf(task[t].want) \in Schedules \cup {NoJob}
    BY DEF BackupsInv, BackupTyped, TasksTyped, Task, Config, JobOf
<1>5. BackupTyped'
    BY <1>1, <1>3, <1>4 DEF BackupsInv, BackupTyped, directoryVars
<1>6. \A q \in BackupTasks : (PendingRun(q)' <=> PendingRun(q)) /\ (BackingUp(q)' <=> BackingUp(q))
    BY <1>1, <1>2, <1>3 DEF PendingRun, BackingUp
<1>7. \A q \in BackupTasks : Flushed(q)' <=> q = t
    BY <1>1, <1>2, <1>3 DEF Flushed
<1>8. PendingRun(t)
    BY <1>1 DEF PendingRun
<1>9. SchedulerGood'
    BY <1>1, <1>2, <1>3, <1>6, <1>7, <1>8 DEF BackupsInv, SchedulerGood
<1>10. RetentionGood'
    BY <1>1, <1>2, <1>3, <1>6 DEF BackupsInv, RetentionGood, directoryVars
<1> QED BY <1>3, <1>5, <1>9, <1>10 DEF BackupsInv

\* A task comes to rest.
LEMMA TaskRests ==
    ASSUME BackupsInv, NEW t \in BackupTasks, Run(t, Resting), UNCHANGED written
    PROVE  /\ task'[t] = Resting /\ \A q \in BackupTasks \ {t} : task'[q] = task[q]
           /\ TasksTyped'
           /\ ~PendingRun(t)' /\ ~Flushed(t)' /\ ~BackingUp(t)'
           /\ \A q \in BackupTasks \ {t} : /\ PendingRun(q)' <=> PendingRun(q)
                                           /\ Flushed(q)' <=> Flushed(q)
                                           /\ BackingUp(q)' <=> BackingUp(q)
<1>1. BackupTyped /\ written \in Nat
    BY DEF BackupsInv, BackupTyped
<1>2. /\ task'[t] = Resting /\ \A q \in BackupTasks \ {t} : task'[q] = task[q]
      /\ TasksTyped'
    BY <1>1, RestingTyped, TaskSet
<1>3. ~PendingRun(t)' /\ ~Flushed(t)' /\ ~BackingUp(t)'
    BY <1>2, RestingTyped DEF PendingRun, Flushed, BackingUp
<1>4. \A q \in BackupTasks \ {t} : /\ PendingRun(q)' <=> PendingRun(q)
                                   /\ Flushed(q)' <=> Flushed(q)
                                   /\ BackingUp(q)' <=> BackingUp(q)
    BY <1>2 DEF PendingRun, Flushed, BackingUp
<1> QED BY <1>2, <1>3, <1>4

LEMMA UpdateCommitKeeps ==
    ASSUME BackupsInv, NEW t \in BackupTasks, UpdateCommit(t)
    PROVE  BackupsInv'
<1> DEFINE want == task[t].want
<1>1. /\ task[t].op = "flushed" /\ config' = want /\ Run(t, Resting)
      /\ strayed' = (~task[t].times /\ (strayed \/ ~SameTimes(config, task[t].seen)))
      /\ lowest' = IF want.retention < lowest THEN want.retention ELSE lowest
      /\ UNCHANGED <<job, updates, directoryVars>>
    BY DEF UpdateCommit
<1>2. /\ want \in Config /\ want.retention \in Nat /\ lowest \in Nat /\ task[t].seen \in Config
      /\ task[t].times \in BOOLEAN /\ config \in Config /\ strayed \in BOOLEAN
    BY DEF BackupsInv, BackupTyped, TasksTyped, Task, Config
<1>3. /\ task'[t] = Resting /\ \A q \in BackupTasks \ {t} : task'[q] = task[q]
      /\ TasksTyped'
    BY <1>1, TaskRests DEF directoryVars
<1>4. /\ ~PendingRun(t)' /\ ~Flushed(t)' /\ ~BackingUp(t)'
      /\ \A q \in BackupTasks \ {t} : /\ PendingRun(q)' <=> PendingRun(q)
                                      /\ Flushed(q)' <=> Flushed(q)
                                      /\ BackingUp(q)' <=> BackingUp(q)
    BY <1>1, TaskRests DEF directoryVars
<1>5. lowest' \in Nat /\ lowest' <= lowest /\ lowest' <= want.retention
    BY <1>1, <1>2
<1>6. strayed' \in BOOLEAN
    BY <1>1
<1>7. BackupTyped'
    BY <1>1, <1>2, <1>3, <1>5, <1>6 DEF BackupsInv, BackupTyped, directoryVars
<1>8. Flushed(t) /\ PendingRun(t) /\ ~BackingUp(t)
    BY <1>1 DEF Flushed, PendingRun, BackingUp
<1>9. \A q \in BackupTasks : ~Flushed(q)'
    BY <1>4, <1>8 DEF BackupsInv, SchedulerGood
<1>10. ~strayed' => job' = JobOf(config')
    <2>1. CASE task[t].times
        BY <1>1, <1>8, <2>1 DEF BackupsInv, SchedulerGood
    <2>2. CASE ~task[t].times
        <3> SUFFICES ASSUME ~strayed'
                     PROVE  job = JobOf(want)
            BY <1>1
        <3>1. ~strayed /\ SameTimes(config, task[t].seen)
            BY <1>1, <2>2
        <3>2. SameTimes(task[t].seen, want)
            BY <1>8, <2>2 DEF BackupsInv, SchedulerGood
        <3>3. \A q \in BackupTasks : Flushed(q) => ~task[q].times
            BY <1>8, <2>2 DEF BackupsInv, SchedulerGood
        <3>4. job = JobOf(config)
            BY <3>1, <3>3 DEF BackupsInv, SchedulerGood
        <3> QED BY <3>1, <3>2, <3>4 DEF SameTimes, JobOf
    <2> QED BY <1>2, <2>1, <2>2
<1>11. SchedulerGood'
    BY <1>3, <1>4, <1>9, <1>10 DEF BackupsInv, SchedulerGood
<1>12. RetentionGood'
    <2>1. updates' # 0 \/ config' # DefaultConfig \/ (written' = 0 /\ \A q \in BackupTasks : ~BackingUp(q)')
        BY <1>1, <1>8 DEF BackupsInv, RetentionGood
    <2> QED BY <1>1, <1>2, <1>3, <1>4, <1>5, <2>1 DEF BackupsInv, BackupTyped, TasksTyped, RetentionGood, Task, Config
<1>13. StoredInPairs'
    BY <1>1, <1>3 DEF BackupsInv, StoredInPairs, directoryVars
<1>14. OnlyOldBackupsGo'
    BY <1>1, <1>2, <1>5 DEF BackupsInv, BackupTyped, OnlyOldBackupsGo, directoryVars
<1> QED BY <1>7, <1>11, <1>12, <1>13, <1>14 DEF BackupsInv
LEMMA UpdateFailsKeeps ==
    ASSUME BackupsInv, NEW t \in BackupTasks, UpdateFails(t)
    PROVE  BackupsInv'
<1>1. /\ task[t].op \in {"update", "flushed"} /\ Run(t, Resting)
      /\ strayed' = (strayed \/ (task[t].op = "flushed" /\ task[t].times))
      /\ UNCHANGED <<config, job, updates, lowest, directoryVars>>
    BY DEF UpdateFails
<1>2. /\ task'[t] = Resting /\ \A q \in BackupTasks \ {t} : task'[q] = task[q]
      /\ TasksTyped'
    BY <1>1, TaskRests DEF directoryVars
<1>3. /\ ~PendingRun(t)' /\ ~Flushed(t)' /\ ~BackingUp(t)'
      /\ \A q \in BackupTasks \ {t} : /\ PendingRun(q)' <=> PendingRun(q)
                                      /\ Flushed(q)' <=> Flushed(q)
                                      /\ BackingUp(q)' <=> BackingUp(q)
    BY <1>1, TaskRests DEF directoryVars
<1>4. strayed' \in BOOLEAN
    BY <1>1
<1>5. BackupTyped'
    BY <1>1, <1>2, <1>4 DEF BackupsInv, BackupTyped, directoryVars
<1>6. (~strayed' /\ \A q \in BackupTasks : Flushed(q)' => ~task'[q].times) => job' = JobOf(config')
    <2> SUFFICES ASSUME ~strayed', \A q \in BackupTasks : Flushed(q)' => ~task'[q].times
                 PROVE  job = JobOf(config)
        BY <1>1
    <2>1. ~strayed /\ (Flushed(t) => ~task[t].times)
        BY <1>1 DEF Flushed
    <2>2. \A q \in BackupTasks : Flushed(q) => ~task[q].times
        BY <1>2, <1>3, <2>1
    <2> QED BY <2>1, <2>2 DEF BackupsInv, SchedulerGood
<1>7. SchedulerGood'
    BY <1>1, <1>2, <1>3, <1>6 DEF BackupsInv, SchedulerGood
<1>8. RetentionGood'
    BY <1>1, <1>2, <1>3 DEF BackupsInv, RetentionGood, directoryVars
<1>9. StoredInPairs' /\ OnlyOldBackupsGo'
    BY <1>1, <1>2 DEF BackupsInv, StoredInPairs, OnlyOldBackupsGo, directoryVars
<1> QED BY <1>5, <1>7, <1>8, <1>9 DEF BackupsInv

LEMMA SetupRestoreKeeps ==
    ASSUME BackupsInv, NEW given \in AskedConfigs, SetupRestore(Merged(DefaultConfig, given))
    PROVE  BackupsInv'
<1> DEFINE c == Merged(DefaultConfig, given)
<1>1. /\ updates = 0 /\ config = DefaultConfig /\ config' = c /\ strayed' = TRUE
      /\ lowest' = c.retention
      /\ UNCHANGED <<job, task, updates, directoryVars>>
    BY DEF SetupRestore
<1>2. c \in Config /\ c.retention \in Nat
    BY RestingTyped, MergedTyped DEF Config
<1> HIDE DEF c
<1>3. BackupTyped'
    BY <1>1, <1>2 DEF BackupsInv, BackupTyped, TasksTyped, directoryVars
<1>4. written = 0 /\ \A t \in BackupTasks : ~BackingUp(t) /\ ~PendingRun(t) /\ ~Flushed(t)
    BY <1>1 DEF BackupsInv, RetentionGood, PendingRun, Flushed
<1>5. \A t \in BackupTasks : ~BackingUp(t)' /\ ~PendingRun(t)' /\ ~Flushed(t)'
    BY <1>1, <1>4 DEF BackingUp, PendingRun, Flushed
<1>6. SchedulerGood'
    BY <1>1, <1>5 DEF SchedulerGood
<1>7. RetentionGood'
    BY <1>1, <1>2, <1>4, <1>5 DEF RetentionGood, directoryVars
<1>8. StoredInPairs' /\ OnlyOldBackupsGo'
    BY <1>1, <1>4 DEF BackupsInv, BackupTyped, StoredInPairs, OnlyOldBackupsGo, directoryVars
<1> QED BY <1>3, <1>6, <1>7, <1>8 DEF BackupsInv

\* A step of a backup, as far as the scheduler is concerned.
LEMMA SchedulerIgnoresBackups ==
    ASSUME BackupsInv, NEW t \in BackupTasks, ~PendingRun(t), ~PendingRun(t)',
           \A q \in BackupTasks \ {t} : task'[q] = task[q],
           UNCHANGED <<config, job, strayed>>
    PROVE  SchedulerGood'
<1>1. ~Flushed(t) /\ ~Flushed(t)'
    BY DEF PendingRun, Flushed
<1>2. \A q \in BackupTasks : (Flushed(q)' <=> Flushed(q)) /\ (PendingRun(q)' <=> PendingRun(q))
    BY <1>1 DEF PendingRun, Flushed
<1> QED BY <1>1, <1>2 DEF BackupsInv, SchedulerGood

LEMMA BackupBeginKeeps ==
    ASSUME BackupsInv, NEW t \in BackupTasks, BackupBegin(t)
    PROVE  BackupsInv'
<1> DEFINE new == [Resting EXCEPT !.op = "collect", !.seen = config]
<1>1. /\ task[t] = Resting /\ config.enabled /\ Run(t, new)
      /\ UNCHANGED <<config, job, updates, strayed, lowest, directoryVars>>
    BY DEF BackupBegin
<1>2. /\ new \in Task /\ new.op = "collect" /\ new.seen = config /\ new.backup = 0
    BY RestingTyped DEF BackupsInv, BackupTyped, Task
<1> HIDE DEF new
<1>3. new.backup \in 0 .. written
    BY <1>2 DEF BackupsInv, BackupTyped
<1>4. /\ task'[t] = new /\ \A q \in BackupTasks \ {t} : task'[q] = task[q]
      /\ TasksTyped'
      /\ OnlyOldBackupsGo' /\ StoredInPairs'
    BY <1>1, <1>2, <1>3, TaskMoves, RestingTyped DEF BackupsInv, OnlyOldBackupsGo
<1>5. BackupTyped'
    BY <1>1, <1>4 DEF BackupsInv, BackupTyped, directoryVars
<1>6. ~PendingRun(t) /\ ~PendingRun(t)'
    BY <1>1, <1>2, <1>4, RestingTyped DEF PendingRun
<1>7. SchedulerGood'
    BY <1>1, <1>4, <1>6, SchedulerIgnoresBackups
<1>8. config # DefaultConfig
    BY <1>1, BackupAssumptions
<1>9. RetentionGood'
    BY <1>1, <1>2, <1>4, <1>6, <1>8 DEF BackupsInv, RetentionGood, PendingRun, BackingUp
<1> QED BY <1>4, <1>5, <1>7, <1>9 DEF BackupsInv

LEMMA WriteBackupKeeps ==
    ASSUME BackupsInv, NEW t \in BackupTasks, WriteBackup(t)
    PROVE  BackupsInv'
<1> DEFINE new == [task[t] EXCEPT !.op = "counts", !.backup = written + 1]
<1>1. /\ task[t].op = "collect" /\ written < MaxBackups /\ written' = written + 1
      /\ file' = file \cup {written + 1} /\ Run(t, new)
      /\ UNCHANGED <<config, job, updates, strayed, lowest, meta, torn, removed>>
    BY DEF WriteBackup
<1>2. /\ written \in Nat /\ MaxBackups \in Nat /\ lowest \in Nat
      /\ file \subseteq 1 .. written /\ meta \subseteq 1 .. written
    BY BackupAssumptions DEF BackupsInv, BackupTyped
<1>3. /\ new \in Task /\ new.op = "counts" /\ new.seen = task[t].seen
      /\ new.backup = written + 1
    <2>1. written + 1 \in 0 .. MaxBackups
        BY <1>1, <1>2
    <2>2. task[t] \in Task
        BY DEF BackupsInv, BackupTyped, TasksTyped
    <2> QED BY <2>1, <2>2 DEF Task
<1> HIDE DEF new
<1>4. /\ task'[t] = new /\ \A q \in BackupTasks \ {t} : task'[q] = task[q]
      /\ TasksTyped'
    <2>1. /\ written' \in Nat /\ written' >= written /\ new.backup \in 0 .. written'
          /\ new.backup > 0
        BY <1>1, <1>2, <1>3
    <2> QED BY <1>1, <1>3, <2>1, TaskSet DEF BackupsInv
<1>6. /\ file' \subseteq 1 .. written' /\ meta' \subseteq 1 .. written'
      /\ written' \in 0 .. MaxBackups
    <2>1. 1 .. written \subseteq 1 .. written + 1 /\ written + 1 \in 1 .. written + 1
        BY <1>2
    <2>2. file' \subseteq 1 .. written + 1 /\ meta' \subseteq 1 .. written + 1
        BY <1>1, <1>2, <2>1, Zenon
    <2>3. written + 1 \in 0 .. MaxBackups
        BY <1>1, <1>2
    <2> QED BY <1>1, <2>2, <2>3, Zenon
<1>7. BackupTyped'
    BY <1>1, <1>4, <1>6 DEF BackupsInv, BackupTyped
<1>8. ~PendingRun(t) /\ ~PendingRun(t)' /\ BackingUp(t)
    BY <1>1, <1>3, <1>4 DEF PendingRun, BackingUp
<1>9. SchedulerGood'
    BY <1>1, <1>4, <1>8, SchedulerIgnoresBackups
<1>10. RetentionGood'
    BY <1>1, <1>3, <1>4, <1>8 DEF BackupsInv, RetentionGood, PendingRun, BackingUp
<1>11. StoredInPairs'
    <2> SUFFICES ASSUME NEW b \in file' \cup meta'
                 PROVE  \/ b \in file' \cap meta'
                        \/ b \in torn'
                        \/ \E q \in BackupTasks : task'[q].op = "counts" /\ task'[q].backup = b
        BY DEF StoredInPairs
    <2>1. CASE b = written + 1
        BY <1>3, <1>4, <2>1
    <2>2. CASE b # written + 1
        <3>1. b \in file \cup meta
            BY <1>1, <2>2
        <3> QED BY <1>1, <1>4, <3>1 DEF BackupsInv, StoredInPairs
    <2> QED BY <2>1, <2>2
<1>12. OnlyOldBackupsGo'
    BY <1>1, <1>2 DEF BackupsInv, OnlyOldBackupsGo
<1> QED BY <1>7, <1>9, <1>10, <1>11, <1>12 DEF BackupsInv

\* What the retention takes has enough newer backups beside it.
LEMMA NewerBackups ==
    ASSUME BackupTyped, NEW n \in Nat, NEW b \in BeyondRetention(n)
    PROVE  b \in file /\ written - b >= n
<1>1. b \in file /\ Cardinality({c \in file : c > b}) >= n
    BY DEF BeyondRetention
<1>2. b \in 1 .. written /\ written \in Nat /\ file \subseteq 1 .. written
    BY <1>1 DEF BackupTyped
<1>3. /\ IsFiniteSet(b + 1 .. written) /\ Cardinality(b + 1 .. written) = written - b
    BY <1>2, FS_Interval
<1>4. {c \in file : c > b} \in SUBSET (b + 1 .. written)
    <2> SUFFICES ASSUME NEW c \in file, c > b
                 PROVE  c \in b + 1 .. written
        OBVIOUS
    <2>1. c \in 1 .. written
        BY <1>2
    <2> QED BY <1>2, <2>1
<1>5. /\ Cardinality({c \in file : c > b}) <= written - b
      /\ IsFiniteSet({c \in file : c > b})
    BY <1>3, <1>4, FS_Subset
<1>6. Cardinality({c \in file : c > b}) \in Nat
    BY <1>5, FS_CardinalityType
<1> QED BY <1>1, <1>2, <1>5, <1>6

LEMMA FinishBackupKeeps ==
    ASSUME BackupsInv, NEW t \in BackupTasks, FinishBackup(t)
    PROVE  BackupsInv'
<1> DEFINE b == task[t].backup
           n == task[t].seen.retention
<1>1. /\ task[t].op = "counts" /\ Run(t, Resting)
      /\ torn' = IF b \in file THEN torn ELSE torn \cup {b}
      /\ UNCHANGED <<config, job, written, updates, strayed, lowest, removed>>
    BY DEF FinishBackup
<1>2. PICK gone \in SUBSET BeyondRetention(n) :
        file' = file \ gone /\ meta' = (meta \cup {b}) \ gone
    BY DEF FinishBackup, MetadataAfter
<1>3. /\ task'[t] = Resting /\ \A q \in BackupTasks \ {t} : task'[q] = task[q]
      /\ TasksTyped'
    BY <1>1, TaskRests
<1>4. /\ ~PendingRun(t)' /\ ~BackingUp(t)'
      /\ \A q \in BackupTasks \ {t} : /\ PendingRun(q)' <=> PendingRun(q)
                                      /\ BackingUp(q)' <=> BackingUp(q)
    BY <1>1, TaskRests
<1>5. ~PendingRun(t) /\ BackingUp(t) /\ n \in Nat /\ lowest \in Nat /\ lowest <= n
    BY <1>1 DEF PendingRun, BackingUp, BackupsInv, BackupTyped, TasksTyped, RetentionGood, Task, Config
<1>6. b \in 1 .. written /\ written \in 0 .. MaxBackups /\ MaxBackups \in Nat
    BY <1>1, BackupAssumptions DEF BackupsInv, BackupTyped, TasksTyped
<1>7. BackupTyped'
    <2>1. torn' \subseteq Stored
        <3>1. b \in Stored
            BY <1>6 DEF Stored
        <3>2. torn \subseteq Stored
            BY DEF BackupsInv, BackupTyped
        <3> QED BY <1>1, <3>1, <3>2
    <2>2. file' \subseteq 1 .. written /\ meta' \subseteq 1 .. written
        BY <1>2, <1>6 DEF BackupsInv, BackupTyped
    <2> QED BY <1>1, <1>3, <2>1, <2>2 DEF BackupsInv, BackupTyped
<1>8. SchedulerGood'
    BY <1>1, <1>3, <1>4, <1>5, SchedulerIgnoresBackups
<1>9. RetentionGood'
    BY <1>1, <1>3, <1>4 DEF BackupsInv, RetentionGood
<1>10. StoredInPairs'
    <2> SUFFICES ASSUME NEW x \in file' \cup meta'
                 PROVE  \/ x \in file' \cap meta'
                        \/ x \in torn'
                        \/ \E q \in BackupTasks : task'[q].op = "counts" /\ task'[q].backup = x
        BY DEF StoredInPairs
    <2>1. CASE x = b
        BY <1>1, <1>2, <2>1
    <2>2. CASE x # b
        <3>1. x \in file \cup meta /\ x \notin gone
            BY <1>2, <2>2
        <3>2. CASE x \in file \cap meta
            BY <1>2, <3>1, <3>2
        <3>3. CASE x \in torn
            BY <1>1, <3>3
        <3>4. CASE \E q \in BackupTasks : task[q].op = "counts" /\ task[q].backup = x
            BY <1>3, <2>2, <3>4
        <3> QED BY <3>1, <3>2, <3>3, <3>4 DEF BackupsInv, StoredInPairs
    <2> QED BY <2>1, <2>2
<1>11. OnlyOldBackupsGo'
    <2> SUFFICES ASSUME NEW x \in 1 .. written, x \notin file' \cup removed
                 PROVE  written - x >= lowest
        BY <1>1 DEF OnlyOldBackupsGo
    <2>1. CASE x \in gone
        <3>1. x \in BeyondRetention(n)
            BY <1>2, <2>1
        <3>2. written - x >= n
            BY <1>5, <3>1, NewerBackups DEF BackupsInv
        <3> QED BY <1>5, <1>6, <3>2
    <2>2. CASE x \notin gone
        BY <1>2, <2>2 DEF BackupsInv, OnlyOldBackupsGo
    <2> QED BY <2>1, <2>2
<1> QED BY <1>7, <1>8, <1>9, <1>10, <1>11 DEF BackupsInv

LEMMA BackupFailsKeeps ==
    ASSUME BackupsInv, NEW t \in BackupTasks, BackupFails(t)
    PROVE  BackupsInv'
<1>1. /\ task[t].op \in {"collect", "counts"} /\ Run(t, Resting)
      /\ torn' = torn \cup HalfMade({t})
      /\ UNCHANGED <<config, job, written, file, meta, updates, strayed, lowest, removed>>
    BY DEF BackupFails
<1>2. /\ task'[t] = Resting /\ \A q \in BackupTasks \ {t} : task'[q] = task[q]
      /\ TasksTyped'
    BY <1>1, TaskRests
<1>3. /\ ~PendingRun(t)' /\ ~BackingUp(t)'
      /\ \A q \in BackupTasks \ {t} : /\ PendingRun(q)' <=> PendingRun(q)
                                      /\ BackingUp(q)' <=> BackingUp(q)
    BY <1>1, TaskRests
<1>4. ~PendingRun(t)
    BY <1>1 DEF PendingRun
<1>5. HalfMade({t}) \subseteq Stored /\ (task[t].op = "counts" => task[t].backup \in HalfMade({t}))
    BY BackupAssumptions DEF HalfMade, BackupsInv, BackupTyped, TasksTyped, Stored
<1>6. BackupTyped'
    BY <1>1, <1>2, <1>5 DEF BackupsInv, BackupTyped
<1>7. SchedulerGood'
    BY <1>1, <1>2, <1>3, <1>4, SchedulerIgnoresBackups
<1>8. RetentionGood'
    BY <1>1, <1>2, <1>3 DEF BackupsInv, RetentionGood
<1>9. StoredInPairs'
    BY <1>1, <1>2, <1>5 DEF BackupsInv, StoredInPairs
<1>10. OnlyOldBackupsGo'
    BY <1>1 DEF BackupsInv, OnlyOldBackupsGo
<1> QED BY <1>6, <1>7, <1>8, <1>9, <1>10 DEF BackupsInv

LEMMA DeleteStoredKeeps ==
    ASSUME BackupsInv, NEW b \in Stored, DeleteStored(b)
    PROVE  BackupsInv'
<1>1. /\ file' = file \ {b} /\ meta' = meta \ {b} /\ removed' = removed \cup {b}
      /\ UNCHANGED <<config, job, written, task, updates, strayed, lowest, torn>>
    BY DEF DeleteStored
<1>2. BackupTyped'
    BY <1>1 DEF BackupsInv, BackupTyped, TasksTyped
<1>3. SchedulerGood' /\ RetentionGood'
    BY <1>1 DEF BackupsInv, SchedulerGood, RetentionGood, PendingRun, Flushed, BackingUp
<1>4. StoredInPairs' /\ OnlyOldBackupsGo'
    BY <1>1 DEF BackupsInv, StoredInPairs, OnlyOldBackupsGo
<1> QED BY <1>2, <1>3, <1>4 DEF BackupsInv

LEMMA RestartKeeps == ASSUME BackupsInv, Restart PROVE BackupsInv'
<1>1. /\ job' = JobOf(config) /\ strayed' = FALSE /\ torn' = torn \cup HalfMade(BackupTasks)
      /\ task' = [t \in BackupTasks |-> Resting]
      /\ UNCHANGED <<config, written, file, meta, updates, removed, lowest>>
    BY DEF Restart
<1>2. \A t \in BackupTasks : task'[t] = Resting
    BY <1>1
<1>3. \A t \in BackupTasks : ~PendingRun(t)' /\ ~Flushed(t)' /\ ~BackingUp(t)'
    BY <1>2, RestingTyped DEF PendingRun, Flushed, BackingUp
<1>4. /\ HalfMade(BackupTasks) \subseteq Stored
      /\ \A t \in BackupTasks : task[t].op = "counts" => task[t].backup \in HalfMade(BackupTasks)
    BY BackupAssumptions DEF HalfMade, BackupsInv, BackupTyped, TasksTyped, Stored
<1>5. JobOf(config) \in Schedules \cup {NoJob}
    BY DEF BackupsInv, BackupTyped, Config, JobOf
<1>6. TasksTyped'
    BY <1>1, RestingTyped DEF BackupsInv, BackupTyped, TasksTyped
<1>7. BackupTyped'
    BY <1>1, <1>4, <1>5, <1>6 DEF BackupsInv, BackupTyped
<1>8. SchedulerGood'
    BY <1>1, <1>3 DEF SchedulerGood
<1>9. RetentionGood'
    BY <1>1, <1>3 DEF BackupsInv, RetentionGood
<1>10. StoredInPairs' /\ OnlyOldBackupsGo'
    BY <1>1, <1>4 DEF BackupsInv, StoredInPairs, OnlyOldBackupsGo
<1> QED BY <1>7, <1>8, <1>9, <1>10 DEF BackupsInv

LEMMA BackupsStep == BackupsInv /\ [BackupsNext]_backupVars => BackupsInv'
<1> SUFFICES ASSUME BackupsInv, [BackupsNext]_backupVars
             PROVE  BackupsInv'
    OBVIOUS
<1>1. CASE UNCHANGED backupVars
    BY <1>1 DEF backupVars, BackupsInv, BackupTyped, TasksTyped, SchedulerGood, RetentionGood, PendingRun, Flushed,
                BackingUp, StoredInPairs, OnlyOldBackupsGo
<1>2. CASE BackupsNext
    BY <1>2, UpdateBeginKeeps, UpdateFlushKeeps, UpdateCommitKeeps, UpdateFailsKeeps,
       SetupRestoreKeeps, BackupBeginKeeps, WriteBackupKeeps, FinishBackupKeeps, BackupFailsKeeps,
       DeleteStoredKeeps, RestartKeeps DEF BackupsNext
<1> QED BY <1>1, <1>2

-----------------------------------------------------------------------------
(* The configuration, the tasks and the stored backups are well formed in  *)
(* every reachable state.                                                  *)
THEOREM BackupTypes == BackupsSpec => []BackupsTypeOK
<1>1. BackupsInv => BackupsTypeOK
    <2> SUFFICES ASSUME BackupsInv
                 PROVE  BackupsTypeOK
        OBVIOUS
    <2>2. file \subseteq Stored /\ meta \subseteq Stored
        BY BackupAssumptions DEF BackupsInv, BackupTyped, Stored
    <2>3. task \in [BackupTasks -> Task]
        BY DEF BackupsInv, BackupTyped, TasksTyped
    <2> QED BY <2>2, <2>3 DEF BackupsInv, BackupTyped, BackupsTypeOK
<1> QED BY <1>1, BackupsStart, BackupsStep, PTL DEF BackupsSpec

(* update_config tells the scheduler before it commits, and the start of   *)
(* the application once more: outside an update the job is the one that    *)
(* the committed configuration asks for.                                   *)
THEOREM SchedulerFollows == BackupsSpec => []ScheduleFollowsConfig
<1>1. BackupsInv => ScheduleFollowsConfig
    BY DEF BackupsInv, SchedulerGood, ScheduleFollowsConfig, Flushed, JobOf
<1> QED BY <1>1, BackupsStart, BackupsStep, PTL DEF BackupsSpec

(* cleanup_old_backups takes a backup only when as many newer ones were    *)
(* written as the lowest retention asked for, however backups overlap, and *)
(* what is listed is there with its metadata.                              *)
THEOREM BackupsAreKept == BackupsSpec => []BackupsKept
<1>1. BackupsInv => BackupsKept
    BY DEF BackupsInv, BackupsKept
<1> QED BY <1>1, BackupsStart, BackupsStep, PTL DEF BackupsSpec

-----------------------------------------------------------------------------

-----------------------------------------------------------------------------
(* The tables *)

LEMMA LinkEnds ==
    ASSUME NEW child, NEW parents, NEW law, NEW k \in Links(child, parents, law)
    PROVE  k.from = child /\ k.to \in parents /\ k.rule = law
BY DEF Links

LEMMA CollectedTables ==
    Collected = {"admin_users", "refresh_tokens", "roles", "permissions", "user_roles",
      "role_permissions", "user_notification_preferences", "providers", "licenses", "employees",
      "employee_external_accounts", "license_packages", "organization_licenses",
      "payment_methods", "provider_files", "cost_snapshots", "settings", "notification_rules",
      "service_account_patterns", "admin_account_patterns", "service_account_license_types",
      "audit_logs"}
BY DEF Collected, CollectOrder

LEMMA FlushNumbers ==
    /\ \A t \in FirstRows : FlushOf(t) = 1
    /\ \A t \in AccountsOfEmployees : FlushOf(t) = 2
    /\ \A t \in GrantsAndProviders : FlushOf(t) = 3
    /\ \A t \in ContractRows \cup AttachedRows : FlushOf(t) = 4
<1>1. \A t \in FirstRows : FlushOf(t) = 1
    BY DEF FlushOf, ImportFlushes, FirstRows, AccountsOfEmployees, GrantsAndProviders, ContractRows, AttachedRows
<1>2. \A t \in AccountsOfEmployees : FlushOf(t) = 2
    BY DEF FlushOf, ImportFlushes, FirstRows, AccountsOfEmployees, GrantsAndProviders, ContractRows, AttachedRows
<1>3. \A t \in GrantsAndProviders : FlushOf(t) = 3
    BY DEF FlushOf, ImportFlushes, FirstRows, AccountsOfEmployees, GrantsAndProviders, ContractRows, AttachedRows
<1>4. \A t \in ContractRows \cup AttachedRows : FlushOf(t) = 4
    BY DEF FlushOf, ImportFlushes, FirstRows, AccountsOfEmployees, GrantsAndProviders, ContractRows, AttachedRows
<1> QED BY <1>1, <1>2, <1>3, <1>4

\* A key whose reference the import inserts in time.
InTime(k) ==
    /\ FlushOf(k.to) \in Nat /\ FlushOf(k.from) \in Nat
    /\ \/ FlushOf(k.to) < FlushOf(k.from)
       \/ FlushOf(k.to) = FlushOf(k.from) /\ <<k.from, k.to>> \in Related

Fits(k) ==
    /\ k.from \in Tables /\ k.to \in Collected
    /\ k.from \in Collected => InTime(k)

LEMMA EveryKeyFits == \A k \in ForeignKeys : Fits(k)
<1>1. \A k \in PreferenceKeys \cup RefreshTokenKeys \cup UserRoleKeys \cup RolePermissionKeys : Fits(k)
    BY FlushNumbers, CollectedTables DEF Links, PreferenceKeys, RefreshTokenKeys, UserRoleKeys, RolePermissionKeys,
       Fits, InTime, Tables, FirstRows, GrantsAndProviders, Related
<1>2. \A k \in LicenseKeys \cup PackageKeys \cup OrganizationKeys : Fits(k)
    BY FlushNumbers, CollectedTables DEF Links, LicenseKeys, PackageKeys, OrganizationKeys,
       Fits, InTime, Tables, FirstRows, GrantsAndProviders, ContractRows
<1>3. \A k \in FileKeys \cup SnapshotKeys \cup ImportJobKeys : Fits(k)
    BY FlushNumbers, CollectedTables DEF Links, FileKeys, SnapshotKeys, ImportJobKeys,
       Fits, InTime, Tables, FirstRows, GrantsAndProviders, ContractRows, AttachedRows
<1>4. \A k \in ServicePatternKeys \cup AdminPatternKeys \cup ServiceTypeKeys : Fits(k)
    BY FlushNumbers, CollectedTables DEF Links, ServicePatternKeys, AdminPatternKeys, ServiceTypeKeys,
       Fits, InTime, Tables, FirstRows, AttachedRows
<1>5. \A k \in ProviderKeys \cup ExternalAccountKeys \cup AuditKeys : Fits(k)
    BY FlushNumbers, CollectedTables DEF Links, ProviderKeys, ExternalAccountKeys, AuditKeys,
       Fits, InTime, Tables, FirstRows, GrantsAndProviders, AccountsOfEmployees, AttachedRows
<1> QED BY <1>1, <1>2, <1>3, <1>4, <1>5 DEF ForeignKeys

LEMMA AuditKey ==
    \E k \in ForeignKeys : k.from = "audit_logs" /\ k.to = "admin_users" /\ k.rule = "none"
<1> DEFINE key == [from |-> "audit_logs", to |-> "admin_users", rule |-> "none"]
<1>1. key \in AuditKeys
    BY DEF AuditKeys, Links
<1>2. key \in ForeignKeys
    BY <1>1 DEF ForeignKeys
<1> QED BY <1>2

LEMMA TablesNamed ==
    /\ "admin_users" \in Collected /\ "audit_logs" \in Collected
    /\ "provider_files" \in Collected
    /\ "import_jobs" \notin Collected
    /\ Tables = Collected \cup {"import_jobs"}
BY CollectedTables DEF Tables

LEMMA CollectOrderFacts ==
    /\ Len(CollectOrder) = 22 /\ DOMAIN CollectOrder = 1 .. 22
    /\ CollectOrder[1] = "admin_users" /\ CollectOrder[22] = "audit_logs"
    /\ \A i \in 1 .. 22 : CollectOrder[i] \in Collected
    /\ \A i, j \in 1 .. 22 : CollectOrder[i] = CollectOrder[j] => i = j
<1>1. Len(CollectOrder) = 22 /\ DOMAIN CollectOrder = 1 .. 22
    BY DEF CollectOrder
<1>2. CollectOrder[1] = "admin_users" /\ CollectOrder[22] = "audit_logs"
    BY DEF CollectOrder
<1>3. \A i \in 1 .. 22 : CollectOrder[i] \in Collected
    BY <1>1 DEF Collected
<1>4. \A i, j \in 1 .. 22 : CollectOrder[i] = CollectOrder[j] => i = j
    BY DEF CollectOrder
<1> QED BY <1>1, <1>2, <1>3, <1>4

\* The tables that _clear_all_data deletes before the accounts.
ClearedFirst ==
    <<"user_notification_preferences", "user_roles", "role_permissions", "licenses",
      "license_packages", "organization_licenses", "provider_files", "cost_snapshots",
      "service_account_patterns", "admin_account_patterns", "service_account_license_types",
      "providers", "employee_external_accounts", "employees", "payment_methods",
      "refresh_tokens">>

LEMMA AccountsGoBeforeTheirLogs ==
    \E i \in DOMAIN ClearOrder : ClearOrder[i] = "admin_users" /\ ~Before("audit_logs", i)
<1>1. ClearedFirst \in Seq(Collected) /\ Len(ClearedFirst) = 16
    BY CollectedTables DEF ClearedFirst
<1>2. AccountsBeforeLogs \in Seq(Collected) /\ Len(AccountsBeforeLogs) = 6
    BY CollectedTables DEF AccountsBeforeLogs
<1>3. \A j \in 1 .. 16 : ClearedFirst[j] # "audit_logs"
    BY DEF ClearedFirst
<1>4. AccountsBeforeLogs[1] = "admin_users"
    BY DEF AccountsBeforeLogs
<1>5. ClearOrder = ClearedFirst \o AccountsBeforeLogs
    BY DEF ClearOrder, ClearedFirst
<1>6. /\ ClearOrder \in Seq(Collected)
      /\ Len(ClearOrder) = Len(ClearedFirst) + Len(AccountsBeforeLogs)
      /\ \A i \in 1 .. Len(ClearedFirst) + Len(AccountsBeforeLogs) :
            ClearOrder[i] = IF i <= Len(ClearedFirst) THEN ClearedFirst[i]
                            ELSE AccountsBeforeLogs[i - Len(ClearedFirst)]
    <2>1. ClearedFirst \in Seq(Collected) /\ AccountsBeforeLogs \in Seq(Collected)
        BY <1>1, <1>2
    <2> QED BY <2>1, <1>5, ConcatProperties, Zenon
<1>7. DOMAIN ClearOrder = 1 .. 22
    BY <1>1, <1>2, <1>6
<1>8. \A i \in 1 .. 22 : ClearOrder[i] = IF i <= 16 THEN ClearedFirst[i] ELSE AccountsBeforeLogs[i - 16]
    BY <1>1, <1>2, <1>6
<1>9. ClearOrder[17] = "admin_users" /\ 17 \in 1 .. 22
    BY <1>4, <1>8
<1>10. \A i \in 1 .. 16 : ClearOrder[i] # "audit_logs"
    BY <1>3, <1>8
<1> QED BY <1>7, <1>9, <1>10 DEF Before

LEMMA WorkTables ==
    ASSUME NEW W \in Workloads
    PROVE  W \subseteq Tables /\ ("admin_users" \in W => "audit_logs" \in W)
BY CollectedTables DEF Workloads, Tables

-----------------------------------------------------------------------------
(* The invariant *)

RestoreTyped ==
    /\ db \in [Tables -> SUBSET Gens]
    /\ disk \subseteq Gens
    /\ export \in [done: 0 .. 22, got: Snapshot]
    /\ taken \in Snapshot \cup {NoBackup}
    /\ restoring \in Restoration
    /\ restoring.phase # "none" => taken # NoBackup /\ restoring.from = taken

\* No row refers to one that is not there.
RestoreClosed(rows) == \A k \in ForeignKeys : rows[k.from] \subseteq rows[k.to]

\* An account came with the entries of its sign-in.
Logged(rows) == rows["admin_users"] \subseteq rows["audit_logs"]

\* What a running restoration has not deleted: the rows committed since.
Kept == [t \in Tables |-> db[t] \ restoring.cleared[t]]

TransactionGood ==
    InTransaction =>
        /\ \A t \in Tables : restoring.cleared[t] \subseteq db[t]
        /\ RestoreClosed(Kept) /\ Logged(Kept)
        /\ restoring.phase = "commit" => ~ImportRaises(restoring.from)

\* Until a backup is taken nothing is restored, so rows are only added while tables are read.
ExportGood ==
    /\ export.done > 0 => taken = NoBackup
    /\ export.got.rows["import_jobs"] = {}
    /\ export.got.quiet => \A i \in 1 .. export.done :
                              export.got.rows[CollectOrder[i]] = db[CollectOrder[i]]
    /\ export.done > 0 => export.got.rows["admin_users"] \subseteq db["admin_users"]
    /\ export.done = 22 => Logged(export.got.rows)

TakenGood ==
    taken # NoBackup =>
        /\ taken.rows["import_jobs"] = {} /\ Logged(taken.rows)
        /\ taken.quiet => ~ImportRaises(taken)

RestoreInv ==
    /\ RestoreTyped /\ RestoreClosed(db) /\ Logged(db)
    /\ TransactionGood /\ ExportGood /\ TakenGood

-----------------------------------------------------------------------------
(* Lemmas about what the export and the import do with references *)

LEMMA ImportNeedsReferences ==
    ASSUME NEW s \in Snapshot
    PROVE  ~ImportRaises(s)
              <=> \A k \in ForeignKeys : k.from \in Collected => s.rows[k.from] \subseteq s.rows[k.to]
<1>1. \A k \in ForeignKeys : k.from \in Collected => s.rows[k.from] \subseteq Gens
    BY TablesNamed DEF Snapshot
<1>2. ASSUME ~ImportRaises(s)
      PROVE  \A k \in ForeignKeys : k.from \in Collected => s.rows[k.from] \subseteq s.rows[k.to]
    BY <1>1, <1>2 DEF ImportRaises
<1>3. ASSUME \A k \in ForeignKeys : k.from \in Collected => s.rows[k.from] \subseteq s.rows[k.to]
      PROVE  ~ImportRaises(s)
    <2> SUFFICES ASSUME NEW k \in ForeignKeys, NEW g \in Gens, k.from \in Collected,
                        g \in s.rows[k.from],
                        \/ g \notin s.rows[k.to]
                        \/ FlushOf(k.to) > FlushOf(k.from)
                        \/ FlushOf(k.to) = FlushOf(k.from) /\ <<k.from, k.to>> \notin Related
                 PROVE  FALSE
        BY DEF ImportRaises
    <2>1. InTime(k)
        BY EveryKeyFits DEF Fits
    <2>2. g \in s.rows[k.to]
        BY <1>3
    <2> QED BY <2>1, <2>2 DEF InTime
<1> QED BY <1>2, <1>3

LEMMA RestoredIsClosed ==
    ASSUME RestoreInv, restoring.phase = "commit"
    PROVE  RestoreClosed(Restored) /\ Logged(Restored) /\ Restored \in [Tables -> SUBSET Gens]
<1> DEFINE from == restoring.from
<1>1. /\ from \in Snapshot /\ from.rows \in [Tables -> SUBSET Gens]
      /\ from.rows["import_jobs"] = {} /\ Logged(from.rows)
    BY DEF RestoreInv, RestoreTyped, TakenGood, Snapshot
<1>2. ~ImportRaises(from) /\ RestoreClosed(Kept) /\ Logged(Kept)
    BY DEF RestoreInv, TransactionGood, InTransaction
<1>3. \A t \in Tables : Restored[t] = from.rows[t] \cup Kept[t]
    BY DEF Restored, Kept
<1>4. Restored \in [Tables -> SUBSET Gens]
    BY <1>1 DEF Restored, RestoreInv, RestoreTyped
<1>5. Logged(Restored)
    BY <1>1, <1>2, <1>3, TablesNamed DEF Logged
<1>6. RestoreClosed(Restored)
    <2> SUFFICES ASSUME NEW k \in ForeignKeys
                 PROVE  Restored[k.from] \subseteq Restored[k.to]
        BY DEF RestoreClosed
    <2>1. k.from \in Tables /\ k.to \in Tables /\ (k.from \in Collected \/ k.from = "import_jobs")
        BY EveryKeyFits, TablesNamed DEF Fits
    <2>2. Kept[k.from] \subseteq Kept[k.to]
        BY <1>2 DEF RestoreClosed
    <2>3. from.rows[k.from] \subseteq from.rows[k.to]
        BY <1>1, <1>2, <2>1, ImportNeedsReferences
    <2> QED BY <1>3, <2>1, <2>2, <2>3
<1> QED BY <1>4, <1>5, <1>6

\* Deleting the accounts meets the entries of their sign-ins.
LEMMA ClearMeetsAccounts ==
    ASSUME NEW rows, Logged(rows), ~ClearRaises(rows)
    PROVE  rows["admin_users"] = {}
<1>1. PICK i \in DOMAIN ClearOrder : ClearOrder[i] = "admin_users" /\ ~Before("audit_logs", i)
    BY AccountsGoBeforeTheirLogs
<1>2. PICK k \in ForeignKeys : k.from = "audit_logs" /\ k.to = "admin_users" /\ k.rule = "none"
    BY AuditKey
<1>3. rows["audit_logs"] \cap rows["admin_users"] = {}
    BY <1>1, <1>2 DEF ClearRaises
<1> QED BY <1>3 DEF Logged

-----------------------------------------------------------------------------
(* Steps *)

LEMMA EmptyTablesTyped ==
    /\ EmptyDatabase \in [Tables -> SUBSET Gens] /\ \A t \in Tables : EmptyDatabase[t] = {}
    /\ RestoreClosed(EmptyDatabase) /\ Logged(EmptyDatabase)
<1>1. /\ EmptyDatabase \in [Tables -> SUBSET Gens] /\ \A t \in Tables : EmptyDatabase[t] = {}
    BY DEF EmptyDatabase
<1>2. RestoreClosed(EmptyDatabase) /\ Logged(EmptyDatabase)
    BY <1>1, EveryKeyFits, TablesNamed DEF RestoreClosed, Logged, Fits
<1> QED BY <1>1, <1>2

LEMMA NoExportTyped ==
    /\ NoExport \in [done: 0 .. 22, got: Snapshot]
    /\ NoExport.done = 0 /\ NoExport.got.rows = EmptyDatabase
BY EmptyTablesTyped DEF NoExport, Snapshot

LEMMA NoRestoreTyped ==
    /\ NoRestore \in Restoration /\ NoRestore.phase = "none"
BY EmptyTablesTyped DEF NoRestore, Restoration

\* What a commit does to a running export.
LEMMA QuietEnds ==
    ASSUME NEW e \in [done: 0 .. 22, got: Snapshot], NEW new,
           new = IF e.done > 0 THEN [e EXCEPT !.got.quiet = FALSE] ELSE e
    PROVE  /\ new.done = e.done /\ new.got.rows = e.got.rows
           /\ new.got.quiet => e.done = 0
           /\ new \in [done: 0 .. 22, got: Snapshot]
<1> DEFINE got == [e.got EXCEPT !.quiet = FALSE]
<1>1. got \in Snapshot /\ got.rows = e.got.rows /\ got.quiet = FALSE
    BY DEF Snapshot
<1>2. [e EXCEPT !.got.quiet = FALSE] = [e EXCEPT !.got = got]
    OBVIOUS
<1> HIDE DEF got
<1>3. CASE e.done > 0
    BY <1>1, <1>2, <1>3
<1>4. CASE ~(e.done > 0)
    BY <1>4
<1> QED BY <1>3, <1>4

\* What reading one more table does to it.
WithTable(e, t, rows) == [e EXCEPT !.done = @ + 1, !.got.rows[t] = rows]

LEMMA TableRead ==
    ASSUME NEW e \in [done: 0 .. 22, got: Snapshot], e.done < 22, NEW t \in Tables,
           NEW rows \in SUBSET Gens
    PROVE  /\ WithTable(e, t, rows).done = e.done + 1
           /\ WithTable(e, t, rows).got.rows = [e.got.rows EXCEPT ![t] = rows]
           /\ WithTable(e, t, rows).got.quiet = e.got.quiet
           /\ WithTable(e, t, rows) \in [done: 0 .. 22, got: Snapshot]
<1> DEFINE read == [e.got.rows EXCEPT ![t] = rows]
           got == [e.got EXCEPT !.rows = read]
<1>1. read \in [Tables -> SUBSET Gens]
    BY DEF Snapshot
<1>2. got \in Snapshot /\ got.rows = read /\ got.quiet = e.got.quiet
    BY <1>1 DEF Snapshot
<1>3. WithTable(e, t, rows) = [e EXCEPT !.done = e.done + 1, !.got = got]
    BY DEF WithTable
<1>4. e.done + 1 \in 0 .. 22
    OBVIOUS
<1> HIDE DEF got
<1> QED BY <1>2, <1>3, <1>4

LEMMA RestoreStart == RestoreInit => RestoreInv
<1> SUFFICES ASSUME RestoreInit
             PROVE  RestoreInv
    OBVIOUS
<1>1. RestoreTyped
    BY EmptyTablesTyped, NoExportTyped, NoRestoreTyped DEF RestoreInit, RestoreTyped
<1>2. RestoreClosed(db) /\ Logged(db)
    BY EmptyTablesTyped, TablesNamed DEF RestoreInit
<1>3. TransactionGood /\ TakenGood
    BY <1>2, NoRestoreTyped DEF RestoreInit, TransactionGood, TakenGood, InTransaction
<1>4. ExportGood
    BY NoExportTyped, EmptyTablesTyped, TablesNamed DEF RestoreInit, ExportGood
<1> QED BY <1>1, <1>2, <1>3, <1>4 DEF RestoreInv

LEMMA WorkKeeps ==
    ASSUME RestoreInv, NEW g \in Gens, NEW W \in Workloads, Work(g, W)
    PROVE  RestoreInv'
<1>1. /\ \A t \in W : g \notin db[t]
      /\ \A p \in ParentsOf(W) : g \in db[p] /\ (InTransaction => g \notin restoring.cleared[p])
      /\ db' = [t \in Tables |-> IF t \in W THEN db[t] \cup {g} ELSE db[t]]
      /\ disk' = IF "provider_files" \in W THEN disk \cup {g} ELSE disk
      /\ export' = IF export.done > 0 THEN [export EXCEPT !.got.quiet = FALSE] ELSE export
      /\ UNCHANGED <<taken, restoring>>
    BY DEF Work
<1>2. W \subseteq Tables /\ ("admin_users" \in W => "audit_logs" \in W)
    BY WorkTables
<1>3. \A t \in Tables : db'[t] = IF t \in W THEN db[t] \cup {g} ELSE db[t]
    BY <1>1
<1>4. /\ export \in [done: 0 .. 22, got: Snapshot] /\ export.got \in Snapshot
      /\ export.got.rows \in [Tables -> SUBSET Gens]
    BY DEF RestoreInv, RestoreTyped, Snapshot
<1>5. /\ export'.done = export.done /\ export'.got.rows = export.got.rows
      /\ export'.got.quiet => export.done = 0
      /\ export' \in [done: 0 .. 22, got: Snapshot]
    BY <1>1, <1>4, QuietEnds
<1>6. RestoreTyped'
    <2>1. db' \in [Tables -> SUBSET Gens]
        BY <1>1 DEF RestoreInv, RestoreTyped
    <2> QED BY <1>1, <1>5, <2>1 DEF RestoreInv, RestoreTyped
<1>7. RestoreClosed(db')
    <2> SUFFICES ASSUME NEW k \in ForeignKeys
                 PROVE  db'[k.from] \subseteq db'[k.to]
        BY DEF RestoreClosed
    <2>1. k.from \in Tables /\ k.to \in Tables /\ db[k.from] \subseteq db[k.to]
        BY EveryKeyFits, TablesNamed DEF Fits, RestoreInv, RestoreClosed
    <2>2. CASE k.from \in W /\ k.to \notin W
        <3>1. k.to \in ParentsOf(W)
            BY <2>2 DEF ParentsOf
        <3> QED BY <1>1, <1>3, <2>1, <2>2, <3>1
    <2>3. CASE k.from \notin W \/ k.to \in W
        BY <1>3, <2>1, <2>3
    <2> QED BY <2>2, <2>3
<1>8. Logged(db')
    BY <1>2, <1>3, TablesNamed DEF RestoreInv, Logged
<1>9. TransactionGood'
    <2> SUFFICES ASSUME InTransaction
                 PROVE  /\ \A t \in Tables : restoring.cleared[t] \subseteq db'[t]
                        /\ RestoreClosed(Kept') /\ Logged(Kept')
                        /\ restoring.phase = "commit" => ~ImportRaises(restoring.from)
        BY <1>1 DEF TransactionGood, InTransaction, ImportRaises
    <2>1. /\ \A t \in Tables : restoring.cleared[t] \subseteq db[t]
          /\ RestoreClosed(Kept) /\ Logged(Kept)
          /\ restoring.phase = "commit" => ~ImportRaises(restoring.from)
        BY DEF RestoreInv, TransactionGood
    <2>2. \A t \in Tables : /\ Kept[t] = db[t] \ restoring.cleared[t]
                            /\ Kept'[t] = db'[t] \ restoring.cleared[t]
        BY <1>1 DEF Kept
    <2>3. \A t \in Tables : Kept'[t] = IF t \in W THEN Kept[t] \cup {g} ELSE Kept[t]
        <3> SUFFICES ASSUME NEW t \in Tables
                     PROVE  Kept'[t] = IF t \in W THEN Kept[t] \cup {g} ELSE Kept[t]
            OBVIOUS
        <3>1. CASE t \in W
            <4>1. g \notin restoring.cleared[t]
                BY <1>1, <2>1, <3>1
            <4> QED BY <1>3, <2>2, <3>1, <4>1
        <3>2. CASE t \notin W
            BY <1>3, <2>2, <3>2
        <3> QED BY <3>1, <3>2
    <2>4. RestoreClosed(Kept')
        <3> SUFFICES ASSUME NEW k \in ForeignKeys
                     PROVE  Kept'[k.from] \subseteq Kept'[k.to]
            BY DEF RestoreClosed
        <3>1. k.from \in Tables /\ k.to \in Tables /\ Kept[k.from] \subseteq Kept[k.to]
            BY <2>1, EveryKeyFits, TablesNamed DEF Fits, RestoreClosed
        <3>2. CASE k.from \in W /\ k.to \notin W
            <4>1. k.to \in ParentsOf(W)
                BY <3>2 DEF ParentsOf
            <4>2. g \in Kept[k.to]
                BY <1>1, <2>2, <3>1, <4>1
            <4> QED BY <2>3, <3>1, <3>2, <4>2
        <3>3. CASE k.from \notin W \/ k.to \in W
            BY <2>3, <3>1, <3>3
        <3> QED BY <3>2, <3>3
    <2>5. Logged(Kept')
        BY <1>2, <2>1, <2>3, TablesNamed DEF Logged
    <2> QED BY <1>3, <2>1, <2>4, <2>5
<1>10. ExportGood'
    <2>1. export'.got.quiet => export.done = 0
        BY <1>5
    <2>2. export.done = 0 => 1 .. export.done = {}
        OBVIOUS
    <2>3. export.done > 0 => export.got.rows["admin_users"] \subseteq db'["admin_users"]
        BY <1>3, TablesNamed DEF RestoreInv, ExportGood
    <2> QED BY <1>1, <1>5, <2>1, <2>2, <2>3 DEF RestoreInv, ExportGood
<1>11. TakenGood'
    BY <1>1 DEF RestoreInv, TakenGood, ImportRaises
<1> QED BY <1>6, <1>7, <1>8, <1>9, <1>10, <1>11 DEF RestoreInv

LEMMA LoseFileKeeps ==
    ASSUME RestoreInv, NEW g \in Gens, LoseFile(g)
    PROVE  RestoreInv'
<1>1. /\ g \in disk /\ ~InTransaction /\ disk' = disk \ {g}
      /\ UNCHANGED <<db, export, taken, restoring>>
    BY DEF LoseFile
<1>2. RestoreTyped'
    BY <1>1 DEF RestoreInv, RestoreTyped
<1>3. RestoreClosed(db') /\ Logged(db') /\ ExportGood' /\ TakenGood'
    BY <1>1 DEF RestoreInv, ExportGood, TakenGood, ImportRaises
<1>4. TransactionGood'
    BY <1>1 DEF TransactionGood, InTransaction
<1> QED BY <1>2, <1>3, <1>4 DEF RestoreInv

LEMMA CollectKeeps ==
    ASSUME RestoreInv, Collect
    PROVE  RestoreInv'
<1> DEFINE n == export.done + 1
           t == CollectOrder[n]
<1>1. /\ export.done < 22 /\ taken = NoBackup
      /\ export' = [export EXCEPT !.done = @ + 1, !.got.rows[t] = db[t]]
      /\ UNCHANGED <<db, disk, taken, restoring>>
    BY CollectOrderFacts DEF Collect
<1>2. /\ export \in [done: 0 .. 22, got: Snapshot] /\ export.got \in Snapshot
      /\ export.got.rows \in [Tables -> SUBSET Gens] /\ export.done \in 0 .. 22
      /\ db \in [Tables -> SUBSET Gens]
    BY DEF RestoreInv, RestoreTyped, Snapshot
<1>3. n \in 1 .. 22 /\ t \in Collected /\ t \in Tables
    BY <1>1, <1>2, CollectOrderFacts, TablesNamed
<1>4. /\ export'.done = n /\ export'.got.rows = [export.got.rows EXCEPT ![t] = db[t]]
      /\ export'.got.quiet = export.got.quiet
      /\ export' \in [done: 0 .. 22, got: Snapshot]
    <2>1. db[t] \in SUBSET Gens
        BY <1>2, <1>3
    <2>2. export' = WithTable(export, t, db[t])
        BY <1>1 DEF WithTable
    <2>3. export.done < 22
        BY <1>1
    <2>4. /\ WithTable(export, t, db[t]).done = export.done + 1
          /\ WithTable(export, t, db[t]).got.rows = [export.got.rows EXCEPT ![t] = db[t]]
          /\ WithTable(export, t, db[t]).got.quiet = export.got.quiet
          /\ WithTable(export, t, db[t]) \in [done: 0 .. 22, got: Snapshot]
        BY <1>2, <1>3, <2>1, <2>3, TableRead
    <2> QED BY <2>2, <2>4
<1>5. RestoreTyped'
    BY <1>1, <1>4 DEF RestoreInv, RestoreTyped
<1>6. RestoreClosed(db') /\ Logged(db') /\ TransactionGood' /\ TakenGood'
    BY <1>1 DEF RestoreInv, TransactionGood, InTransaction, Kept, TakenGood, ImportRaises
<1>7. ExportGood'
    <2>1. export'.got.rows["import_jobs"] = {}
        BY <1>2, <1>3, <1>4, TablesNamed DEF RestoreInv, ExportGood
    <2>2. ASSUME export.got.quiet, NEW i \in 1 .. n
          PROVE  export'.got.rows[CollectOrder[i]] = db[CollectOrder[i]]
        <3>1. CollectOrder[i] \in Tables
            BY <1>3, CollectOrderFacts, TablesNamed
        <3>2. CASE i = n
            BY <1>2, <1>3, <1>4, <3>2
        <3>3. CASE i # n
            <4>1. i \in 1 .. export.done /\ CollectOrder[i] # t
                BY <1>2, <1>3, <3>3, CollectOrderFacts
            <4> QED BY <1>2, <1>4, <2>2, <3>1, <4>1 DEF RestoreInv, ExportGood
        <3> QED BY <3>2, <3>3
    <2>3. export'.got.rows["admin_users"] \subseteq db["admin_users"]
        <3>1. CASE n = 1
            BY <1>2, <1>3, <1>4, <3>1, CollectOrderFacts, TablesNamed
        <3>2. CASE n # 1
            <4>1. export.done > 0 /\ t # "admin_users"
                BY <1>2, <1>3, <3>2, CollectOrderFacts
            <4> QED BY <1>2, <1>4, <4>1, TablesNamed DEF RestoreInv, ExportGood
        <3> QED BY <3>1, <3>2
    <2>4. n = 22 => Logged(export'.got.rows)
        <3>1. ASSUME n = 22
              PROVE  export'.got.rows["audit_logs"] = db["audit_logs"]
            BY <1>2, <1>4, <3>1, CollectOrderFacts, TablesNamed
        <3> QED BY <2>3, <3>1 DEF RestoreInv, Logged
    <2> QED BY <1>1, <1>3, <1>4, <2>1, <2>2, <2>3, <2>4 DEF ExportGood
<1> QED BY <1>5, <1>6, <1>7 DEF RestoreInv

LEMMA FinishExportKeeps ==
    ASSUME RestoreInv, FinishExport
    PROVE  RestoreInv'
<1> DEFINE got == export.got
<1>1. /\ export.done = 22
      /\ taken' = [got EXCEPT !.files = disk \cap got.rows["provider_files"]]
      /\ export' = NoExport /\ UNCHANGED <<db, disk, restoring>>
    BY CollectOrderFacts DEF FinishExport
<1>2. got \in Snapshot /\ disk \subseteq Gens
    BY DEF RestoreInv, RestoreTyped
<1>3. /\ taken' \in Snapshot /\ taken'.rows = got.rows /\ taken'.quiet = got.quiet
    BY <1>1, <1>2 DEF Snapshot
<1>4. taken = NoBackup /\ restoring.phase = "none"
    BY <1>1 DEF RestoreInv, RestoreTyped, ExportGood
<1>5. RestoreTyped'
    BY <1>1, <1>3, <1>4, NoExportTyped DEF RestoreInv, RestoreTyped
<1>6. RestoreClosed(db') /\ Logged(db') /\ TransactionGood'
    BY <1>1, <1>4 DEF RestoreInv, TransactionGood, InTransaction
<1>7. ExportGood'
    BY <1>1, NoExportTyped, EmptyTablesTyped, TablesNamed DEF ExportGood
<1>8. TakenGood'
    <2>1. taken'.rows["import_jobs"] = {} /\ Logged(taken'.rows)
        BY <1>1, <1>3 DEF RestoreInv, ExportGood
    <2>2. ASSUME taken'.quiet
          PROVE  ~ImportRaises(taken')
        <3>1. \A i \in 1 .. 22 : got.rows[CollectOrder[i]] = db[CollectOrder[i]]
            BY <1>1, <1>3, <2>2 DEF RestoreInv, ExportGood
        <3>2. \A t \in Collected : taken'.rows[t] = db[t]
            BY <1>3, <3>1, CollectOrderFacts DEF Collected
        <3>3. \A k \in ForeignKeys : k.from \in Collected => taken'.rows[k.from] \subseteq taken'.rows[k.to]
            BY <3>2, EveryKeyFits DEF Fits, RestoreInv, RestoreClosed
        <3> QED BY <1>3, <3>3, ImportNeedsReferences
    <2>3. ImportRaises(taken)' <=> ImportRaises(taken')
        BY DEF ImportRaises
    <2> QED BY <2>1, <2>2, <2>3 DEF TakenGood
<1> QED BY <1>5, <1>6, <1>7, <1>8 DEF RestoreInv

LEMMA BeginRestoreKeeps ==
    ASSUME RestoreInv, NEW setup \in BOOLEAN, taken # NoBackup, Begin(taken, setup)
    PROVE  RestoreInv'
<1>1. /\ restoring.phase = "none"
      /\ restoring' = [NoRestore EXCEPT !.phase = "upload", !.setup = setup, !.from = taken]
      /\ UNCHANGED <<db, disk, export, taken>>
    BY DEF Begin
<1>2. /\ restoring' \in Restoration /\ restoring'.phase = "upload" /\ restoring'.from = taken
    BY <1>1, NoRestoreTyped DEF RestoreInv, RestoreTyped, Restoration
<1>3. RestoreTyped'
    BY <1>1, <1>2 DEF RestoreInv, RestoreTyped
<1>4. RestoreClosed(db') /\ Logged(db') /\ ExportGood' /\ TakenGood'
    BY <1>1 DEF RestoreInv, ExportGood, TakenGood, ImportRaises
<1>5. TransactionGood'
    BY <1>1, <1>2 DEF RestoreInv, TransactionGood, InTransaction
<1> QED BY <1>3, <1>4, <1>5 DEF RestoreInv

LEMMA ReinstallKeeps ==
    ASSUME RestoreInv, Reinstall
    PROVE  RestoreInv'
<1>1. /\ taken # NoBackup /\ restoring.phase = "none" /\ db' = EmptyDatabase
      /\ disk' = {} /\ UNCHANGED <<export, taken, restoring>>
    BY DEF Reinstall
<1>2. RestoreTyped'
    BY <1>1, EmptyTablesTyped DEF RestoreInv, RestoreTyped
<1>3. RestoreClosed(db') /\ Logged(db') /\ TakenGood'
    BY <1>1, EmptyTablesTyped DEF RestoreInv, TakenGood, ImportRaises
<1>4. ExportGood'
    <2>1. export.done = 0
        BY <1>1 DEF RestoreInv, RestoreTyped, ExportGood
    <2> QED BY <1>1, <2>1 DEF RestoreInv, ExportGood
<1>5. TransactionGood'
    BY <1>1, EmptyTablesTyped, TablesNamed DEF TransactionGood, InTransaction
<1> QED BY <1>2, <1>3, <1>4, <1>5 DEF RestoreInv

LEMMA ClearKeeps ==
    ASSUME RestoreInv, Clear
    PROVE  RestoreInv'
<1>1. /\ restoring.phase = "upload" /\ UNCHANGED <<db, export, taken>>
    BY DEF Clear
<1>2. restoring \in Restoration /\ db \in [Tables -> SUBSET Gens]
    BY DEF RestoreInv, RestoreTyped
<1>3. RestoreClosed(db') /\ Logged(db') /\ ExportGood' /\ TakenGood'
    BY <1>1 DEF RestoreInv, ExportGood, TakenGood, ImportRaises
<1>4. CASE ClearRaises(db)
    <2>1. restoring' = [restoring EXCEPT !.phase = "clearFailed"] /\ disk' = disk
        BY <1>4 DEF Clear
    <2>2. /\ restoring' \in Restoration /\ restoring'.phase = "clearFailed"
          /\ restoring'.from = restoring.from
        BY <1>2, <2>1 DEF Restoration
    <2>3. RestoreTyped'
        BY <1>1, <2>1, <2>2 DEF RestoreInv, RestoreTyped
    <2>4. TransactionGood'
        BY <1>1, <2>1, <2>2 DEF RestoreInv, TransactionGood, InTransaction
    <2> QED BY <1>3, <2>3, <2>4 DEF RestoreInv
<1>5. CASE ~ClearRaises(db)
    <2>1. restoring' = [restoring EXCEPT !.phase = "import", !.cleared = db] /\ disk' = {}
        BY <1>5 DEF Clear
    <2>2. /\ restoring' \in Restoration /\ restoring'.phase = "import"
          /\ restoring'.from = restoring.from /\ restoring'.cleared = db
        BY <1>2, <2>1 DEF Restoration
    <2>3. RestoreTyped'
        BY <1>1, <2>1, <2>2 DEF RestoreInv, RestoreTyped
    <2>4. \A t \in Tables : Kept'[t] = {}
        BY <1>1, <2>2 DEF Kept
    <2>5. RestoreClosed(Kept') /\ Logged(Kept')
        BY <2>4, EveryKeyFits, TablesNamed DEF RestoreClosed, Logged, Fits
    <2>6. TransactionGood'
        BY <1>1, <2>2, <2>5 DEF TransactionGood
    <2> QED BY <1>3, <2>3, <2>6 DEF RestoreInv
<1> QED BY <1>4, <1>5

\* A restoration that ends without its commit.
LEMMA AbortRestoreKeeps ==
    ASSUME RestoreInv, restoring' = NoRestore, disk' \subseteq Gens,
           UNCHANGED <<db, export, taken>>
    PROVE  RestoreInv'
<1>1. RestoreTyped'
    BY NoRestoreTyped DEF RestoreInv, RestoreTyped
<1>2. RestoreClosed(db') /\ Logged(db') /\ ExportGood' /\ TakenGood'
    BY DEF RestoreInv, ExportGood, TakenGood, ImportRaises
<1>3. TransactionGood'
    BY NoRestoreTyped DEF TransactionGood, InTransaction
<1> QED BY <1>1, <1>2, <1>3 DEF RestoreInv

LEMMA ClearStopsKeeps ==
    ASSUME RestoreInv, ClearStops
    PROVE  RestoreInv'
<1>1. disk' \subseteq Gens
    BY DEF ClearStops, RestoreInv, RestoreTyped
<1> QED BY <1>1, AbortRestoreKeeps DEF ClearStops

LEMMA ImportKeeps ==
    ASSUME RestoreInv, Import
    PROVE  RestoreInv'
<1>1. restoring.phase = "import" /\ UNCHANGED <<db, export, taken>>
    BY DEF Import
<1>2. CASE ImportRaises(restoring.from)
    BY <1>1, <1>2, AbortRestoreKeeps DEF Import, RestoreInv, RestoreTyped
<1>3. CASE ~ImportRaises(restoring.from)
    <2>1. /\ restoring' = [restoring EXCEPT !.phase = "commit"]
          /\ \E W \in SUBSET restoring.from.files : disk' = disk \cup W
        BY <1>3 DEF Import
    <2>2. /\ restoring' \in Restoration /\ restoring'.phase = "commit"
          /\ restoring'.from = restoring.from /\ restoring'.cleared = restoring.cleared
        BY <2>1 DEF RestoreInv, RestoreTyped, Restoration
    <2>3. restoring.from \in Snapshot /\ restoring.from.files \subseteq Gens
        BY <1>1 DEF RestoreInv, RestoreTyped, Snapshot
    <2>4. RestoreTyped'
        BY <1>1, <2>1, <2>2, <2>3 DEF RestoreInv, RestoreTyped
    <2>5. RestoreClosed(db') /\ Logged(db') /\ ExportGood' /\ TakenGood'
        BY <1>1 DEF RestoreInv, ExportGood, TakenGood, ImportRaises
    <2>6. TransactionGood'
        <3>1. InTransaction
            BY <1>1 DEF InTransaction
        <3>2. Kept' = Kept
            BY <1>1, <2>2 DEF Kept
        <3>4. ~ImportRaises(restoring.from)'
            BY <1>3, <2>2 DEF ImportRaises
        <3>5. /\ \A t \in Tables : restoring'.cleared[t] \subseteq db'[t]
              /\ RestoreClosed(Kept') /\ Logged(Kept')
            BY <1>1, <2>2, <3>1, <3>2 DEF RestoreInv, TransactionGood
        <3> QED BY <3>4, <3>5 DEF TransactionGood
    <2> QED BY <2>4, <2>5, <2>6 DEF RestoreInv
<1> QED BY <1>2, <1>3

LEMMA CommitRestoreKeeps ==
    ASSUME RestoreInv, CommitRestore
    PROVE  RestoreInv'
<1> DEFINE from == restoring.from
<1>1. /\ restoring.phase = "commit" /\ db' = Restored
      /\ restoring' = NoRestore
      /\ export' = IF export.done > 0 THEN [export EXCEPT !.got.quiet = FALSE] ELSE export
      /\ UNCHANGED <<disk, taken>>
    BY DEF CommitRestore
<1>2. taken # NoBackup /\ from = taken /\ from \in Snapshot
    BY <1>1 DEF RestoreInv, RestoreTyped
<1>3. export.done = 0 /\ export' = export
    BY <1>1, <1>2 DEF RestoreInv, RestoreTyped, ExportGood
<1>4. RestoreClosed(Restored) /\ Logged(Restored) /\ Restored \in [Tables -> SUBSET Gens]
    BY <1>1, RestoredIsClosed
<1>5. RestoreTyped'
    BY <1>1, <1>2, <1>3, <1>4, NoRestoreTyped, TablesNamed DEF RestoreInv, RestoreTyped, Snapshot
<1>6. RestoreClosed(db') /\ Logged(db') /\ TakenGood'
    BY <1>1, <1>4 DEF RestoreInv, TakenGood, ImportRaises
<1>7. ExportGood'
    BY <1>1, <1>3 DEF RestoreInv, ExportGood
<1>8. TransactionGood'
    BY <1>1, NoRestoreTyped DEF TransactionGood, InTransaction
<1> QED BY <1>5, <1>6, <1>7, <1>8 DEF RestoreInv

LEMMA RestoreStep == RestoreInv /\ [RestoreNext]_restoreVars => RestoreInv'
<1> SUFFICES ASSUME RestoreInv, [RestoreNext]_restoreVars
             PROVE  RestoreInv'
    OBVIOUS
<1>1. CASE UNCHANGED restoreVars
    BY <1>1 DEF restoreVars, RestoreInv, RestoreTyped, TransactionGood, ExportGood, TakenGood,
                InTransaction, Kept, ImportRaises
<1>2. CASE RestoreNext
    <2>1. ASSUME BeginRestore \/ BeginSetupRestore
          PROVE  RestoreInv'
        BY <2>1, BeginRestoreKeeps DEF BeginRestore, BeginSetupRestore
    <2>2. ASSUME GiveUp
          PROVE  RestoreInv'
        BY <2>2, AbortRestoreKeeps DEF GiveUp, RestoreInv, RestoreTyped
    <2> QED BY <1>2, <2>1, <2>2, WorkKeeps, LoseFileKeeps, CollectKeeps, FinishExportKeeps,
               ReinstallKeeps, ClearKeeps, ClearStopsKeeps, ImportKeeps, CommitRestoreKeeps DEF RestoreNext
<1> QED BY <1>1, <1>2

-----------------------------------------------------------------------------
(* _collect_data and _import_data: the rows of the database, of a running  *)
(* export and of a running restoration are well formed.                    *)
THEOREM RestoreTypes == RestoreSpec => []RestoreTypeOK
<1>1. RestoreInv => RestoreTypeOK
    BY CollectOrderFacts DEF RestoreInv, RestoreTyped, RestoreTypeOK
<1> QED BY <1>1, RestoreStart, RestoreStep, PTL DEF RestoreSpec

(* However many restorations came before it, a backup taken while nothing  *)
(* was committed passes the foreign keys in the order of _import_data.     *)
THEOREM QuietBackupsCanBeRestored == RestoreSpec => []QuietBackupImports
<1>1. RestoreInv => QuietBackupImports
    BY DEF RestoreInv, TakenGood, QuietBackupImports
<1> QED BY <1>1, RestoreStart, RestoreStep, PTL DEF RestoreSpec

(* setup_restore_backup asks for administrators before it reads the        *)
(* upload; the deletion of the accounts in _clear_all_data still meets no  *)
(* account, because an account came with the entries of its sign-in, which *)
(* refer to it and are deleted later.                                      *)
THEOREM SetupRemovesNoAccount == RestoreSpec => SetupSparesAccounts
<1>1. RestoreInv /\ [RestoreNext]_restoreVars
        => [(restoring.setup /\ restoring.phase = "upload" /\ restoring'.phase = "import")
              => db["admin_users"] = {}]_restoreVars
    <2> SUFFICES ASSUME RestoreInv, RestoreNext, restoring.phase = "upload",
                        restoring'.phase = "import"
                 PROVE  db["admin_users"] = {}
        OBVIOUS
    <2>1. Clear
        BY NoRestoreTyped DEF RestoreNext, Work, LoseFile, Collect, FinishExport, BeginRestore,
           BeginSetupRestore, Begin, Reinstall, ClearStops, Import, CommitRestore, GiveUp
    <2>2. ~ClearRaises(db)
        BY <2>1 DEF Clear, RestoreInv, RestoreTyped, Restoration
    <2> QED BY <2>2, ClearMeetsAccounts DEF RestoreInv
<1> QED BY <1>1, RestoreStart, RestoreStep, PTL DEF RestoreSpec, SetupSparesAccounts
===============================================================================
