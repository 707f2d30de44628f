------------------------- MODULE DashboardCache_proofs -------------------------
(***************************************************************************)
(* Proofs about DashboardCache for every set of keys and requests, every   *)
(* time to live and every bound on the changes: the state is well typed,   *)
(* and the operations that drop the dashboard after their commit leave     *)
(* nothing older than that commit.                                         *)
(***************************************************************************)
EXTENDS DashboardCache, TLAPS

-----------------------------------------------------------------------------
(* The type invariant *)

\* cache_service: every invalidation is a sequence of prefixes.
LEMMA InvalidatesSequence ==
    ASSUME NEW op
    PROVE  Invalidates(op) \in Seq(Prefixes)
<1>1. <<>> \in Seq(Prefixes)
    OBVIOUS
<1>2. <<"dashboard">> \in Seq(Prefixes) /\ <<"providers">> \in Seq(Prefixes)
    BY DEF Prefixes
<1>3. <<"providers", "dashboard">> \in Seq(Prefixes)
    BY DEF Prefixes
<1>4. <<"dashboard", "providers", "reports">> \in Seq(Prefixes)
    BY DEF Prefixes
<1> QED BY <1>1, <1>2, <1>3, <1>4, Zenon DEF Invalidates

\* The record of an idle request is well typed.
LEMMA IdleTyped == IdleReq \in Requesting
<1>1. <<>> \in Seq(Prefixes)
    OBVIOUS
<1>2. MaxChanges \in Nat
    BY CacheAssumptions
<1> QED BY <1>1, <1>2 DEF IdleReq, Requesting

\* What an open request is doing is well typed.
LEMMA RequestTyped ==
    ASSUME TypeOK, NEW r \in Requests
    PROVE  req[r] \in Requesting
BY DEF TypeOK

\* A request that becomes a well-typed record keeps the requests well typed.
LEMMA BecomeTyped ==
    ASSUME TypeOK, NEW r \in Requests, NEW rec \in Requesting, Become(r, rec)
    PROVE  req' \in [Requests -> Requesting]
BY DEF TypeOK, Become

\* get_cache_service leaves the client and the requests well typed.
LEMMA UseCacheTyped ==
    ASSUME TypeOK, NEW r \in Requests, NEW rec \in Requesting, UseCache(r, rec)
    PROVE  /\ conn' \in {"none", "connecting", "up", "off"}
           /\ req' \in [Requests -> Requesting]
<1> DEFINE next == [rec EXCEPT !.at = IF conn = "none" THEN "connect" ELSE CacheStep(rec)]
<1>1. next \in Requesting
    BY DEF Requesting, CacheStep
<1>2. req' \in [Requests -> Requesting]
    BY <1>1, BecomeTyped DEF UseCache
<1> QED BY <1>2 DEF UseCache, TypeOK

\* The two outcomes of a delete.
LEMMA WithoutTyped ==
    ASSUME TypeOK, NEW keys
    PROVE  /\ DOMAIN Without(keys) = Keys
           /\ \A k \in Keys : Without(keys)[k] \in Entry(k) \cup {NoEntry}
BY DEF TypeOK, Without

\* Dropping a prefix from the work that is left.
LEMMA NextPrefixTyped ==
    ASSUME NEW rec \in Requesting, rec.todo # <<>>
    PROVE  NextPrefix(rec) \in Requesting
<1>1. Tail(rec.todo) \in Seq(Prefixes)
    BY DEF Requesting
<1> QED BY <1>1 DEF NextPrefix, Requesting

\* Every step keeps the state well typed.
LEMMA TypeStep ==
    ASSUME TypeOK, [Next]_vars
    PROVE  TypeOK'
<1> USE CacheAssumptions
<1> DEFINE Db     == db' \in 0 .. MaxChanges
           Conn   == conn' \in {"none", "connecting", "up", "off"}
           Cached == /\ DOMAIN cache' = Keys
                     /\ \A k \in Keys : cache'[k] \in Entry(k) \cup {NoEntry}
           Open   == req' \in [Requests -> Requesting]
<1>0. SUFFICES Db /\ Conn /\ Cached /\ Open
    BY DEF TypeOK, Entry, TtlOf, Requesting
<1>1. UNCHANGED db => Db
    BY DEF TypeOK
<1>2. UNCHANGED conn => Conn
    BY DEF TypeOK
<1>3. UNCHANGED cache => Cached
    BY DEF TypeOK
<1>4. ASSUME UNCHANGED vars PROVE Db /\ Conn /\ Cached /\ Open
    BY <1>4 DEF vars, TypeOK
<1>5. ASSUME NEW r \in Requests, NEW k \in Keys, Read(r, k)
      PROVE  Db /\ Conn /\ Cached /\ Open
    <2> DEFINE rec == [IdleReq EXCEPT !.op = "read", !.key = k]
    <2>1. rec \in Requesting
        BY IdleTyped DEF Requesting
    <2>2. UseCache(r, rec)
        BY <1>5 DEF Read
    <2> QED BY <1>1, <1>3, <1>5, <2>1, <2>2, UseCacheTyped DEF Read
<1>6. ASSUME NEW r \in Requests, NEW op \in Changes, Change(r, op)
      PROVE  Db /\ Conn /\ Cached /\ Open
    <2> DEFINE rec == [IdleReq EXCEPT !.op = op, !.at = "commit", !.todo = Invalidates(op)]
    <2>1. rec \in Requesting
        BY IdleTyped, InvalidatesSequence DEF Requesting
    <2>2. CASE CommitsFirst(op)
        <3>1. Become(r, rec) /\ UNCHANGED <<db, conn, cache>>
            BY <1>6, <2>2 DEF Change
        <3> QED BY <1>1, <1>2, <1>3, <2>1, <3>1, BecomeTyped
    <2>3. CASE ~CommitsFirst(op)
        <3>1. UseCache(r, rec) /\ UNCHANGED <<db, cache>>
            BY <1>6, <2>3 DEF Change
        <3> QED BY <1>1, <1>3, <2>1, <3>1, UseCacheTyped
    <2> QED BY <2>2, <2>3
<1>7. ASSUME NEW r \in Requests, Connect(r) PROVE Db /\ Conn /\ Cached /\ Open
    <2> DEFINE rec == [req[r] EXCEPT !.at = CacheStep(req[r])]
    <2>1. rec \in Requesting
        BY RequestTyped DEF Requesting, CacheStep
    <2>2. Become(r, rec) /\ UNCHANGED <<db, cache>> /\ conn' \in {"up", "off"}
        BY <1>7 DEF Connect
    <2> QED BY <1>1, <1>3, <2>1, <2>2, BecomeTyped
<1>8. ASSUME NEW r \in Requests, Hit(r) \/ SetFails(r) \/ RequestFails(r) \/ Respond(r)
      PROVE  Db /\ Conn /\ Cached /\ Open
    <2>1. Become(r, IdleReq) /\ UNCHANGED <<db, conn, cache>>
        BY <1>8 DEF Hit, SetFails, RequestFails, Respond
    <2> QED BY <1>1, <1>2, <1>3, <2>1, IdleTyped, BecomeTyped
<1>9. ASSUME NEW r \in Requests, Miss(r) \/ Query(r) PROVE Db /\ Conn /\ Cached /\ Open
    <2>1. PICK rec \in Requesting : Become(r, rec)
        <3>1. [req[r] EXCEPT !.at = "query"] \in Requesting
            BY RequestTyped DEF Requesting
        <3>2. [req[r] EXCEPT !.at = "set", !.seen = db] \in Requesting
            BY RequestTyped DEF TypeOK, Requesting
        <3> QED BY <1>9, <3>1, <3>2 DEF Miss, Query
    <2> QED BY <1>1, <1>2, <1>3, <1>9, <2>1, BecomeTyped DEF Miss, Query
<1>10. ASSUME NEW r \in Requests, SetEntry(r) PROVE Db /\ Conn /\ Cached /\ Open
    <2> DEFINE entry == [seen |-> req[r].seen, stored |-> db, left |-> TtlOf(req[r].key)]
    <2>1. cache' = [cache EXCEPT ![req[r].key] = entry]
        BY <1>10 DEF SetEntry
    <2>2. ASSUME NEW k \in Keys, k = req[r].key PROVE entry \in Entry(k)
        <3>1. TtlOf(k) \in Nat
            BY DEF TtlOf
        <3> QED BY <2>2, <3>1 DEF Entry, TypeOK, Requesting
    <2>3. Cached
        BY <2>1, <2>2 DEF TypeOK
    <2> QED BY <1>1, <1>2, <1>10, <2>3, IdleTyped, BecomeTyped DEF SetEntry
<1>11. ASSUME NEW r \in Requests, NEW k \in Keys, ScanKey(r, k)
       PROVE  Db /\ Conn /\ Cached /\ Open
    <2> DEFINE rec == [req[r] EXCEPT !.visited = @ \cup {k},
                                     !.found = IF cache[k] = NoEntry THEN @ ELSE @ \cup {k}]
    <2>1. rec \in Requesting
        BY RequestTyped DEF Requesting
    <2> QED BY <1>1, <1>2, <1>3, <1>11, <2>1, BecomeTyped DEF ScanKey
<1>12. ASSUME NEW r \in Requests, DeleteFound(r) PROVE Db /\ Conn /\ Cached /\ Open
    <2>1. NextPrefix(req[r]) \in Requesting
        BY <1>12, NextPrefixTyped DEF DeleteFound, Dropping, TypeOK
    <2> QED BY <1>1, <1>2, <1>12, <2>1, BecomeTyped, WithoutTyped DEF DeleteFound
<1>13. ASSUME NEW r \in Requests, DropFails(r) PROVE Db /\ Conn /\ Cached /\ Open
    <2>1. NextPrefix(req[r]) \in Requesting
        BY <1>13, NextPrefixTyped DEF DropFails, Dropping, TypeOK
    <2>2. [NextPrefix(req[r]) EXCEPT !.sure = FALSE] \in Requesting
        BY <2>1 DEF Requesting
    <2>3. Cached
        BY <1>3, <1>13, WithoutTyped DEF DropFails
    <2> QED BY <1>1, <1>2, <1>13, <2>2, <2>3, BecomeTyped DEF DropFails
<1>14. ASSUME NEW r \in Requests, Dropped(r) PROVE Db /\ Conn /\ Cached /\ Open
    <2>1. [req[r] EXCEPT !.at = IF CommitsFirst(req[r].op) THEN "done" ELSE "commit"]
            \in Requesting
        BY RequestTyped DEF Requesting
    <2> QED BY <1>1, <1>2, <1>3, <1>14, <2>1, BecomeTyped DEF Dropped
<1>15. ASSUME NEW r \in Requests, Commit(r) PROVE Db /\ Conn /\ Cached /\ Open
    <2> DEFINE rec == [req[r] EXCEPT !.change = db + 1]
    <2>1. db + 1 \in 0 .. MaxChanges
        BY <1>15 DEF Commit, TypeOK
    <2>2. rec \in Requesting
        BY <2>1, RequestTyped DEF Requesting
    <2>3. CASE rec.todo # <<>>
        <3>1. UseCache(r, rec)
            BY <1>15, <2>3 DEF Commit
        <3> QED BY <1>3, <1>15, <2>1, <2>2, <3>1, UseCacheTyped DEF Commit
    <2>4. CASE rec.todo = <<>>
        <3>1. Become(r, [rec EXCEPT !.at = "done"]) /\ UNCHANGED conn
            BY <1>15, <2>4 DEF Commit
        <3>2. [rec EXCEPT !.at = "done"] \in Requesting
            BY <2>2 DEF Requesting
        <3> QED BY <1>2, <1>3, <1>15, <2>1, <3>1, <3>2, BecomeTyped DEF Commit
    <2> QED BY <2>3, <2>4
<1>16. ASSUME Tick PROVE Db /\ Conn /\ Cached /\ Open
    <2>1. ASSUME NEW k \in Keys, cache[k] # NoEntry, cache[k].left # 0
          PROVE  Aged(cache[k]) \in Entry(k) \cup {NoEntry}
        <3>1. TtlOf(k) \in Nat /\ cache[k] \in Entry(k)
            BY <2>1 DEF TtlOf, TypeOK
        <3> QED BY <2>1, <3>1 DEF Entry, Aged
    <2>2. Cached
        BY <1>16, <2>1 DEF Tick, TypeOK
    <2> QED BY <1>1, <1>2, <1>16, <2>2 DEF Tick, TypeOK
<1>17. ASSUME Restart PROVE Db /\ Conn /\ Cached /\ Open
    BY <1>1, <1>3, <1>17, IdleTyped DEF Restart
<1> QED BY <1>4, <1>5, <1>6, <1>7, <1>8, <1>9, <1>10, <1>11, <1>12, <1>13, <1>14, <1>15,
           <1>16, <1>17 DEF Next, RequestStep, ReadStep, ChangeStep

\* The cache and the requests stay within their types.
THEOREM CacheTypes == Spec => []TypeOK
<1>1. Init => TypeOK
    BY CacheAssumptions, IdleTyped DEF Init, TypeOK
<1>2. TypeOK /\ [Next]_vars => TypeOK'
    BY TypeStep
<1> QED BY <1>1, <1>2, PTL DEF Spec

-----------------------------------------------------------------------------
(* A change that drops the dashboard after its commit *)

\* The request, the cache and the number of changes fit together: from its commit on
\* every older dashboard that is still there is one that the request has yet to drop,
\* and a key the SCAN has passed without finding an entry holds no older one.
OlderStillToDrop(rec, stored, changes) ==
    rec.op = "apply" =>
        /\ rec.at \in {"connect", "drop", "commit", "done"}
        /\ rec.todo \in {<<>>, <<"dashboard">>}
        /\ rec.at \in {"connect", "commit"} => rec.todo = <<"dashboard">> /\ rec.visited = {}
        /\ rec.at = "done" => rec.todo = <<>>
        /\ rec.at # "commit" => rec.change <= changes
        /\ rec.at # "commit" /\ rec.sure =>
              \A k \in Keys :
                 PrefixOf[k] = "dashboard" /\ stored[k] # NoEntry /\ stored[k].stored < rec.change
                     => rec.todo = <<"dashboard">> /\ (k \in rec.visited => k \in rec.found)

IInv == TypeOK /\ \A r \in Requests : OlderStillToDrop(req[r], cache, db)

\* The work list of "apply the rules".
LEMMA OnePrefix == <<"dashboard">> # <<>> /\ Tail(<<"dashboard">>) = <<>>
OBVIOUS

\* How the cache moves: an entry stays, ages or goes, and a new one is stored under
\* the changes committed so far.
CacheMoves ==
    /\ db' \in Nat /\ db <= db'
    /\ \A k \in Keys :
          \/ cache'[k] = NoEntry
          \/ cache[k] # NoEntry /\ cache'[k].stored = cache[k].stored
          \/ cache'[k].stored = db

\* Every step moves the cache that way.
LEMMA StepMovesCache ==
    ASSUME TypeOK, [Next]_vars
    PROVE  CacheMoves
<1> USE CacheAssumptions
<1>1. db \in Nat
    BY DEF TypeOK
<1>2. UNCHANGED db /\ UNCHANGED cache => CacheMoves
    BY <1>1 DEF CacheMoves
<1>3. \A keys : UNCHANGED db /\ cache' = Without(keys) => CacheMoves
    BY <1>1 DEF CacheMoves, Without, TypeOK
<1>4. ASSUME NEW r \in Requests, SetEntry(r) PROVE CacheMoves
    BY <1>1, <1>4 DEF SetEntry, CacheMoves, TypeOK
<1>5. ASSUME NEW r \in Requests, DeleteFound(r) \/ DropFails(r) PROVE CacheMoves
    BY <1>2, <1>3, <1>5 DEF DeleteFound, DropFails
<1>6. ASSUME NEW r \in Requests, Commit(r) PROVE CacheMoves
    BY <1>1, <1>6 DEF Commit, CacheMoves
<1>7. ASSUME Tick PROVE CacheMoves
    <2>1. \A k \in Keys : cache[k] # NoEntry =>
             Aged(cache[k]) = NoEntry \/ Aged(cache[k]).stored = cache[k].stored
        BY DEF Aged, TypeOK, Entry
    <2> QED BY <1>1, <1>7, <2>1 DEF Tick, CacheMoves
<1>8. ASSUME NEW r \in Requests,
             \/ Connect(r) \/ Hit(r) \/ Miss(r) \/ Query(r) \/ SetFails(r) \/ Dropped(r)
             \/ RequestFails(r) \/ Respond(r)
             \/ \E k \in Keys : Read(r, k) \/ ScanKey(r, k)
             \/ \E op \in Changes : Change(r, op)
      PROVE  CacheMoves
    <2>1. UNCHANGED db /\ UNCHANGED cache
        BY <1>8 DEF Connect, Hit, Miss, Query, SetFails, Dropped, RequestFails, Respond,
                    Read, ScanKey, Change
    <2> QED BY <1>2, <2>1
<1>9. Restart => CacheMoves
    BY <1>2 DEF Restart
<1>10. UNCHANGED vars => CacheMoves
    BY <1>2 DEF vars
<1> QED BY <1>4, <1>5, <1>6, <1>7, <1>8, <1>9, <1>10
        DEF Next, RequestStep, ReadStep, ChangeStep

\* A request that does not take the step keeps its part of the invariant.
LEMMA OthersUndisturbed ==
    ASSUME TypeOK, CacheMoves, NEW r \in Requests, OlderStillToDrop(req[r], cache, db)
    PROVE  OlderStillToDrop(req[r], cache', db')
<1>1. req[r].change \in Nat /\ db \in Nat
    BY CacheAssumptions, RequestTyped DEF TypeOK, Requesting
<1> QED BY <1>1 DEF OlderStillToDrop, CacheMoves

\* A step of r reduces to what it does to r's own record.
LEMMA OwnStep ==
    ASSUME IInv, CacheMoves, NEW r \in Requests, NEW rec, Become(r, rec),
           OlderStillToDrop(rec, cache', db')
    PROVE  \A s \in Requests : OlderStillToDrop(req'[s], cache', db')
<1>1. \A s \in Requests : OlderStillToDrop(req[s], cache', db')
    BY OthersUndisturbed DEF IInv
<1> QED BY <1>1 DEF Become, IInv, TypeOK

\* Every step keeps the invariant.
LEMMA DropStep ==
    ASSUME IInv, [Next]_vars
    PROVE  \A r \in Requests : OlderStillToDrop(req'[r], cache', db')
<1> DEFINE Kept == \A r \in Requests : OlderStillToDrop(req'[r], cache', db')
<1>1. CacheMoves
    BY StepMovesCache DEF IInv
<1>2. ASSUME NEW r \in Requests PROVE OlderStillToDrop(req[r], cache', db')
    BY <1>1, OthersUndisturbed DEF IInv
<1>3. ASSUME UNCHANGED req PROVE Kept
    BY <1>2, <1>3
<1>4. ASSUME NEW r \in Requests, NEW rec, rec.op # "apply", Become(r, rec) PROVE Kept
    BY <1>1, <1>4, OwnStep DEF OlderStillToDrop
<1>5. ASSUME NEW r \in Requests PROVE req[r] \in Requesting
    BY RequestTyped DEF IInv
<1>6. ASSUME NEW r \in Requests, NEW k \in Keys, Read(r, k) PROVE Kept
    <2> DEFINE rec == [IdleReq EXCEPT !.op = "read", !.key = k]
    <2>1. PICK at : Become(r, [rec EXCEPT !.at = at])
        BY <1>6 DEF Read, UseCache
    <2>2. [rec EXCEPT !.at = at].op # "apply"
        BY DEF IdleReq
    <2> QED BY <1>4, <2>1, <2>2
<1>7. ASSUME NEW r \in Requests, NEW op \in Changes, Change(r, op) PROVE Kept
    <2> DEFINE rec == [IdleReq EXCEPT !.op = op, !.at = "commit", !.todo = Invalidates(op)]
    <2>1. CASE op = "apply"
        <3>1. Become(r, rec)
            BY <1>7, <2>1 DEF Change, CommitsFirst
        <3>2. Invalidates(op) = <<"dashboard">>
            BY <2>1 DEF Invalidates
        <3>3. OlderStillToDrop(rec, cache', db')
            BY <3>2 DEF OlderStillToDrop, IdleReq
        <3> QED BY <1>1, <3>1, <3>3, OwnStep
    <2>2. CASE op # "apply"
        <3>1. PICK at : Become(r, rec) \/ Become(r, [rec EXCEPT !.at = at])
            BY <1>7 DEF Change, UseCache
        <3>2. rec.op # "apply" /\ [rec EXCEPT !.at = at].op # "apply"
            BY <2>2 DEF IdleReq
        <3> QED BY <1>4, <3>1, <3>2
    <2> QED BY <2>1, <2>2
<1>8. ASSUME NEW r \in Requests, Connect(r) PROVE Kept
    <2> DEFINE rec == [req[r] EXCEPT !.at = CacheStep(req[r])]
    <2>1. Become(r, rec) /\ req[r].at = "connect"
        BY <1>8 DEF Connect
    <2>2. OlderStillToDrop(rec, cache', db')
        BY <1>2, <1>5, <2>1 DEF OlderStillToDrop, CacheStep, Requesting
    <2> QED BY <1>1, <2>1, <2>2, OwnStep
<1>9. ASSUME NEW r \in Requests,
             Hit(r) \/ SetEntry(r) \/ SetFails(r) \/ RequestFails(r) \/ Respond(r)
      PROVE  Kept
    <2>1. Become(r, IdleReq)
        BY <1>9 DEF Hit, SetEntry, SetFails, RequestFails, Respond
    <2> QED BY <1>4, <2>1 DEF IdleReq
<1>10. ASSUME NEW r \in Requests, Miss(r) \/ Query(r) PROVE Kept
    <2>1. req[r].op # "apply"
        BY <1>10 DEF Miss, Query, IInv, OlderStillToDrop
    <2> DEFINE missed  == [req[r] EXCEPT !.at = "query"]
               queried == [req[r] EXCEPT !.at = "set", !.seen = db]
    <2>2. Become(r, missed) \/ Become(r, queried)
        BY <1>10 DEF Miss, Query
    <2>3. missed.op # "apply" /\ queried.op # "apply"
        BY <1>5, <2>1 DEF Requesting
    <2> QED BY <1>4, <2>2, <2>3
<1>11. ASSUME NEW r \in Requests, NEW k \in Keys, ScanKey(r, k) PROVE Kept
    <2> DEFINE rec == [req[r] EXCEPT !.visited = @ \cup {k},
                                     !.found = IF cache[k] = NoEntry THEN @ ELSE @ \cup {k}]
    <2>1. Become(r, rec) /\ UNCHANGED cache /\ req[r].at = "drop"
        BY <1>11 DEF ScanKey, Dropping
    <2>2. OlderStillToDrop(rec, cache', db')
        BY <1>2, <1>5, <2>1 DEF OlderStillToDrop, Requesting
    <2> QED BY <1>1, <2>1, <2>2, OwnStep
<1>12. ASSUME NEW r \in Requests, DeleteFound(r) PROVE Kept
    <2> DEFINE rec == NextPrefix(req[r])
    <2>1. Become(r, rec) /\ req[r].at = "drop" /\ req[r].todo # <<>>
        BY <1>12 DEF DeleteFound, Dropping
    <2>2. CASE req[r].op = "apply"
        <3>1. req[r].todo = <<"dashboard">>
            BY <2>1, <2>2 DEF IInv, OlderStillToDrop
        <3>2. ASSUME NEW k \in Keys, PrefixOf[k] = "dashboard", cache'[k] # NoEntry,
                     req[r].sure
              PROVE  ~(cache'[k].stored < req[r].change)
            <4>1. k \in req[r].visited
                BY <1>12, <3>1, <3>2 DEF DeleteFound
            <4>2. cache'[k] = cache[k] /\ k \notin req[r].found
                BY <1>12, <3>2 DEF DeleteFound, Without
            <4> QED BY <2>1, <2>2, <3>2, <4>1, <4>2 DEF IInv, OlderStillToDrop
        <3>3. rec.todo = <<>> /\ rec.at = "drop" /\ rec.sure = req[r].sure
                /\ rec.change = req[r].change
            BY <1>5, <2>1, <3>1 DEF NextPrefix, Requesting
        <3>4. OlderStillToDrop(rec, cache', db')
            BY <1>2, <2>1, <2>2, <3>2, <3>3 DEF OlderStillToDrop
        <3> QED BY <1>1, <2>1, <3>4, OwnStep
    <2>3. CASE req[r].op # "apply"
        <3>1. rec.op # "apply"
            BY <1>5, <2>3 DEF NextPrefix, Requesting
        <3> QED BY <1>4, <2>1, <3>1
    <2> QED BY <2>2, <2>3
<1>13. ASSUME NEW r \in Requests, DropFails(r) PROVE Kept
    <2> DEFINE rec == [NextPrefix(req[r]) EXCEPT !.sure = FALSE]
    <2>1. Become(r, rec) /\ req[r].at = "drop" /\ req[r].todo # <<>>
        BY <1>13 DEF DropFails, Dropping
    <2>2. rec.op = req[r].op /\ rec.at = "drop" /\ rec.sure = FALSE
            /\ rec.todo = Tail(req[r].todo) /\ rec.change = req[r].change
        BY <1>5, <2>1 DEF NextPrefix, Requesting
    <2>3. req[r].op = "apply" => rec.todo = <<>>
        <3>1. req[r].op = "apply" => req[r].todo = <<"dashboard">>
            BY <2>1 DEF IInv, OlderStillToDrop
        <3>2. req[r].op = "apply" => rec.todo = Tail(<<"dashboard">>)
            BY <2>2, <3>1
        <3> QED BY <3>2, OnePrefix
    <2>4. OlderStillToDrop(rec, cache', db')
        BY <1>2, <2>1, <2>2, <2>3 DEF OlderStillToDrop
    <2> QED BY <1>1, <2>1, <2>4, OwnStep
<1>14. ASSUME NEW r \in Requests, Dropped(r) PROVE Kept
    <2> DEFINE rec == [req[r] EXCEPT !.at = IF CommitsFirst(req[r].op) THEN "done" ELSE "commit"]
    <2>1. Become(r, rec) /\ req[r].at = "drop" /\ req[r].todo = <<>>
        BY <1>14 DEF Dropped
    <2>2. OlderStillToDrop(rec, cache', db')
        BY <1>2, <1>5, <2>1 DEF OlderStillToDrop, CommitsFirst, Requesting
    <2> QED BY <1>1, <2>1, <2>2, OwnStep
<1>15. ASSUME NEW r \in Requests, Commit(r) PROVE Kept
    <2> DEFINE rec == [req[r] EXCEPT !.change = db + 1]
               next(at) == [rec EXCEPT !.at = at]
    <2>1. CASE req[r].op = "apply"
        <3>1. req[r].todo = <<"dashboard">> /\ req[r].visited = {}
            BY <1>15, <2>1 DEF Commit, IInv, OlderStillToDrop
        <3>2. /\ rec.todo = <<"dashboard">> /\ rec.op = "apply"
              /\ rec.visited = {} /\ rec.change = db + 1
            BY <1>5, <2>1, <3>1 DEF Requesting
        <3>3. PICK at \in {"connect", "drop"} : Become(r, next(at))
            <4>1. UseCache(r, rec)
                BY <1>15, <3>2, OnePrefix DEF Commit
            <4>2. CacheStep(rec) = "drop"
                BY <3>2 DEF CacheStep
            <4> QED BY <4>1, <4>2 DEF UseCache
        <3>4. db' = db + 1 /\ db \in Nat
            BY <1>15 DEF Commit, IInv, TypeOK
        <3>5. /\ next(at).todo = <<"dashboard">> /\ next(at).op = "apply"
              /\ next(at).visited = {} /\ next(at).change = db + 1 /\ next(at).at = at
            BY <1>5, <3>2 DEF Requesting
        <3> HIDE DEF rec, next
        <3>6. OlderStillToDrop(next(at), cache', db')
            BY <3>3, <3>4, <3>5 DEF OlderStillToDrop
        <3> QED BY <1>1, <3>3, <3>6, OwnStep
    <2>2. CASE req[r].op # "apply"
        <3>1. PICK at : Become(r, next(at))
            <4>1. UseCache(r, rec) \/ Become(r, next("done"))
                BY <1>15 DEF Commit
            <4> QED BY <4>1 DEF UseCache
        <3>2. next(at).op # "apply"
            BY <1>5, <2>2 DEF Requesting
        <3> QED BY <1>4, <3>1, <3>2
    <2> QED BY <2>1, <2>2
<1>16. Tick => Kept
    BY <1>3 DEF Tick
<1>17. Restart => Kept
    BY DEF Restart, OlderStillToDrop, IdleReq
<1>18. UNCHANGED vars => Kept
    BY <1>3 DEF vars
<1> QED BY <1>6, <1>7, <1>8, <1>9, <1>10, <1>11, <1>12, <1>13, <1>14, <1>15, <1>16, <1>17,
           <1>18 DEF Next, RequestStep, ReadStep, ChangeStep

\* The invariant is inductive.
LEMMA Inductive ==
    ASSUME IInv, [Next]_vars
    PROVE  IInv'
<1>1. TypeOK'
    BY TypeStep DEF IInv
<1> QED BY <1>1, DropStep DEF IInv, OlderStillToDrop

\* When one of the "apply the rules" operations is through, no dashboard that was
\* stored before its commit is cached, unless a delete failed.
THEOREM ApplyDropsOlderHolds == Spec => []ApplyDropsOlder
<1>1. Init => IInv
    BY CacheAssumptions, IdleTyped DEF Init, IInv, TypeOK, OlderStillToDrop, IdleReq
<1>2. IInv /\ [Next]_vars => IInv'
    BY Inductive
<1>3. IInv => ApplyDropsOlder
    <2> SUFFICES ASSUME IInv, NEW r \in Requests, req[r].op = "apply", req[r].at = "done",
                        req[r].sure, NEW k \in Keys, Covers("apply", k), cache[k] # NoEntry
                 PROVE  cache[k].stored >= req[r].change
        BY DEF ApplyDropsOlder, DropsOlder
    <2>1. PrefixOf[k] = "dashboard"
        BY DEF Covers, Invalidates
    <2>2. ~(cache[k].stored < req[r].change)
        BY <2>1 DEF IInv, OlderStillToDrop
    <2>3. cache[k].stored \in Int /\ req[r].change \in Int
        BY RequestTyped DEF IInv, TypeOK, Entry, Requesting
    <2> QED BY <2>2, <2>3
<1> QED BY <1>1, <1>2, <1>3, PTL DEF Spec
===============================================================================
