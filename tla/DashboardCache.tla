---------------------------- MODULE DashboardCache ----------------------------
(***************************************************************************)
(* The Redis cache in front of the dashboard, the provider list and the    *)
(* reports (cache_service).  A read looks in the cache, computes a missing *)
(* response from the database and stores it with a time to live.  A change *)
(* drops the cached responses it knows of: most services do so before they *)
(* commit, the three "apply rules" operations after it, and many changes   *)
(* (cancellation, renewal, manual licences, packages, the daily job) do    *)
(* not at all.  Redis errors are swallowed: a failed get is a miss, a      *)
(* failed set or delete does nothing.                                      *)
(*                                                                         *)
(* What a response says is abstracted to the number of changes that its    *)
(* oldest query saw: the queries of one response run under READ COMMITTED, *)
(* the later ones see at least as much.                                    *)
(***************************************************************************)
EXTENDS Integers, Sequences

CONSTANTS
    Keys,           \* cached responses
    PrefixOf,       \* [Keys -> Prefixes]
    Requests,       \* concurrent API requests
    Ttl,            \* settings.cache_ttl_dashboard, cache_ttl_providers, in ticks
    ReportTtl,      \* REPORT_CACHE_TTL, in ticks
    MaxChanges,     \* bound: committed changes
    NoKey, NoEntry

\* Departments and payment methods have a prefix too, but nothing is stored there.
Prefixes == {"dashboard", "providers", "reports"}

ASSUME CacheAssumptions ==
    /\ PrefixOf \in [Keys -> Prefixes]
    /\ Ttl \in Nat /\ ReportTtl \in Nat \ {0} /\ MaxChanges \in Nat
    /\ NoKey \notin Keys

\* The changes by what they drop: licence requests and match reviews, provider
\* requests, logos, trigger_sync (invalidate_all), the rules applied to all
\* licences, everything else.
Changes == {"license", "provider", "logo", "sync", "apply", "other"}

Invalidates(op) ==
    CASE op \in {"license", "apply"} -> <<"dashboard">>
      [] op = "provider"             -> <<"providers", "dashboard">>
      [] op = "logo"                 -> <<"providers">>
      [] op = "sync"                 -> <<"dashboard", "providers", "reports">>
      [] OTHER                       -> <<>>

Covers(op, k) == \E i \in DOMAIN Invalidates(op) : Invalidates(op)[i] = PrefixOf[k]

\* Mutant: the cache is dropped ahead of every commit.
NeverCommitsFirst(op) == op = "other"

CommitsFirst(op) == op \in {"apply", "other"}

TtlOf(k) == IF PrefixOf[k] = "reports" THEN ReportTtl ELSE Ttl

\* left: ticks until the entry expires, 0 where it never does (a TTL of 0 is falsy);
\* stored: history, the changes committed when it was stored.
Entry(k) == [seen: 0 .. MaxChanges, stored: 0 .. MaxChanges,
             left: IF TtlOf(k) = 0 THEN {0} ELSE 1 .. TtlOf(k)]

VARIABLES
    db,       \* how many changes are committed
    conn,     \* the process's cache client
    cache,    \* [Keys -> entry or NoEntry]: Redis
    req       \* [Requests -> what an open request is doing]

vars == <<db, conn, cache, req>>

\* seen: what a read's oldest query saw; change: the number of the change a request
\* committed; todo: prefixes still to be dropped, visited and found: the keys that the
\* SCAN of the first one has passed and returned; sure: no delete failed so far.
IdleReq == [op |-> "none", at |-> "idle", key |-> NoKey, seen |-> 0, change |-> 0,
            todo |-> <<>>, visited |-> {}, found |-> {}, sure |-> TRUE]

Requesting ==
    [op: Changes \cup {"none", "read"},
     at: {"idle", "connect", "get", "query", "set", "drop", "commit", "done"},
     key: Keys \cup {NoKey}, seen: 0 .. MaxChanges, change: 0 .. MaxChanges,
     todo: Seq(Prefixes), visited: SUBSET Keys, found: SUBSET Keys, sure: BOOLEAN]

Init ==
    /\ db = 0
    /\ conn = "none"
    /\ cache = [k \in Keys |-> NoEntry]
    /\ req = [r \in Requests |-> IdleReq]

Become(r, rec) == req' = [req EXCEPT ![r] = rec]

-----------------------------------------------------------------------------
(* The client *)

CacheStep(rec) == IF rec.op = "read" THEN "get" ELSE "drop"

\* get_cache_service: the first caller makes the instance and waits for its ping; the
\* others go on at once, with a client that is not connected yet.
UseCache(r, rec) ==
    /\ conn' = IF conn = "none" THEN "connecting" ELSE conn
    /\ Become(r, [rec EXCEPT !.at = IF conn = "none" THEN "connect" ELSE CacheStep(rec)])

\* A failed ping turns the cache off for the life of the process.
Connect(r) ==
    /\ req[r].at = "connect"
    /\ conn' \in {"up", "off"}
    /\ Become(r, [req[r] EXCEPT !.at = CacheStep(req[r])])
    /\ UNCHANGED <<db, cache>>

-----------------------------------------------------------------------------
(* Reads: get_dashboard_cached, list_providers_cached, the report endpoints *)

Read(r, k) ==
    /\ req[r] = IdleReq
    /\ UseCache(r, [IdleReq EXCEPT !.op = "read", !.key = k])
    /\ UNCHANGED <<db, cache>>

\* Mutant: a hit starts the time to live again.
SlidingHit(r) ==
    /\ req[r].at = "get" /\ conn = "up" /\ cache[req[r].key] # NoEntry
    /\ Become(r, IdleReq)
    /\ cache' = [cache EXCEPT ![req[r].key].left = TtlOf(req[r].key)]
    /\ UNCHANGED <<db, conn>>

Hit(r) ==
    /\ req[r].at = "get" /\ conn = "up" /\ cache[req[r].key] # NoEntry
    /\ Become(r, IdleReq)
    /\ UNCHANGED <<db, conn, cache>>

\* No entry, no connection, or a Redis error.
Miss(r) ==
    /\ req[r].at = "get"
    /\ Become(r, [req[r] EXCEPT !.at = "query"])
    /\ UNCHANGED <<db, conn, cache>>

Query(r) ==
    /\ req[r].at = "query"
    /\ Become(r, [req[r] EXCEPT !.at = "set", !.seen = db])
    /\ UNCHANGED <<db, conn, cache>>

\* setex, or set without an expiry where the TTL is 0
SetEntry(r) ==
    /\ req[r].at = "set" /\ conn = "up"
    /\ cache' = [cache EXCEPT ![req[r].key] =
                    [seen |-> req[r].seen, stored |-> db, left |-> TtlOf(req[r].key)]]
    /\ Become(r, IdleReq)
    /\ UNCHANGED <<db, conn>>

SetFails(r) ==
    /\ req[r].at = "set"
    /\ Become(r, IdleReq)
    /\ UNCHANGED <<db, conn, cache>>

-----------------------------------------------------------------------------
(* Changes *)

Change(r, op) ==
    /\ req[r] = IdleReq
    /\ LET rec == [IdleReq EXCEPT !.op = op, !.at = "commit", !.todo = Invalidates(op)]
       IN  IF CommitsFirst(op) THEN Become(r, rec) /\ UNCHANGED conn
                               ELSE UseCache(r, rec)
    /\ UNCHANGED <<db, cache>>

Dropping(r) == req[r].at = "drop" /\ req[r].todo # <<>>

\* SCAN passes every key that stays; one stored meanwhile is found if not yet passed.
ScanKey(r, k) ==
    /\ Dropping(r) /\ conn = "up"
    /\ PrefixOf[k] = Head(req[r].todo) /\ k \notin req[r].visited
    /\ Become(r, [req[r] EXCEPT !.visited = @ \cup {k},
                                !.found = IF cache[k] = NoEntry THEN @ ELSE @ \cup {k}])
    /\ UNCHANGED <<db, conn, cache>>

Without(keys) == [k \in Keys |-> IF k \in keys THEN NoEntry ELSE cache[k]]

NextPrefix(rec) == [rec EXCEPT !.todo = Tail(@), !.visited = {}, !.found = {}]

DeleteFound(r) ==
    /\ Dropping(r) /\ conn = "up"
    /\ \A k \in Keys : PrefixOf[k] = Head(req[r].todo) => k \in req[r].visited
    /\ cache' = Without(req[r].found)
    /\ Become(r, NextPrefix(req[r]))
    /\ UNCHANGED <<db, conn>>

\* delete_pattern returns 0: not connected, or an error, with DEL done or not.
DropFails(r) ==
    /\ Dropping(r)
    /\ cache' \in {cache, Without(req[r].found)}
    /\ Become(r, [NextPrefix(req[r]) EXCEPT !.sure = FALSE])
    /\ UNCHANGED <<db, conn>>

Dropped(r) ==
    /\ req[r].at = "drop" /\ req[r].todo = <<>>
    /\ Become(r, [req[r] EXCEPT !.at = IF CommitsFirst(req[r].op) THEN "done" ELSE "commit"])
    /\ UNCHANGED <<db, conn, cache>>

\* session.commit(), in the service or (trigger_sync) in get_db after the handler
Commit(r) ==
    /\ req[r].at = "commit" /\ db < MaxChanges
    /\ db' = db + 1
    /\ LET rec == [req[r] EXCEPT !.change = db + 1]
       IN  IF rec.todo # <<>> THEN UseCache(r, rec)
                              ELSE Become(r, [rec EXCEPT !.at = "done"]) /\ UNCHANGED conn
    /\ UNCHANGED cache

\* A database error in a query or in the commit: get_db rolls back.
RequestFails(r) ==
    /\ req[r].at \in {"query", "commit"}
    /\ Become(r, IdleReq)
    /\ UNCHANGED <<db, conn, cache>>

Respond(r) ==
    /\ req[r].at = "done"
    /\ Become(r, IdleReq)
    /\ UNCHANGED <<db, conn, cache>>

-----------------------------------------------------------------------------
(* Time and restarts *)

\* Mutant: the last tick leaves the entry there.
Overstay(e) == [e EXCEPT !.left = @ - 1]

Aged(e) == IF e.left = 1 THEN NoEntry ELSE [e EXCEPT !.left = @ - 1]

Tick ==
    /\ \E k \in Keys : cache[k] # NoEntry /\ cache[k].left > 0
    /\ cache' = [k \in Keys |-> IF cache[k] = NoEntry \/ cache[k].left = 0
                                THEN cache[k] ELSE Aged(cache[k])]
    /\ UNCHANGED <<db, conn, req>>

\* The process ends with its open requests; Redis and the database go on.
Restart ==
    /\ conn # "none" \/ \E r \in Requests : req[r] # IdleReq
    /\ conn' = "none"
    /\ req' = [r \in Requests |-> IdleReq]
    /\ UNCHANGED <<db, cache>>

-----------------------------------------------------------------------------

ReadStep(r) ==
    Hit(r) \/ Miss(r) \/ Query(r) \/ SetEntry(r) \/ SetFails(r)

ChangeStep(r) ==
    \/ \E k \in Keys : ScanKey(r, k)
    \/ DeleteFound(r) \/ DropFails(r) \/ Dropped(r) \/ Commit(r) \/ Respond(r)

RequestStep(r) == Connect(r) \/ ReadStep(r) \/ ChangeStep(r) \/ RequestFails(r)

Next ==
    \/ \E r \in Requests :
        \/ \E k \in Keys : Read(r, k)
        \/ \E op \in Changes : Change(r, op)
        \/ RequestStep(r)
    \/ Tick \/ Restart

\* A request runs until it ends, and time passes.
Fairness == WF_vars(Tick) /\ \A r \in Requests : WF_vars(RequestStep(r))

Spec == Init /\ [][Next]_vars /\ Fairness

-----------------------------------------------------------------------------

TypeOK ==
    /\ db \in 0 .. MaxChanges
    /\ conn \in {"none", "connecting", "up", "off"}
    /\ DOMAIN cache = Keys
    /\ \A k \in Keys : cache[k] \in Entry(k) \cup {NoEntry}
    /\ req \in [Requests -> Requesting]

\* Once r is through with its change, everything that change covers and that is cached
\* was stored after r's commit, provided no delete failed.
DropsOlder(r) ==
    req[r].at = "done" /\ req[r].sure =>
        \A k \in Keys : Covers(req[r].op, k) /\ cache[k] # NoEntry
                            => cache[k].stored >= req[r].change

\* "Apply the rules" (service_account_service, admin_account_service) drops the
\* dashboard after its commit: when it is through, no dashboard stored before the commit
\* is left, although reads keep storing between the commit, the SCAN and the DEL.
ApplyDropsOlder == \A r \in Requests : req[r].op = "apply" => DropsOlder(r)

\* sync_service.py:751 "Invalidate caches after sync (data has changed)": when a sync
\* is over, no response that was stored before its commit is left.
SyncDropsOlder == \A r \in Requests : req[r].op = "sync" => DropsOlder(r)

\* Once the data stops changing, every cached response comes to show all of it:
\* whatever late fills, lost deletes, skipped deletes and restarts have left in the
\* cache goes with its time to live.
EventuallyFresh == <>[](\A k \in Keys : cache[k] # NoEntry => cache[k].seen = db)
===============================================================================
