------------------------------- MODULE Directory -------------------------------
(***************************************************************************)
(* The employees: the HRIS sync (sync_service, hibob), the employees that  *)
(* administrators keep by hand (manual_employee_service), and              *)
(* employee_repository, which resolves the address of a manager to a row.  *)
(*                                                                         *)
(* The HRIS is asked for everybody, then every row is written and flushed  *)
(* one after the other and the managers are resolved; an address that two  *)
(* rows would share stops the sync.  The commit comes much later, after    *)
(* the avatars and, in a run of all providers, after the other providers.  *)
(* Requests look for the address first, write later, and commit last.      *)
(*                                                                         *)
(* What a transaction has written holds the rows until it ends, and the    *)
(* addresses it gives or takes away.  Others wait: before they write a row *)
(* or an address of their own, and with the managers they have computed    *)
(* from what was committed then.  One line stands for the file of a bulk   *)
(* import, and one HRIS run is open at a time.                             *)
(***************************************************************************)
EXTENDS Naturals, Sequences

CONSTANTS
    HrisIds,        \* identifiers the HRIS gives its employees
    ManualIds,      \* identifiers "manual-..." that may be given
    MailAddresses,
    HrisEntries,    \* what the HRIS may say of an employee
    StaffRequests,  \* requests served at the same time
    HrisRun,        \* the sync, among those who write
    Nobody

ASSUME DirectoryAssumptions ==
    /\ HrisIds \cap ManualIds = {}
    /\ HrisRun \notin StaffRequests
    /\ Nobody \notin HrisIds \cup ManualIds \cup MailAddresses
    /\ HrisEntries \subseteq [status : {"active", "offboarded"}, email : MailAddresses,
                              boss : MailAddresses \cup {Nobody}]

StaffIds == HrisIds \cup ManualIds

VARIABLES
    staff,      \* [StaffIds -> row]: the table employees, as committed
    hrisSync,   \* the list a sync has fetched, and the rows committed since it wrote
    staffReq,   \* [StaffRequests -> what an open request is doing]
    wrote,      \* [StaffWriters -> what a transaction has written and not committed]
    behind      \* <<x, y>>: what y wrote waits for x

staffVars == <<staff, hrisSync, staffReq, wrote, behind>>

StaffWriters == StaffRequests \cup {HrisRun}

\* boss is manager_email, manager the foreign key manager_id.
NotListed == [status |-> "none", email |-> Nobody, boss |-> Nobody]

StaffRow ==
    [status : {"none", "active", "offboarded"}, email : MailAddresses \cup {Nobody},
     boss : MailAddresses \cup {Nobody}, manager : StaffIds \cup {Nobody}]

NoStaff == [status |-> "none", email |-> Nobody, boss |-> Nobody, manager |-> Nobody]

IdleStaffRequest == [op |-> "none", id |-> Nobody, email |-> Nobody, boss |-> Nobody]

NotSyncing == [phase |-> "idle", list |-> [k \in HrisIds |-> NotListed], since |-> {}]

\* own: rows inserted or updated; links: the managers resolved for other rows.
NoWrites == [own |-> [k \in {} |-> NoStaff], links |-> [k \in {} |-> Nobody]]

DirectoryInit ==
    /\ staff = [k \in StaffIds |-> NoStaff]
    /\ hrisSync = NotSyncing
    /\ staffReq = [r \in StaffRequests |-> IdleStaffRequest]
    /\ wrote = [w \in StaffWriters |-> NoWrites]
    /\ behind = {}

Employed(rows) == {k \in StaffIds : rows[k].status # "none"}

\* email_exists and get_by_email: who holds an address.
HoldersOf(rows, e) == {k \in Employed(rows) : rows[k].email = e}

\* resolve_manager_ids: for every row with a manager's address that somebody else holds.
\* A manager once resolved stays when the address is gone or cleared.
Resolve(rows) ==
    [k \in StaffIds |->
        IF k \in Employed(rows) /\ rows[k].boss # Nobody /\ HoldersOf(rows, rows[k].boss) \ {k} # {}
        THEN [rows[k] EXCEPT !.manager = CHOOSE m \in HoldersOf(rows, rows[k].boss) : TRUE]
        ELSE rows[k]]

-----------------------------------------------------------------------------
(* Transactions. *)

\* A table with what a transaction wrote.
WithWrites(rows, written) ==
    [k \in StaffIds |->
        IF k \in DOMAIN written.own THEN written.own[k]
        ELSE IF k \in DOMAIN written.links THEN [rows[k] EXCEPT !.manager = written.links[k]]
        ELSE rows[k]]

Touched(w) == DOMAIN wrote[w].own \cup DOMAIN wrote[w].links

\* Rows and addresses that somebody else's open transaction holds.
RowHeld(w, k) == \E x \in StaffWriters \ {w} : k \in Touched(x)

AddressHeld(w, e) ==
    \E x \in StaffWriters \ {w} : \E k \in DOMAIN wrote[x].own :
        e \in {wrote[x].own[k].email, staff[k].email}

\* The transaction makes next of the committed rows: the rows K by itself, and the links.
Writes(w, next, K) ==
    LET linked == {k \in StaffIds \ K : next[k].manager # staff[k].manager}
    IN  /\ wrote' = [wrote EXCEPT ![w] = [own |-> [k \in K |-> next[k]],
                                         links |-> [k \in linked |-> next[k].manager]]]
        /\ behind' = behind \cup
              {<<x, w>> : x \in {x \in StaffWriters \ {w} : Touched(x) \cap (K \cup linked) # {}}}

Ends(w) ==
    /\ wrote' = [wrote EXCEPT ![w] = NoWrites]
    /\ behind' = {p \in behind : w \notin {p[1], p[2]}}

Commits(w) ==
    /\ \A x \in StaffWriters : <<x, w>> \notin behind
    /\ staff' = WithWrites(staff, wrote[w])
    /\ Ends(w)

-----------------------------------------------------------------------------
(* The HRIS and its sync. *)

\* fetch_employees: the HRIS shows only who is active there, so whoever has left is missing
\* from the list, and an employee without an address has the empty one.
HrisLists == [HrisIds -> HrisEntries \cup {NotListed}]

SyncFetches ==
    /\ hrisSync.phase = "idle"
    /\ \E list \in HrisLists : hrisSync' = [phase |-> "fetched", list |-> list, since |-> {}]
    /\ UNCHANGED <<staff, staffReq, wrote, behind>>

OnTheList(list) == {k \in HrisIds : list[k] # NotListed}

\* The orders in which the HRIS may list K.
OrdersOf(K) == {o \in UNION {[1 .. n -> K] : n \in 0 .. 3} :
                   {o[i] : i \in DOMAIN o} = K /\ \A i, j \in DOMAIN o : o[i] = o[j] => i = j}

\* upsert by identifier; the unique index on the address refuses the flush.
Upsert(result, k, entry) ==
    IF ~result.ok \/ HoldersOf(result.rows, entry.email) \ {k} # {}
    THEN [result EXCEPT !.ok = FALSE]
    ELSE [result EXCEPT !.rows[k] = [status |-> entry.status, email |-> entry.email,
                                     boss |-> entry.boss, manager |-> @.manager]]

\* The rows after the first n of an order.
UpsertAll(rows, list, order) ==
    LET After[n \in 0 .. Len(order)] ==
            IF n = 0 THEN [ok |-> TRUE, rows |-> rows]
            ELSE Upsert(After[n - 1], order[n], list[order[n]])
    IN  After[Len(order)]

\* Mutant: the managers are resolved before the new rows are there.
ResolvedFirst(rows, list, order) == UpsertAll(Resolve(rows), list, order)

\* _sync_hris_employees.
SyncHrisEmployees(rows, list, order) ==
    LET result == UpsertAll(rows, list, order) IN [result EXCEPT !.rows = Resolve(@)]

SyncWrites ==
    LET listed == OnTheList(hrisSync.list) IN
    /\ hrisSync.phase = "fetched"
    /\ \A k \in listed : ~RowHeld(HrisRun, k) /\ ~AddressHeld(HrisRun, hrisSync.list[k].email)
    /\ \E order \in OrdersOf(listed) :
          LET result == SyncHrisEmployees(staff, hrisSync.list, order) IN
          IF result.ok
          THEN /\ Writes(HrisRun, result.rows, listed)
               /\ hrisSync' = [hrisSync EXCEPT !.phase = "written"]
          ELSE hrisSync' = NotSyncing /\ UNCHANGED <<wrote, behind>>
    /\ UNCHANGED <<staff, staffReq>>

\* The caller of sync_provider or sync_all_providers commits; until then avatars and other
\* providers were waited for.
SyncCommits ==
    /\ hrisSync.phase = "written"
    /\ Commits(HrisRun)
    /\ hrisSync' = NotSyncing
    /\ UNCHANGED staffReq

\* A request to the HRIS fails or the transaction is rolled back.
SyncFails ==
    /\ hrisSync.phase # "idle"
    /\ Ends(HrisRun)
    /\ hrisSync' = NotSyncing
    /\ UNCHANGED <<staff, staffReq>>

-----------------------------------------------------------------------------
(* Employees kept by hand. *)

CloseStaffRequest(r) == staffReq' = [staffReq EXCEPT ![r] = IdleStaffRequest]

\* Nothing is written: the request ends with an error.
Refuse(r) == CloseStaffRequest(r) /\ UNCHANGED <<wrote, behind>>

RequestWrites(r, next, k) ==
    /\ Writes(r, next, {k})
    /\ staffReq' = [staffReq EXCEPT ![r] = [IdleStaffRequest EXCEPT !.op = "written"]]

\* create_employee: the address must be free.
CreateBegins(r, e, b) ==
    /\ staffReq[r] = IdleStaffRequest
    /\ HoldersOf(staff, e) = {}
    /\ staffReq' =
          [staffReq EXCEPT ![r] = [op |-> "create", id |-> Nobody, email |-> e, boss |-> b]]
    /\ UNCHANGED <<staff, hrisSync, wrote, behind>>

\* The index is asked again; managers are resolved only when one is given.
CreateWrites(r) ==
    LET e == staffReq[r].email
        b == staffReq[r].boss
    IN
    /\ staffReq[r].op = "create"
    /\ ~AddressHeld(r, e)
    /\ IF HoldersOf(staff, e) = {}
       THEN \E k \in {k \in ManualIds \ Employed(staff) : ~RowHeld(r, k)} :
               LET rows == [staff EXCEPT ![k] = [NoStaff EXCEPT !.status = "active", !.email = e,
                                                                !.boss = b]]
               IN  RequestWrites(r, IF b = Nobody THEN rows ELSE Resolve(rows), k)
       ELSE Refuse(r)
    /\ UNCHANGED <<staff, hrisSync>>

\* update_employee: only manual employees; Nobody stands for a field that is not given or
\* not changed.  An empty address of the manager clears it.
UpdateBegins(r, k, e, b) ==
    /\ staffReq[r] = IdleStaffRequest
    /\ k \in Employed(staff)
    /\ e # Nobody => HoldersOf(staff, e) \ {k} = {}
    /\ \E op \in {"update", "clear"} :
          /\ op = "clear" => b = Nobody /\ staff[k].boss # Nobody
          /\ staffReq' = [staffReq EXCEPT ![r] =
                [op |-> op, id |-> k,
                 email |-> IF e = staff[k].email THEN Nobody ELSE e,
                 boss |-> IF b = staff[k].boss THEN Nobody ELSE b]]
    /\ UNCHANGED <<staff, hrisSync, wrote, behind>>

\* A new manager's address forgets the manager before it is resolved.
UpdateWrites(r) ==
    LET k == staffReq[r].id
        e == IF staffReq[r].email = Nobody THEN staff[k].email ELSE staffReq[r].email
        b == staffReq[r].boss
    IN
    /\ staffReq[r].op \in {"update", "clear"}
    /\ ~RowHeld(r, k) /\ ~AddressHeld(r, e)
    /\ IF k \in Employed(staff) /\ HoldersOf(staff, e) \ {k} = {}
       THEN RequestWrites(r,
               IF staffReq[r].op = "update" /\ b = Nobody THEN [staff EXCEPT ![k].email = e]
               ELSE Resolve([staff EXCEPT ![k] = [@ EXCEPT !.email = e, !.boss = b,
                                                           !.manager = Nobody]]), k)
       ELSE Refuse(r)
    /\ UNCHANGED <<staff, hrisSync>>

\* bulk_import_employees, for one line of the file: by address, not by identifier; whoever
\* the HRIS provides is skipped, and a manager's address that is left out clears the old.
BulkImportEmployee(r, e, b) ==
    /\ staffReq[r] = IdleStaffRequest
    /\ ~AddressHeld(r, e)
    /\ \/ \E k \in HoldersOf(staff, e) \cap ManualIds :
             ~RowHeld(r, k) /\ RequestWrites(r, Resolve([staff EXCEPT ![k].boss = b]), k)
       \/ /\ HoldersOf(staff, e) = {}
          /\ \E k \in {k \in ManualIds \ Employed(staff) : ~RowHeld(r, k)} :
                RequestWrites(r, Resolve([staff EXCEPT ![k] = [status |-> "active", email |-> e,
                                                       boss |-> b, manager |-> Nobody]]), k)
    /\ UNCHANGED <<staff, hrisSync>>

\* get_db commits when the endpoint has returned; an error rolls back.
RequestCommits(r) ==
    /\ staffReq[r].op = "written"
    /\ Commits(r)
    /\ hrisSync' = IF hrisSync.phase = "written"
                   THEN [hrisSync EXCEPT !.since = @ \cup Touched(r)] ELSE hrisSync
    /\ CloseStaffRequest(r)

StaffRequestFails(r) ==
    /\ staffReq[r].op = "written"
    /\ Ends(r)
    /\ CloseStaffRequest(r)
    /\ UNCHANGED <<staff, hrisSync>>

\* delete_employee; the foreign key manager_id is set to null. It waits for whoever holds
\* one of these rows or has made k a manager.
DeleteEmployee(k) ==
    /\ k \in Employed(staff)
    /\ \A w \in StaffWriters :
          /\ \A j \in Touched(w) : j # k /\ staff[j].manager # k /\ WithWrites(staff, wrote[w])[j].manager # k
    /\ staff' = [j \in StaffIds |->
                    IF j = k THEN NoStaff
                    ELSE IF staff[j].manager = k THEN [staff[j] EXCEPT !.manager = Nobody]
                    ELSE staff[j]]
    /\ UNCHANGED <<hrisSync, staffReq, wrote, behind>>

-----------------------------------------------------------------------------
DirectoryNext ==
    \/ SyncFetches \/ SyncWrites \/ SyncCommits \/ SyncFails
    \/ \E r \in StaffRequests, e \in MailAddresses, b \in MailAddresses \cup {Nobody} :
          CreateBegins(r, e, b) \/ BulkImportEmployee(r, e, b)
    \/ \E r \in StaffRequests, k \in ManualIds, e, b \in MailAddresses \cup {Nobody} :
          UpdateBegins(r, k, e, b)
    \/ \E r \in StaffRequests :
          CreateWrites(r) \/ UpdateWrites(r) \/ RequestCommits(r) \/ StaffRequestFails(r)
    \/ \E k \in ManualIds : DeleteEmployee(k)

DirectorySpec == DirectoryInit /\ [][DirectoryNext]_staffVars

-----------------------------------------------------------------------------
\* The rows, the sync, the requests and what they wrote are well formed.
DirectoryTypeOK ==
    /\ staff \in [StaffIds -> StaffRow]
    /\ hrisSync \in [phase : {"idle", "fetched", "written"}, list : HrisLists,
                     since : SUBSET StaffIds]
    /\ staffReq \in [StaffRequests ->
                        [op : {"none", "create", "update", "clear", "written"},
                         id : ManualIds \cup {Nobody},
                         email : MailAddresses \cup {Nobody}, boss : MailAddresses \cup {Nobody}]]
    /\ \A w \in StaffWriters :
          /\ DOMAIN wrote[w].own \subseteq StaffIds
          /\ \A k \in DOMAIN wrote[w].own : wrote[w].own[k] \in StaffRow
          /\ DOMAIN wrote[w].links \subseteq StaffIds
          /\ \A k \in DOMAIN wrote[w].links : wrote[w].links[k] \in StaffIds \cup {Nobody}
    /\ behind \subseteq StaffWriters \X StaffWriters

SyncTakesEffect == hrisSync.phase = "written" /\ hrisSync'.phase = "idle" /\ staff' # staff

(* A sync leaves everybody on the list as listed, in whatever order they   *)
(* came, and of the other rows it changes nothing but the manager, not     *)
(* even where a request was served while it was open.  Everybody's manager *)
(* is whoever now holds the address of the manager, and where nobody else  *)
(* does, the manager stays as it was: but for the rows (the employee's or  *)
(* the manager's) that a request committed after the sync had resolved the *)
(* managers, whose links wait for the next sync.                           *)
SyncFollowsTheList ==
    [][SyncTakesEffect =>
         \A k \in Employed(staff') :
            /\ k \in OnTheList(hrisSync.list) =>
                  /\ staff'[k].status = hrisSync.list[k].status
                  /\ staff'[k].email = hrisSync.list[k].email
                  /\ staff'[k].boss = hrisSync.list[k].boss
            /\ k \notin OnTheList(hrisSync.list) =>
                  staff'[k] = [staff[k] EXCEPT !.manager = staff'[k].manager]
            /\ \A m \in StaffIds \ {k} :
                  m \in Employed(staff') /\ staff'[m].email = staff'[k].boss
                      => staff'[k].manager = m \/ {k, m} \cap hrisSync.since # {}
            /\ LET m == staff'[k].manager IN
               m # staff[k].manager =>
                  \/ m # k /\ staff'[m].email = staff'[k].boss
                  \/ {k, m} \cap hrisSync.since # {}
         ]_staffVars
==============================================================================
