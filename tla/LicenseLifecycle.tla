-------------------------- MODULE LicenseLifecycle --------------------------
(***************************************************************************)
(* The life of everything the product tracks: user licences, licence       *)
(* packages and organisation licences.  Each is one database row whose     *)
(* status, expiry and cancellation columns are written by four parties:    *)
(*   - API requests (cancellation_service, manual_license_service, ...),   *)
(*   - the provider sync (sync_service, one transaction over many rows),   *)
(*   - the daily expiration job (tasks/scheduler, expiration_service),     *)
(*   - row creation and deletion.                                          *)
(* Every party loads a row, computes on its private copy and writes back   *)
(* at flush.  PostgreSQL runs at READ COMMITTED and SQLAlchemy's unit of   *)
(* work sends only the columns whose value changed with respect to the     *)
(* loaded copy: a transaction is therefore a set of column patches.        *)
(***************************************************************************)
EXTENDS Integers, FiniteSets

CONSTANTS
    Synced,            \* licences of one API provider, reached by its sync
    Manual,            \* licences entered by hand (extra_data.manual_entry)
    Packages,          \* licence packages
    OrgLicenses,       \* organisation licences
    Requests,          \* concurrent API requests
    Syncs,             \* concurrent sync transactions (scheduled, triggered)
    ExpirationJob,     \* the one instance of check_expiring_licenses_job
    ProviderStatuses,  \* statuses a provider's fetch_licenses() reports
    MaxDay,            \* bound: the calendar is 0..MaxDay
    Faults,            \* bound: whether requests and creations meet errors
    NoDate, Keep, Absent, Deleted

Licenses == Synced \cup Manual
Items    == Licenses \cup Packages \cup OrgLicenses
Txs      == Requests \cup Syncs \cup {ExpirationJob}

Day      == 0 .. MaxDay
DateCol  == Day \cup {NoDate}
Status   == {"active", "inactive", "unassigned", "expired", "cancelled"}

\* The columns of the three tables that this module follows. expires is
\* expires_at (contract_end of a package); autoRenew exists in packages only
\* and is FALSE elsewhere; reason and author of a cancellation go with
\* cancelledAt.
Row == [status: Status, expires: DateCol, cancelledAt: BOOLEAN,
        effective: DateCol, autoRenew: BOOLEAN, reorder: BOOLEAN]

Patch == [status: Status \cup {Keep}, expires: DateCol \cup {Keep},
          cancelledAt: BOOLEAN \cup {Keep}, effective: DateCol \cup {Keep},
          autoRenew: BOOLEAN \cup {Keep}, reorder: BOOLEAN \cup {Keep}]

ASSUME KindsDisjoint ==
    /\ Synced \cap Manual = {}
    /\ Licenses \cap Packages = {}
    /\ OrgLicenses \cap (Licenses \cup Packages) = {}

ASSUME TxsDistinct ==
    /\ Requests \cap Syncs = {}
    /\ ExpirationJob \notin Requests \cup Syncs

ASSUME MarkersDistinct ==
    /\ NoDate \notin Int
    /\ Keep \notin Status /\ Keep \notin BOOLEAN /\ Keep \notin Int /\ Keep # NoDate
    /\ Absent \notin Row /\ Deleted \notin Row /\ Absent # Deleted

ASSUME BoundsOK ==
    /\ MaxDay \in Nat
    /\ Faults \in BOOLEAN
    /\ ProviderStatuses \subseteq {"active", "inactive"}

VARIABLES
    today,    \* date.today() of the process
    row,      \* [Items -> committed row, or Absent / Deleted]
    tx,       \* [Txs -> the open transaction's step, patches and row locks]
    jobDay,   \* the `today` the running expiration job captured at its start
    outrun    \* history: rows on which a renewal outran a repeated cancellation

vars == <<today, row, tx, jobDay, outrun>>

NoPatch == [status |-> Keep, expires |-> Keep, cancelledAt |-> Keep,
            effective |-> Keep, autoRenew |-> Keep, reorder |-> Keep]

Steps == {"idle", "cancel", "cancel_package", "renew", "edit",
          "syncing", "expired", "cancelled"}

\* touched: rows this transaction will UPDATE; locks: those it has flushed.
Idle == [step |-> "idle", patch |-> [i \in Items |-> NoPatch],
         touched |-> {}, locks |-> {}]

Live(i) == row[i] \notin {Absent, Deleted}

-----------------------------------------------------------------------------
(* SQLAlchemy's unit of work and PostgreSQL's row locks *)

\* Only the columns that differ from the loaded copy go into the UPDATE.
Diff(loaded, new) ==
    [status      |-> IF new.status = loaded.status THEN Keep ELSE new.status,
     expires     |-> IF new.expires = loaded.expires THEN Keep ELSE new.expires,
     cancelledAt |-> IF new.cancelledAt = loaded.cancelledAt THEN Keep ELSE new.cancelledAt,
     effective   |-> IF new.effective = loaded.effective THEN Keep ELSE new.effective,
     autoRenew   |-> IF new.autoRenew = loaded.autoRenew THEN Keep ELSE new.autoRenew,
     reorder     |-> IF new.reorder = loaded.reorder THEN Keep ELSE new.reorder]

Apply(r, p) ==
    [status      |-> IF p.status = Keep THEN r.status ELSE p.status,
     expires     |-> IF p.expires = Keep THEN r.expires ELSE p.expires,
     cancelledAt |-> IF p.cancelledAt = Keep THEN r.cancelledAt ELSE p.cancelledAt,
     effective   |-> IF p.effective = Keep THEN r.effective ELSE p.effective,
     autoRenew   |-> IF p.autoRenew = Keep THEN r.autoRenew ELSE p.autoRenew,
     reorder     |-> IF p.reorder = Keep THEN r.reorder ELSE p.reorder]

BlankRow == [status |-> "active", expires |-> NoDate, cancelledAt |-> FALSE,
             effective |-> NoDate, autoRenew |-> FALSE, reorder |-> FALSE]

\* Row i with transaction t's patch: an UPDATE of the committed row, or the
\* row that t INSERTs.
Written(t, i) == Apply(IF row[i] = Absent THEN BlankRow ELSE row[i], tx[t].patch[i])

\* A write needs the row to exist still and waits for the holder of its lock.
CanWrite(t, i) ==
    /\ row[i] # Deleted
    /\ \A u \in Txs \ {t} : i \notin tx[u].locks

\* session.commit(): the flushed and the still pending patches become visible.
Publish(t) ==
    /\ \A i \in tx[t].touched : CanWrite(t, i)
    /\ row' = [i \in Items |-> IF i \in tx[t].touched THEN Written(t, i) ELSE row[i]]
    /\ tx' = [tx EXCEPT ![t] = Idle]

\* A request's handler: load row i, compute `new`, remember the patch.
Load(t, step, i, patch) ==
    /\ tx[t].step = "idle"
    /\ tx' = [tx EXCEPT ![t] =
                 [step |-> step, patch |-> [Idle.patch EXCEPT ![i] = patch],
                  touched |-> IF patch = NoPatch THEN {} ELSE {i}, locks |-> {}]]
    /\ UNCHANGED <<today, row, jobDay, outrun>>

-----------------------------------------------------------------------------
(* cancellation_service *)

\* Mutant: cancelled_at is forgotten.
CancelPatchNoStamp(loaded, d) ==
    Diff(loaded, [loaded EXCEPT !.effective = d,
                     !.status = IF d <= today THEN "cancelled" ELSE @])

\* cancelled_at is a fresh timestamp, so it is always part of the UPDATE.
CancelPatch(loaded, d) ==
    [Diff(loaded, [loaded EXCEPT !.effective = d,
                      !.status = IF d <= today THEN "cancelled" ELSE @])
        EXCEPT !.cancelledAt = TRUE]

\* cancel_license, cancel_org_license: no guard on the current state.
Cancel(r, i, d) ==
    /\ i \in Licenses \cup OrgLicenses /\ Live(i)
    /\ Load(r, "cancel", i, CancelPatch(row[i], d))

\* cancel_package computes the same patch, then reads package.seats, a column
\* LicensePackageORM does not have: AttributeError before the commit.
CancelPackage(r, i, d) ==
    /\ i \in Packages /\ Live(i)
    /\ Load(r, "cancel_package", i, CancelPatch(row[i], d))

\* Mutants: the expiry date is cleared too; cancelled_at survives; the status is
\* reset although the cancellation stays; a status nobody knows.
RenewedRowDropsDate(loaded, d, clear) ==
    [loaded EXCEPT !.expires = IF clear THEN NoDate ELSE d]
RenewedRowKeepsStamp(loaded, d, clear) ==
    [loaded EXCEPT !.expires = d, !.effective = IF clear THEN NoDate ELSE @]
RenewedRowAlwaysResets(loaded, d, clear) ==
    [loaded EXCEPT !.expires = d,
                   !.status = IF @ \in {"cancelled", "expired"} THEN "active" ELSE @]
RenewedRowNewStatus(loaded, d, clear) ==
    [loaded EXCEPT !.expires = d, !.status = "renewed"]

RenewedRow(loaded, d, clear) ==
    IF clear
    THEN [loaded EXCEPT !.expires = d, !.reorder = FALSE,
                        !.cancelledAt = FALSE, !.effective = NoDate,
                        !.status = IF @ \in {"cancelled", "expired"} THEN "active" ELSE @]
    ELSE [loaded EXCEPT !.expires = d, !.reorder = FALSE]

\* renew_license, renew_package, renew_org_license.
Renew(r, i, d, clear) ==
    /\ Live(i)
    /\ Load(r, IF clear THEN "renew" ELSE "edit", i,
            Diff(row[i], RenewedRow(row[i], d, clear)))

\* set_license_needs_reorder, set_package_..., set_org_license_...
SetNeedsReorder(r, i, b) ==
    /\ Live(i)
    /\ Load(r, "edit", i, Diff(row[i], [row[i] EXCEPT !.reorder = b]))

-----------------------------------------------------------------------------
(* Edits of manual licences and packages *)

\* manual_license_service.update_license with an employee (status "active") or
\* with unassign (status "unassigned").
ManualUpdate(r, i, s) ==
    /\ i \in Manual /\ Live(i)
    /\ Load(r, "edit", i, Diff(row[i], [row[i] EXCEPT !.status = s]))

\* manual_license_service.unassign_license: any licence, no check.
ManualUnassign(r, i) ==
    /\ i \in Licenses /\ Live(i)
    /\ Load(r, "edit", i, Diff(row[i], [row[i] EXCEPT !.status = "unassigned"]))

\* license_package_service.update_package: contract_end and auto_renew are
\* replaced as given, the status is not looked at.
UpdatePackage(r, i, d, auto) ==
    /\ i \in Packages /\ Live(i)
    /\ Load(r, "edit", i, Diff(row[i], [row[i] EXCEPT !.expires = d, !.autoRenew = auto]))

\* A cancellation for the date that its loaded copy had already: the UPDATE
\* carries a fresh cancelled_at and no date.
Repeats(r, i) == tx[r].patch[i].cancelledAt = TRUE /\ tx[r].patch[i].effective = Keep

\* The rows whose cancellation r clears while such a cancellation is under way.
Outruns(r) ==
    {i \in tx[r].touched : /\ tx[r].patch[i].effective = NoDate
                           /\ \E q \in Requests \ {r} : Repeats(q, i)}

\* The commit at the end of each handler above.
CommitRequest(r) ==
    /\ tx[r].step \in {"cancel", "renew", "edit"}
    /\ Publish(r)
    /\ outrun' = outrun \cup Outruns(r)
    /\ UNCHANGED <<today, jobDay>>

\* The request ends in an exception (a failed flush on a row that is gone, a
\* lost connection, the AttributeError above): get_db leaves the session and
\* nothing was committed.
RequestFails(r) ==
    /\ tx[r].step # "idle"
    /\ \/ Faults
       \/ tx[r].step = "cancel_package"
       \/ \E i \in tx[r].touched : ~Live(i)
    /\ tx' = [tx EXCEPT ![r] = Idle]
    /\ UNCHANGED <<today, row, jobDay, outrun>>

-----------------------------------------------------------------------------
(* Creation and deletion *)

\* Manual entry sets no date; a CSV import, into any provider, stores the status
\* of the file as it is and any expires_at or none (only the preview objects to
\* a status, and the import goes on all the same); a package starts with any
\* contract_end, an organisation licence with none.
NewStatuses(i) == IF i \in Licenses THEN Status ELSE {"active"}
NewExpires(i)  == IF i \in Licenses \cup Packages THEN DateCol ELSE {NoDate}
NewRenewals(i) == IF i \in Packages THEN BOOLEAN ELSE {FALSE}

Unlocked(i) == \A u \in Txs : i \notin tx[u].locks

Create(i) ==
    /\ row[i] = Absent /\ Unlocked(i)
    /\ \E s \in NewStatuses(i), d \in NewExpires(i), auto \in NewRenewals(i) :
          row' = [row EXCEPT ![i] = [BlankRow EXCEPT !.status = s, !.expires = d,
                                                     !.autoRenew = auto]]
    /\ UNCHANGED <<today, tx, jobDay, outrun>>

\* bulk_delete, delete_package, delete_license, ...: the DELETE waits for the
\* row's lock and commits at once.
Delete(i) ==
    /\ Live(i) /\ Unlocked(i)
    /\ row' = [row EXCEPT ![i] = Deleted]
    /\ UNCHANGED <<today, tx, jobDay, outrun>>

-----------------------------------------------------------------------------
(* sync_service._sync_license_provider: one transaction, licence by licence *)

\* sync_provider first sets the provider's status to IN_PROGRESS: its row stays
\* locked, so the syncs of one provider exclude each other.
ProviderLocked(s) == \E u \in Syncs \ {s} : tx[u].step # "idle"

\* get_by_provider_and_external_id loads the row; the matching queries that
\* follow are awaited before the upsert flushes it. status is overwritten.
\* synced_at always changes, so every upserted row is updated and locked.
SyncLoad(s, i, status) ==
    /\ tx[s].step \in {"idle", "syncing"} /\ ~ProviderLocked(s)
    /\ tx[s].touched = tx[s].locks
    /\ i \in Synced \ tx[s].touched /\ Live(i)
    /\ LET patch == Diff(row[i], [row[i] EXCEPT !.status = status])
       IN  tx' = [tx EXCEPT ![s] =
                    [step |-> "syncing", patch |-> [@.patch EXCEPT ![i] = patch],
                     touched |-> @.touched \cup {i}, locks |-> @.locks]]
    /\ UNCHANGED <<today, row, jobDay, outrun>>

\* The provider lists a member again: the row is found as this transaction has
\* flushed, locked and refreshed it, and takes the status of the later entry.
SyncLoadAgain(s, i, status) ==
    /\ tx[s].step = "syncing" /\ tx[s].touched = tx[s].locks
    /\ i \in tx[s].locks
    /\ tx' = [tx EXCEPT ![s].patch[i].status =
                 IF Written(s, i).status = status THEN @ ELSE status]
    /\ UNCHANGED <<today, row, jobDay, outrun>>

SyncFlush(s) ==
    /\ tx[s].step = "syncing"
    /\ \E i \in tx[s].touched \ tx[s].locks :
          /\ CanWrite(s, i)
          /\ tx' = [tx EXCEPT ![s].locks = @ \cup {i}]
    /\ UNCHANGED <<today, row, jobDay, outrun>>

\* A licence the database does not know is inserted, with no expiry date; its
\* key stays locked in the unique index until the end of the transaction.
SyncCreate(s, i, status) ==
    /\ tx[s].step \in {"idle", "syncing"} /\ ~ProviderLocked(s)
    /\ tx[s].touched = tx[s].locks
    /\ i \in Synced \ tx[s].touched /\ row[i] = Absent /\ CanWrite(s, i)
    /\ LET patch == [NoPatch EXCEPT !.status = status]
       IN  tx' = [tx EXCEPT ![s] =
                    [step |-> "syncing", patch |-> [@.patch EXCEPT ![i] = patch],
                     touched |-> @.touched \cup {i}, locks |-> @.locks \cup {i}]]
    /\ UNCHANGED <<today, row, jobDay, outrun>>

SyncCommit(s) ==
    /\ tx[s].step = "syncing"
    /\ tx[s].touched = tx[s].locks
    /\ Publish(s)
    /\ UNCHANGED <<today, jobDay, outrun>>

\* A deadlock broken by PostgreSQL, a row deleted under the sync, a failed
\* statement: the session rolls back everything the run had written.
SyncFails(s) ==
    /\ tx[s].step = "syncing"
    /\ tx' = [tx EXCEPT ![s] = Idle]
    /\ UNCHANGED <<today, row, jobDay, outrun>>

-----------------------------------------------------------------------------
(* expiration_service.check_and_update_expired_licenses, run by the daily job *)

Job == ExpirationJob

\* Mutants: only active rows expire; an expired row is never cancelled.
OverdueActiveOnly(r, day) ==
    r.expires # NoDate /\ r.expires < day /\ r.status = "active" /\ ~r.autoRenew
CancellationDueNotExpired(r, day) ==
    /\ r.effective # NoDate /\ r.effective <= day
    /\ r.status \notin {"expired", "cancelled"}

\* get_expired_needing_update: packages that renew themselves are left out
\* (auto_renew is FALSE in the other two tables).
Overdue(r, day) ==
    /\ r.expires # NoDate /\ r.expires < day
    /\ r.status \notin {"expired", "cancelled"}
    /\ ~r.autoRenew

\* get_cancelled_needing_update.
CancellationDue(r, day) ==
    /\ r.effective # NoDate /\ r.effective <= day
    /\ r.status # "cancelled"

\* First query: every overdue row is loaded and set to expired.
JobExpire ==
    /\ tx[Job].step = "idle"
    /\ LET due == {i \in Items : Live(i) /\ Overdue(row[i], today)}
       IN  tx' = [tx EXCEPT ![Job] =
                    [step |-> "expired",
                     patch |-> [i \in Items |-> IF i \in due
                                  THEN [NoPatch EXCEPT !.status = "expired"] ELSE NoPatch],
                     touched |-> due, locks |-> {}]]
    /\ jobDay' = today
    /\ UNCHANGED <<today, row, outrun>>

\* Second query: autoflush first writes (and locks) the expired rows, then the
\* query sees the committed rows and the job's own writes.
JobCancel ==
    LET seen(i) == IF i \in tx[Job].touched THEN Written(Job, i) ELSE row[i]
        due == {i \in Items : Live(i) /\ CancellationDue(seen(i), jobDay)}
    IN  /\ tx[Job].step = "expired"
        /\ \A i \in tx[Job].touched : CanWrite(Job, i)
        /\ tx' = [tx EXCEPT ![Job] =
                    [step |-> "cancelled",
                     patch |-> [i \in Items |-> IF i \in due
                                  THEN [NoPatch EXCEPT !.status = "cancelled"]
                                  ELSE tx[Job].patch[i]],
                     touched |-> tx[Job].touched \cup due,
                     locks |-> tx[Job].touched]]
        /\ UNCHANGED <<today, row, jobDay, outrun>>

\* The notifications are sent before this commit.
JobCommit ==
    /\ tx[Job].step = "cancelled"
    /\ Publish(Job)
    /\ UNCHANGED <<today, jobDay, outrun>>

Waits(t, u) == (tx[t].touched \ tx[t].locks) \cap tx[u].locks # {}
Deadlocked(t) == \E u \in Txs \ {t} : Waits(t, u) /\ Waits(u, t)

\* Any exception rolls the run back: an error in one of its queries, a row
\* deleted under it, a deadlock that PostgreSQL breaks. A statement that waits
\* for a lock just waits.
JobFails ==
    /\ tx[Job].step # "idle"
    /\ \/ \A u \in Txs \ {Job} : ~Waits(Job, u)
       \/ \E i \in tx[Job].touched : row[i] = Deleted
       \/ Deadlocked(Job)
    /\ tx' = [tx EXCEPT ![Job] = Idle]
    /\ UNCHANGED <<today, row, jobDay, outrun>>

-----------------------------------------------------------------------------

Tick == today < MaxDay /\ today' = today + 1 /\ UNCHANGED <<row, tx, jobDay, outrun>>

Init ==
    /\ today = 0
    /\ row = [i \in Items |-> Absent]
    /\ tx = [t \in Txs |-> Idle]
    /\ jobDay = 0
    /\ outrun = {}

RequestStep(r) ==
    \/ \E i \in Items, d \in Day :
          \/ Cancel(r, i, d)
          \/ CancelPackage(r, i, d)
          \/ \E clear \in BOOLEAN : Renew(r, i, d, clear)
    \/ \E i \in Items, b \in BOOLEAN : SetNeedsReorder(r, i, b)
    \/ \E i \in Items, s \in {"active", "unassigned"} : ManualUpdate(r, i, s)
    \/ \E i \in Items : ManualUnassign(r, i)
    \/ \E i \in Items, d \in DateCol, auto \in BOOLEAN : UpdatePackage(r, i, d, auto)
    \/ CommitRequest(r)
    \/ RequestFails(r)

SyncStep(s) ==
    \/ \E i \in Synced, status \in ProviderStatuses :
          SyncLoad(s, i, status) \/ SyncLoadAgain(s, i, status) \/ SyncCreate(s, i, status)
    \/ SyncFlush(s)
    \/ SyncCommit(s)
    \/ SyncFails(s)

JobStep == JobExpire \/ JobCancel \/ JobCommit \/ JobFails

Next ==
    \/ \E r \in Requests : RequestStep(r)
    \/ \E s \in Syncs : SyncStep(s)
    \/ JobStep
    \/ \E i \in Items : Create(i) \/ Delete(i)
    \/ Tick

\* Requests and syncs run to an end; PostgreSQL grants a row lock to its waiters
\* in turn, so a waiting write is not overtaken for ever; APScheduler starts the
\* job again and again, and not every one of its runs fails.
Fairness ==
    /\ \A r \in Requests : SF_vars(CommitRequest(r)) /\ WF_vars(RequestFails(r))
    /\ \A s \in Syncs : WF_vars(SyncFlush(s) \/ SyncCommit(s) \/ SyncFails(s))
    /\ WF_vars(JobStep) /\ SF_vars(JobCancel) /\ SF_vars(JobCommit)

Spec == Init /\ [][Next]_vars /\ Fairness

-----------------------------------------------------------------------------
(* Properties *)

\* The columns, the captured date, the open transactions and their patches keep
\* their types, whatever the handlers compute.
TypeOK ==
    /\ today \in Day /\ jobDay \in Day /\ outrun \subseteq Items
    /\ row \in [Items -> Row \cup {Absent, Deleted}]
    /\ tx \in [Txs -> [step: Steps, patch: [Items -> Patch],
                       touched: SUBSET Items, locks: SUBSET Items]]

\* Whatever the interleaving, nothing becomes expired without an expiry date:
\* between the job's read of a row and its commit other transactions may rewrite
\* the row's dates, but only a package's contract_end can be cleared again
\* (update_package). A CSV import may create a licence that is expired from the
\* start; that row says nothing about the job.
ExpiresWithDate ==
    [][\A i \in Items \ Packages :
          (/\ Live(i) /\ row[i].status # "expired"
           /\ row'[i] # Deleted /\ row'[i].status = "expired")
          => row'[i].expires # NoDate]_vars

\* Only a renewal that clears the cancellation brings a package or organisation
\* licence back from cancelled or expired, whichever transactions overlap.
OnlyRenewalRevives ==
    [][\A i \in Packages \cup OrgLicenses :
          (/\ Live(i) /\ row[i].status \in {"expired", "cancelled"}
           /\ row'[i] # Deleted /\ row'[i].status = "active")
          => \E r \in Requests : tx[r].step = "renew" /\ tx'[r].step = "idle"]_vars

CancellationPending(i) ==
    /\ Live(i)
    /\ row[i].effective # NoDate /\ row[i].effective <= today
    /\ row[i].status # "cancelled"

ExpiryPending(i) ==
    /\ Live(i)
    /\ row[i].expires # NoDate /\ row[i].expires < today /\ ~row[i].autoRenew
    /\ row[i].status \notin {"expired", "cancelled"}

\* "The license status will change to 'cancelled' when the effective date is
\* reached" (routers/cancellation.py): a due cancellation gets marked (unless it
\* is revoked or the row removed), although runs of the job fail, syncs
\* overwrite the status and requests interleave.
CancellationMarked == \A i \in Items : CancellationPending(i) ~> ~CancellationPending(i)

\* The same for a passed expiry date (expiration_service).
ExpiryMarked == \A i \in Items : ExpiryPending(i) ~> ~ExpiryPending(i)

Recorded(step) ==
    \A r \in Requests, i \in Items :
        (tx[r].step = step /\ i \in tx[r].touched)
            ~> (row[i] = Deleted \/ (Live(i) /\ row[i].cancelledAt))

\* A cancel request for a licence or an organisation licence that meets no error
\* leaves the cancellation recorded, whatever it has to wait for.
CancelTakesEffect == Recorded("cancel")

\* The same promise for packages: "Cancel a license package. Sets cancellation
\* date and reason." (routers/cancellation.py).
PackageCancelTakesEffect == Recorded("cancel_package")

\* A renewal that clears the cancellation leaves the row neither expired nor
\* cancelled ("Reset status if it was cancelled or expired").
RenewalRestores ==
    [][\A r \in Requests, i \in Items :
          (tx[r].step = "renew" /\ i \in tx[r].touched /\ CommitRequest(r))
              => row'[i].status \notin {"expired", "cancelled"}]_vars

\* A recorded cancellation has its effective date, and only such a row has one,
\* however requests, syncs and the job overlap: the columns of one cancellation
\* are written by several UPDATEs that carry only what changed. One overlap is
\* different: a renewal that clears the cancellation commits while a cancellation
\* for the same date as before is under way (`outrun`).
CancellationPaired ==
    \A i \in Items \ outrun :
        Live(i) => (row[i].cancelledAt <=> row[i].effective # NoDate)

\* "Sets cancellation date and reason. The license status will change to
\* 'cancelled' when the effective date is reached." (routers/cancellation.py):
\* when a cancellation has committed, the row has an effective date.
CancelLeavesDate ==
    [][\A r \in Requests, i \in Items :
          (tx[r].step = "cancel" /\ i \in tx[r].touched /\ CommitRequest(r))
              => row'[i].effective # NoDate]_vars

=============================================================================
