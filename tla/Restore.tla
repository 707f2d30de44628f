------------------------------- MODULE Restore -------------------------------
(***************************************************************************)
(* Export of the whole database into a backup and its restoration          *)
(* (backup_service: _collect_data, restore_backup, _clear_all_data,        *)
(* _import_data; the foreign keys are those of models/orm).  The export    *)
(* reads table after table, every SELECT with its own snapshot.  The       *)
(* restoration deletes all tables and inserts the rows of the backup in    *)
(* one transaction, and deletes and writes the files of the providers on   *)
(* disk as it goes, which no rollback undoes.                              *)
(*                                                                         *)
(* A row stands for all rows of a table that came together: row g of a     *)
(* table refers to row g of the tables that it has a foreign key to.       *)
(***************************************************************************)
EXTENDS Naturals, Sequences, FiniteSets

CONSTANTS
    Gens,           \* generations of rows
    NoBackup

Links(child, parents, rule) == {[from |-> child, to |-> p, rule |-> rule] : p \in parents}

\* The foreign keys of each table, with their ON DELETE rule.
PreferenceKeys == Links("user_notification_preferences", {"admin_users"}, "cascade")
RefreshTokenKeys == Links("refresh_tokens", {"admin_users"}, "cascade")
UserRoleKeys == Links("user_roles", {"admin_users", "roles"}, "cascade")
RolePermissionKeys == Links("role_permissions", {"roles", "permissions"}, "cascade")
LicenseKeys ==
    Links("licenses", {"providers"}, "cascade") \cup Links("licenses", {"employees"}, "none")
        \cup Links("licenses", {"employees", "admin_users"}, "null")
PackageKeys ==
    Links("license_packages", {"providers"}, "cascade")
        \cup Links("license_packages", {"admin_users"}, "null")
OrganizationKeys ==
    Links("organization_licenses", {"providers"}, "cascade")
        \cup Links("organization_licenses", {"admin_users"}, "null")
FileKeys == Links("provider_files", {"providers"}, "cascade")
SnapshotKeys == Links("cost_snapshots", {"providers"}, "cascade")
ImportJobKeys ==
    Links("import_jobs", {"providers"}, "cascade") \cup Links("import_jobs", {"admin_users"}, "null")
ServicePatternKeys == Links("service_account_patterns", {"employees", "admin_users"}, "null")
AdminPatternKeys == Links("admin_account_patterns", {"employees", "admin_users"}, "null")
ServiceTypeKeys == Links("service_account_license_types", {"employees", "admin_users"}, "null")
ProviderKeys == Links("providers", {"payment_methods"}, "null")
ExternalAccountKeys == Links("employee_external_accounts", {"employees"}, "cascade")
AuditKeys == Links("audit_logs", {"admin_users"}, "none")

ForeignKeys ==
    PreferenceKeys \cup RefreshTokenKeys \cup UserRoleKeys \cup RolePermissionKeys
        \cup LicenseKeys \cup PackageKeys \cup OrganizationKeys \cup FileKeys
        \cup SnapshotKeys \cup ImportJobKeys \cup ServicePatternKeys \cup AdminPatternKeys
        \cup ServiceTypeKeys \cup ProviderKeys \cup ExternalAccountKeys \cup AuditKeys

\* _collect_data: the order of the SELECTs.
CollectOrder ==
    <<"admin_users", "refresh_tokens", "roles", "permissions", "user_roles", "role_permissions",
      "user_notification_preferences", "providers", "licenses", "employees",
      "employee_external_accounts", "license_packages", "organization_licenses",
      "payment_methods", "provider_files", "cost_snapshots", "settings", "notification_rules",
      "service_account_patterns", "admin_account_patterns", "service_account_license_types",
      "audit_logs">>

Collected == {CollectOrder[i] : i \in DOMAIN CollectOrder}

\* No SELECT reads the import jobs.
Tables == Collected \cup {"import_jobs"}

\* Mutant: the entries of the audit log go before the accounts they name.
LogsBeforeAccounts ==
    <<"audit_logs", "admin_users", "roles", "permissions", "notification_rules", "settings">>

AccountsBeforeLogs ==
    <<"admin_users", "roles", "permissions", "notification_rules", "settings", "audit_logs">>

\* _clear_all_data: the order of the DELETEs.
ClearOrder ==
    <<"user_notification_preferences", "user_roles", "role_permissions", "licenses",
      "license_packages", "organization_licenses", "provider_files", "cost_snapshots",
      "service_account_patterns", "admin_account_patterns", "service_account_license_types",
      "providers", "employee_external_accounts", "employees", "payment_methods",
      "refresh_tokens">> \o AccountsBeforeLogs

\* _import_data: what each flush inserts.
FirstRows ==
    {"settings", "payment_methods", "permissions", "roles", "admin_users", "refresh_tokens",
     "employees"}
AccountsOfEmployees == {"employee_external_accounts"}
GrantsAndProviders ==
    {"role_permissions", "user_roles", "user_notification_preferences", "providers",
     "notification_rules"}
ContractRows == {"license_packages", "organization_licenses", "cost_snapshots", "licenses"}
AttachedRows ==
    {"provider_files", "service_account_patterns", "admin_account_patterns",
     "service_account_license_types", "audit_logs"}

\* Mutant: licences are inserted with the accounts, before their providers.
LicensesTooEarly ==
    <<FirstRows \cup {"licenses"}, AccountsOfEmployees, GrantsAndProviders,
      (ContractRows \ {"licenses"}) \cup AttachedRows>>

ImportFlushes ==
    <<FirstRows, AccountsOfEmployees, GrantsAndProviders, ContractRows \cup AttachedRows>>

\* Inside a flush the unit of work sorts by the relationships of the mapped classes.
Related == {<<"refresh_tokens", "admin_users">>}

\* What comes into the tables together: the permission sync, a sign-in, a synchronisation
\* of providers, and everything else an administrator enters.
Workloads ==
    {{"roles", "permissions", "role_permissions"},
     {"admin_users", "refresh_tokens", "user_roles", "audit_logs"},
     {"payment_methods", "providers", "employees", "licenses", "cost_snapshots"},
     {"user_notification_preferences", "employee_external_accounts", "license_packages",
      "organization_licenses", "provider_files", "import_jobs", "settings",
      "notification_rules", "service_account_patterns", "admin_account_patterns",
      "service_account_license_types"}}

VARIABLES
    db,         \* [Tables -> set of the generations that are committed]
    disk,       \* generations whose provider files are on disk
    export,     \* the running export: tables read so far and what was read
    taken,      \* the last finished backup
    restoring   \* the running restoration

restoreVars == <<db, disk, export, taken, restoring>>

EmptyDatabase == [t \in Tables |-> {}]

\* quiet: history, nothing was committed while the tables were read.
Snapshot == [rows: [Tables -> SUBSET Gens], files: SUBSET Gens, quiet: BOOLEAN]

NoExport == [done |-> 0, got |-> [rows |-> EmptyDatabase, files |-> {}, quiet |-> TRUE]]

NoRestore ==
    [phase |-> "none", setup |-> FALSE, from |-> NoBackup, cleared |-> EmptyDatabase]

Restoration ==
    [phase: {"none", "upload", "import", "commit", "clearFailed"}, setup: BOOLEAN,
     from: Snapshot \cup {NoBackup}, cleared: [Tables -> SUBSET Gens]]

RestoreInit ==
    /\ db = EmptyDatabase
    /\ disk = {}
    /\ export = NoExport
    /\ taken = NoBackup
    /\ restoring = NoRestore

ParentsOf(W) == {k.to : k \in {l \in ForeignKeys : l.from \in W}} \ W

InTransaction == restoring.phase \in {"import", "commit"}

(* Any request that adds rows.  Every foreign key is used.  A parent that  *)
(* the open restoration has deleted is locked until it ends.               *)
Work(g, W) ==
    /\ \A t \in W : g \notin db[t]
    /\ \A p \in ParentsOf(W) :
          g \in db[p] /\ (InTransaction => g \notin restoring.cleared[p])
    /\ db' = [t \in Tables |-> IF t \in W THEN db[t] \cup {g} ELSE db[t]]
    /\ disk' = IF "provider_files" \in W THEN disk \cup {g} ELSE disk
    /\ export' = IF export.done > 0 THEN [export EXCEPT !.got.quiet = FALSE] ELSE export
    /\ UNCHANGED <<taken, restoring>>

(* A file vanishes: its row stays, the export carries the row without it.  *)
LoseFile(g) ==
    /\ g \in disk /\ ~InTransaction
    /\ disk' = disk \ {g}
    /\ UNCHANGED <<db, export, taken, restoring>>

-----------------------------------------------------------------------------
(* _collect_data, one SELECT at a time.                                    *)
Collect ==
    LET t == CollectOrder[export.done + 1] IN
    /\ export.done < Len(CollectOrder)
    /\ taken = NoBackup            \* bound: one backup is taken
    /\ export' = [export EXCEPT !.done = @ + 1, !.got.rows[t] = db[t]]
    /\ UNCHANGED <<db, disk, taken, restoring>>

(* _collect_files, after all tables; a file that cannot be read is None.   *)
FinishExport ==
    /\ export.done = Len(CollectOrder)
    /\ taken' = [export.got EXCEPT !.files = disk \cap export.got.rows["provider_files"]]
    /\ export' = NoExport
    /\ UNCHANGED <<db, disk, restoring>>

-----------------------------------------------------------------------------
Before(t, i) == \E j \in 1 .. i - 1 : ClearOrder[j] = t

\* DELETE FROM a table that rows without ON DELETE rule refer to raises.  Rows of a table
\* not in the list go with the rows they refer to, or lose the reference.
ClearRaises(rows) ==
    \E i \in DOMAIN ClearOrder, k \in ForeignKeys :
        /\ k.to = ClearOrder[i]
        /\ k.rule = "none"
        /\ rows[k.from] \cap rows[k.to] # {}
        /\ ~Before(k.from, i)

FlushOf(t) == CHOOSE i \in DOMAIN ImportFlushes : t \in ImportFlushes[i]

\* INSERT of a row whose parent is not in the backup, or not inserted yet, raises.
ImportRaises(s) ==
    \E k \in ForeignKeys, g \in Gens :
        /\ k.from \in Collected
        /\ g \in s.rows[k.from]
        /\ \/ g \notin s.rows[k.to]
           \/ FlushOf(k.to) > FlushOf(k.from)
           \/ FlushOf(k.to) = FlushOf(k.from) /\ <<k.from, k.to>> \notin Related

Begin(s, setup) ==
    /\ restoring.phase = "none"
    /\ restoring' = [NoRestore EXCEPT !.phase = "upload", !.setup = setup, !.from = s]
    /\ UNCHANGED <<db, disk, export, taken>>

(* restore_from_stored, on behalf of an administrator.                     *)
BeginRestore ==
    /\ taken # NoBackup
    /\ db["admin_users"] # {}
    /\ Begin(taken, FALSE)

(* setup_restore_backup: has_existing_admin_users is asked before the      *)
(* upload is read.                                                         *)
BeginSetupRestore ==
    /\ taken # NoBackup
    /\ db["admin_users"] = {}
    /\ Begin(taken, TRUE)

\* The system is installed anew; the backup is what remains of the old one.
Reinstall ==
    /\ taken # NoBackup
    /\ restoring.phase = "none"
    /\ db' = EmptyDatabase
    /\ disk' = {}
    /\ UNCHANGED <<export, taken, restoring>>

(* _clear_all_data: the DELETEs, then the files.  An error rolls back.     *)
Clear ==
    /\ restoring.phase = "upload"
    /\ IF ClearRaises(db)
       THEN /\ restoring' = [restoring EXCEPT !.phase = "clearFailed"]
            /\ UNCHANGED disk
       ELSE /\ restoring' = [restoring EXCEPT !.phase = "import", !.cleared = db]
            /\ disk' = {}
    /\ UNCHANGED <<db, export, taken>>

\* Deleting a file may fail after others are gone: the rows come back, the files do not.
ClearStops ==
    /\ restoring.phase = "upload"
    /\ ~ClearRaises(db)
    /\ \E kept \in SUBSET disk : disk' = kept
    /\ restoring' = NoRestore
    /\ UNCHANGED <<db, export, taken>>

(* _import_data: a violated foreign key rolls back; the files that the     *)
(* backup holds are written while the rows are added.  A file that cannot  *)
(* be written is logged and skipped, its row is restored all the same.     *)
Import ==
    /\ restoring.phase = "import"
    /\ IF ImportRaises(restoring.from)
       THEN /\ restoring' = NoRestore
            /\ UNCHANGED disk
       ELSE /\ restoring' = [restoring EXCEPT !.phase = "commit"]
            /\ \E W \in SUBSET restoring.from.files : disk' = disk \cup W
    /\ UNCHANGED <<db, export, taken>>

\* What was committed after the DELETEs stays.
Restored ==
    [t \in Tables |-> restoring.from.rows[t] \cup (db[t] \ restoring.cleared[t])]

CommitRestore ==
    /\ restoring.phase = "commit"
    /\ \A t \in Tables : restoring.from.rows[t] \cap (db[t] \ restoring.cleared[t]) = {}
    /\ db' = Restored
    /\ restoring' = NoRestore
    /\ export' = IF export.done > 0 THEN [export EXCEPT !.got.quiet = FALSE] ELSE export
    /\ UNCHANGED <<disk, taken>>

(* A rollback for any other reason, a crash, or the error response.        *)
GiveUp ==
    /\ restoring.phase # "none"
    /\ restoring' = NoRestore
    /\ UNCHANGED <<db, disk, export, taken>>

RestoreNext ==
    \/ \E g \in Gens, W \in Workloads : Work(g, W)
    \/ \E g \in Gens : LoseFile(g)
    \/ Collect
    \/ FinishExport
    \/ BeginRestore
    \/ BeginSetupRestore
    \/ Reinstall
    \/ Clear
    \/ ClearStops
    \/ Import
    \/ CommitRestore
    \/ GiveUp

RestoreSpec == RestoreInit /\ [][RestoreNext]_restoreVars

-----------------------------------------------------------------------------
(* The variables hold values of their types.                               *)
RestoreTypeOK ==
    /\ db \in [Tables -> SUBSET Gens]
    /\ disk \subseteq Gens
    /\ export.done \in 0 .. Len(CollectOrder) /\ export.got \in Snapshot
    /\ taken \in Snapshot \cup {NoBackup}
    /\ restoring \in Restoration

(* A backup that was taken while nothing was committed holds every row     *)
(* that its rows refer to, and the order of the import inserts no row      *)
(* before the one it refers to: it can be restored.                        *)
QuietBackupImports == (taken # NoBackup /\ taken.quiet) => ~ImportRaises(taken)

(* "Only works on fresh installations": no restoration without an          *)
(* administrator removes an account, not even one that signed in while the *)
(* backup was being uploaded.                                              *)
SetupSparesAccounts ==
    [][(restoring.setup /\ restoring.phase = "upload" /\ restoring'.phase = "import")
          => db["admin_users"] = {}]_restoreVars

(* "Clear all data in correct order (respecting foreign keys)": no DELETE  *)
(* of a restoration meets a row that refers to what it deletes.            *)
ClearRespectsForeignKeys == restoring.phase # "clearFailed"
=============================================================================
