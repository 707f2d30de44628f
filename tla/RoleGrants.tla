------------------------------ MODULE RoleGrants ------------------------------
(***************************************************************************)
(* Who holds which role and which permissions a role grants (rbac_service, *)
(* role_repository, permission_sync_service): the junction tables          *)
(* user_roles and role_permissions.  "Replacing" the roles of a user or    *)
(* the permissions of a role is a DELETE of the rows the statement sees,   *)
(* followed by INSERTs, in a transaction under READ COMMITTED: rows that   *)
(* another transaction commits after the DELETE took its snapshot stay.    *)
(* The sign-in of the configured superadministrator adds a row as well.  A *)
(* restoration (module Restore) writes both tables anew: this history      *)
(* begins after the last one.                                              *)
(***************************************************************************)
EXTENDS Naturals, FiniteSets

CONSTANTS
    Holders,            \* users that roles are given to
    CustomRoles,        \* roles created and deleted at run time
    AdminRole, AuditorRole,         \* system roles, with the permissions they follow
    SuperadminRole,     \* the system role that is given at sign-in
    ConfiguredAdmins,   \* the users whose address is SUPERADMIN_EMAIL, at most one in the code
    Permissions,        \* rows of the table permissions
    AuditPermissions,   \* those whose code ends in .view or .export
    SystemAdmin,        \* the permission "system.admin"
    AskedRoles, AskedPermissions,   \* bounds: the sets that requests ask for
    RoleRequests,       \* requests and starting processes at the same time
    NoRole

Roles == CustomRoles \cup {AdminRole, AuditorRole, SuperadminRole}

ASSUME RoleAssumptions ==
    /\ {AdminRole, AuditorRole, SuperadminRole} \cap CustomRoles = {}
    /\ SuperadminRole \notin {AdminRole, AuditorRole}
    /\ ConfiguredAdmins \subseteq Holders
    /\ AuditPermissions \subseteq Permissions
    /\ SystemAdmin \in Permissions \ AuditPermissions
    /\ AskedRoles \subseteq SUBSET Roles
    /\ AskedPermissions \subseteq SUBSET Permissions
    /\ NoRole \notin Roles
    /\ Holders \cap Roles = {}

VARIABLES
    existing,       \* the roles that exist
    holds,          \* user_roles: set of <<user, role>>
    grants,         \* role_permissions: set of <<role, permission>>
    roleReq,        \* [RoleRequests -> what an open transaction is doing]
    asked,          \* history: [Holders -> roles the last replacement asked for]
    disputed,       \* history: users with two replacements at once
    followed        \* history: system roles synced and not changed by a superadmin since

roleVars == <<existing, holds, grants, roleReq, asked, disputed, followed>>

Rows == (Holders \X Roles) \cup (Roles \X Permissions)

\* subject: whose rows are replaced; gone: rows its DELETE took; new: rows to insert;
\* taken: history, what the transaction read about a role was changed since.
Doing(op, s, gone, new) ==
    [op |-> op, subject |-> s, gone |-> gone, new |-> new, taken |-> FALSE]

IdleRole == Doing("none", NoRole, {}, {})

RoleRequest ==
    [op: {"none", "setRoles", "setPermissions", "sync", "deleteRole", "signIn"},
     subject: Holders \cup Roles \cup {NoRole},
     gone: SUBSET Rows, new: SUBSET Rows, taken: BOOLEAN]

RoleGrantsInit ==
    /\ existing = {AdminRole, AuditorRole, SuperadminRole}
    /\ holds = {}
    /\ grants = {}
    /\ roleReq = [r \in RoleRequests |-> IdleRole]
    /\ asked = [u \in Holders |-> {}]
    /\ disputed = {}
    /\ followed = {}

OpenRole(r, request) ==
    /\ roleReq[r] = IdleRole
    /\ roleReq' = [roleReq EXCEPT ![r] = request]

\* A transaction that ends leaves nothing to delete for one that waited for its rows,
\* and its changes of the given roles escape one that has read them.
CloseRole(r, changed) ==
    roleReq' = [q \in RoleRequests |->
        IF q = r THEN IdleRole
        ELSE [roleReq[q] EXCEPT
                 !.gone = @ \ roleReq[r].gone,
                 !.taken = @ \/ roleReq[q].subject \in changed
                             \/ (roleReq[q].op = "sync" /\ changed # {})]]

RowsOf(s, table) == {row \in table : row[1] = s}

\* DELETE, then INSERT: the primary key refuses a row that is still there.
Insertable(r, table) == roleReq[r].new \cap (table \ roleReq[r].gone) = {}

Replaced(r, table) == (table \ roleReq[r].gone) \cup roleReq[r].new

-----------------------------------------------------------------------------
(* create_role: the unique code decides between two creations; permissions *)
(* come in the same transaction.                                           *)
CreateRole(c, P) ==
    /\ c \in CustomRoles \ existing
    /\ existing' = existing \cup {c}
    /\ grants' = grants \cup ({c} \X P)
    /\ UNCHANGED <<holds, roleReq, asked, disputed, followed>>

\* Mutant: set_roles only adds.
SeenNone(u) == {}

SeenByDelete(u) == RowsOf(u, holds)

(* update_user and create_user with role_codes: unknown codes are dropped  *)
(* (get_by_codes), then set_roles.                                         *)
SetRolesBegin(r, u, R) ==
    /\ OpenRole(r, Doing("setRoles", u, SeenByDelete(u), {u} \X (R \cap existing)))
    /\ disputed' = IF \E q \in RoleRequests :
                          roleReq[q].op = "setRoles" /\ roleReq[q].subject = u
                   THEN disputed \cup {u} ELSE disputed
    /\ UNCHANGED <<existing, holds, grants, asked, followed>>

SetRolesCommit(r) ==
    LET u == roleReq[r].subject
        given == {row[2] : row \in roleReq[r].new}
    IN
    /\ roleReq[r].op = "setRoles"
    /\ given \subseteq existing
    /\ Insertable(r, holds)
    /\ holds' = Replaced(r, holds)
    /\ asked' = [asked EXCEPT ![u] = given]
    /\ CloseRole(r, given)
    /\ UNCHANGED <<existing, grants, disputed, followed>>

(* _ensure_superadmin_role and _create_superadmin_user: the superadmin     *)
(* role is added when the configured user signs in without it; two         *)
(* sign-ins insert the same row, and the second one fails.                 *)
SignInBegin(r, u) ==
    /\ u \in ConfiguredAdmins
    /\ <<u, SuperadminRole>> \notin holds
    /\ OpenRole(r, Doing("signIn", u, {}, {<<u, SuperadminRole>>}))
    /\ UNCHANGED <<existing, holds, grants, asked, disputed, followed>>

SignInCommit(r) ==
    /\ roleReq[r].op = "signIn"
    /\ Insertable(r, holds)
    /\ holds' = Replaced(r, holds)
    /\ CloseRole(r, {})
    /\ UNCHANGED <<existing, grants, asked, disputed, followed>>

(* update_role with permission_codes.  A system role is a superadmin's to  *)
(* change: any role may be the subject.                                    *)
SetPermissionsBegin(r, s, P) ==
    /\ s \in existing
    /\ OpenRole(r, Doing("setPermissions", s, RowsOf(s, grants), {s} \X P))
    /\ UNCHANGED <<existing, holds, grants, asked, disputed, followed>>

(* sync_system_roles, at the start of every process: what a system role    *)
(* should have and the query does not find is added, nothing is removed.   *)
Due(s) == IF s = AdminRole THEN Permissions \ {SystemAdmin} ELSE AuditPermissions

SystemRoles == {AdminRole, AuditorRole}

\* Mutant: the existing permissions are read for all roles together.
MissingAnywhere == UNION {{s} \X (Due(s) \ {row[2] : row \in grants}) : s \in SystemRoles}

MissingRows == UNION {({s} \X Due(s)) \ grants : s \in SystemRoles}

SyncBegin(r) ==
    /\ OpenRole(r, Doing("sync", NoRole, {}, MissingRows))
    /\ UNCHANGED <<existing, holds, grants, asked, disputed, followed>>

GrantsCommit(r) ==
    /\ roleReq[r].op \in {"setPermissions", "sync"}
    /\ {row[1] : row \in roleReq[r].new} \subseteq existing
    /\ Insertable(r, grants)
    /\ grants' = Replaced(r, grants)
    /\ followed' = IF roleReq[r].op = "setPermissions" THEN followed \ {roleReq[r].subject}
                   ELSE IF roleReq[r].taken THEN followed ELSE SystemRoles
    /\ CloseRole(r, IF roleReq[r].op = "sync" THEN {} ELSE {roleReq[r].subject})
    /\ UNCHANGED <<existing, holds, asked, disputed>>

\* Mutant: the holders are not counted.
NotCounted(c) == TRUE

\* count_users_with_role
Unheld(c) == ~ \E row \in holds : row[2] = c

(* delete_role: a system role and a role with users are refused; the row   *)
(* goes later, with whatever refers to it by then (ON DELETE CASCADE).     *)
DeleteRoleBegin(r, c) ==
    /\ c \in CustomRoles \cap existing
    /\ Unheld(c)
    /\ OpenRole(r, Doing("deleteRole", c, {}, {}))
    /\ UNCHANGED <<existing, holds, grants, asked, disputed, followed>>

DeleteRoleCommit(r) ==
    LET c == roleReq[r].subject IN
    /\ roleReq[r].op = "deleteRole"
    /\ c \in existing
    /\ existing' = existing \ {c}
    /\ holds' = {row \in holds : row[2] # c}
    /\ grants' = grants \ RowsOf(c, grants)
    /\ asked' = [u \in Holders |-> asked[u] \ {c}]
    /\ CloseRole(r, {})
    /\ UNCHANGED <<disputed, followed>>

RoleRollback(r) ==
    /\ roleReq[r] # IdleRole
    /\ roleReq' = [roleReq EXCEPT ![r] = IdleRole]
    /\ UNCHANGED <<existing, holds, grants, asked, disputed, followed>>

RoleGrantsNext ==
    \/ \E c \in CustomRoles, P \in AskedPermissions : CreateRole(c, P)
    \/ \E r \in RoleRequests :
          \/ \E u \in Holders, R \in AskedRoles : SetRolesBegin(r, u, R)
          \/ \E s \in Roles, P \in AskedPermissions : SetPermissionsBegin(r, s, P)
          \/ \E c \in CustomRoles : DeleteRoleBegin(r, c)
          \/ SyncBegin(r)
          \/ \E u \in Holders : SignInBegin(r, u)
          \/ SignInCommit(r)
          \/ SetRolesCommit(r)
          \/ GrantsCommit(r)
          \/ DeleteRoleCommit(r)
          \/ RoleRollback(r)

RoleGrantsSpec == RoleGrantsInit /\ [][RoleGrantsNext]_roleVars

-----------------------------------------------------------------------------
(* The variables hold values of their types.                               *)
RoleGrantsTypeOK ==
    /\ existing \subseteq Roles
    /\ holds \subseteq Holders \X Roles
    /\ grants \subseteq Roles \X Permissions
    /\ roleReq \in [RoleRequests -> RoleRequest]
    /\ asked \in [Holders -> SUBSET Roles]
    /\ disputed \subseteq Holders
    /\ followed \subseteq SystemRoles

(* set_roles "replaces existing": unless two replacements for the user     *)
(* overlapped, the user holds every role that the last one asked for and   *)
(* that still exists, and no other.  The one exception is the superadmin   *)
(* role of the configured superadministrator: every sign-in may add it,    *)
(* and a replacement that overlaps the sign-in leaves it in place.         *)
RolesAsAsked ==
    \A u \in Holders \ disputed :
        LET held == {row[2] : row \in RowsOf(u, holds)} IN
        /\ asked[u] \subseteq held
        /\ held \subseteq asked[u] \cup {rl \in {SuperadminRole} : u \in ConfiguredAdmins}

(* PermissionSyncService: "admin: gets all permissions except             *)
(* system.admin", "auditor: only *.view and *.export".  From the first     *)
(* start on a system role has what it is due, until a request replaces its *)
(* permissions, however many processes start at once.                      *)
SystemRolesFollow == \A s \in followed : Due(s) \subseteq {row[2] : row \in RowsOf(s, grants)}

(* "Cannot delete role with assigned users": nobody loses a role because   *)
(* the role is deleted, unless it was assigned after the holders had been  *)
(* counted.                                                                *)
HeldRoleStays ==
    [][\A c \in existing \ existing' :
          \/ \A u \in Holders : <<u, c>> \notin holds
          \/ \E r \in RoleRequests : roleReq[r].subject = c /\ roleReq[r].taken]_roleVars
=============================================================================
