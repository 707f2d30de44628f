------------------------------ MODULE MCComponents ------------------------------
(***************************************************************************)
(* Model-checking instances of the components that have no table of their  *)
(* own in common: sessions, roles, imports, restore, scheduled backups,    *)
(* provider clients, syncs and removals, prices, cost snapshots,           *)
(* forecasts, the figures on the pages, notifications and employees.  One  *)
(* of MovingParts moves in each behaviour, the others keep their initial   *)
(* state, so that the states of a run are those of its parts added up.     *)
(***************************************************************************)
EXTENDS Sessions, RoleGrants, ImportJobs, Restore, Backups, ProviderFetch, Pricing,
        CostHistory, Forecasts, Figures, Notifications, Directory, ProviderSync

CONSTANTS c1, k1, k2, daily, odd, partA, partB, view, sys, super, e1, e2

MovingParts ==
    {"sessions", "roles", "imports", "restore", "backups", "fetch", "pricing", "costs",
     "forecasts", "figures", "notices", "directory", "syncs"}

VARIABLE part   \* the component that moves

componentsVars ==
    <<sessionVars, roleVars, importVars, restoreVars, backupVars, fetchVars, pricingVars,
      costVars, forecastVars, figureVars, noticeVars, staffVars, providerSyncVars, part>>

ComponentsInit ==
    /\ part \in MovingParts
    /\ SessionsInit /\ RoleGrantsInit /\ ImportInit /\ RestoreInit /\ BackupsInit
    /\ FetchInit /\ (part # "fetch" => client = Google)
    /\ FiguresInit /\ (part # "figures" => accounts = {})
    /\ PricingInit /\ CostInit /\ ForecastInit /\ NoticesInit /\ DirectoryInit
    /\ ProviderSyncInit

ComponentsNext ==
    /\ UNCHANGED part
    /\ IF part = "sessions" THEN SessionsNext ELSE UNCHANGED sessionVars
    /\ IF part = "roles" THEN RoleGrantsNext ELSE UNCHANGED roleVars
    /\ IF part = "imports" THEN ImportNext ELSE UNCHANGED importVars
    /\ IF part = "restore" THEN RestoreNext ELSE UNCHANGED restoreVars
    /\ IF part = "backups" THEN BackupsNext ELSE UNCHANGED backupVars
    /\ IF part = "fetch" THEN FetchNext ELSE UNCHANGED fetchVars
    /\ IF part = "pricing" THEN PricingNext ELSE UNCHANGED pricingVars
    /\ IF part = "costs" THEN CostNext ELSE UNCHANGED costVars
    /\ IF part = "forecasts" THEN ForecastNext ELSE UNCHANGED forecastVars
    /\ IF part = "figures" THEN FiguresNext ELSE UNCHANGED figureVars
    /\ IF part = "notices" THEN NoticesNext ELSE UNCHANGED noticeVars
    /\ IF part = "directory" THEN DirectoryNext ELSE UNCHANGED staffVars
    /\ IF part = "syncs" THEN ProviderSyncNext ELSE UNCHANGED providerSyncVars

ComponentsSpec == ComponentsInit /\ [][ComponentsNext]_componentsVars

-----------------------------------------------------------------------------
(* Values of the constants. *)

\* Imports.
CsvRow(k, f) == [key |-> k, flaw |-> f]
CsvFilesC ==
    {<<CsvRow(k1, "none"), CsvRow(k2, "none")>>,
     <<CsvRow(k1, "none"), CsvRow(k1, "reported"), CsvRow(NoKeyGiven, "none")>>,
     <<CsvRow(k1, "none"), CsvRow(k2, "hidden"), CsvRow(k1, "none")>>}

\* Roles.
AskedRolesC == {{c1}, {super}}
AskedPermissionsC == {{}, {view}}

\* Backups.
BackupConfig(e, s, r, p) == [enabled |-> e, schedule |-> s, retention |-> r, password |-> p]
DefaultConfigC == BackupConfig(FALSE, daily, 2, FALSE)
AskedConfigsC ==
    {BackupConfig(TRUE, NotGiven, NotGiven, TRUE), BackupConfig(FALSE, NotGiven, NotGiven, NotGiven),
     BackupConfig(NotGiven, NotGiven, 1, NotGiven), BackupConfig(TRUE, odd, NotGiven, NotGiven)}

\* Prices.
KindsC == {{partA}, {partA, partB}}
PerType(x, y) == [k \in KindsC |-> IF k = {partA} THEN x ELSE y]
AskedPricesC ==
    {[package |-> 0, types |-> PerType(1, 0)], [package |-> 0, types |-> PerType(2, 2)],
     [package |-> 1, types |-> PerType(0, 0)]}
AskedPartsC == {[p \in {partA, partB} |-> 1]}
AnswersC ==
    {[kind |-> {partA}, active |-> TRUE, own |-> 0], [kind |-> {partA, partB}, active |-> FALSE, own |-> 1]}

\* Forecasts.
MonthOf(y, m) == [year |-> y, month |-> m]
FirstMonthC == MonthOf(2025, 9)
Ask(t, d, v, m) == [type |-> t, department |-> d, value |-> v, month |-> m]
AdjustmentsC ==
    {Ask("add_employees", "all", 2, 1), Ask("remove_employees", "sales", 1, 2),
     Ask("add_provider", "all", 5, 3), Ask("remove_provider", "all", 0, 2),
     Ask("change_seats", "all", 3, 1), Ask("yearly_billing", "all", 0, 2),
     Ask("monthly_billing", "all", 0, 4)}
SlidersC == {[price |-> 50, people |-> 0], [price |-> -50, people |-> 3], [price |-> 0, people |-> -9]}
ContractsC ==
    {[end |-> MonthOf(2026, 1), renews |-> TRUE], [end |-> MonthOf(2026, 2), renews |-> FALSE],
     [end |-> NoEnd, renews |-> FALSE]}
DepartmentsC == [all |-> [cost |-> 0, people |-> 4], sales |-> [cost |-> 12, people |-> 3]]
ProviderFactsC == [cost |-> 20, seats |-> 5, perSeat |-> 4]

\* Figures: two providers; addresses in a subdomain and outside, a key; idle and not.
Member(p, kind, cost, days) == [provider |-> p, address |-> kind, cost |-> cost, idle |-> days]
MembershipsC ==
    {Member("x", "subdomain", 3, 70), Member("y", "foreign", 5, 40), Member("y", "key", 0, 100)}
SeatsCostC == [p \in {"x", "y"} |-> IF p = "y" THEN 4 ELSE 0]

\* Directory.
HrisEntry(state, mail, boss) == [status |-> state, email |-> mail, boss |-> boss]
HrisEntriesC ==
    {HrisEntry("active", e1, Nobody), HrisEntry("active", e2, e1), HrisEntry("active", e1, e2),
     HrisEntry("offboarded", e2, Nobody)}

-----------------------------------------------------------------------------
\* Type correctness of the components, whichever moves.
ComponentsTypeOK ==
    /\ part = "sessions" => SessionsTypeOK
    /\ part = "roles" => RoleGrantsTypeOK
    /\ part = "imports" => ImportTypeOK
    /\ part = "restore" => RestoreTypeOK
    /\ part = "backups" => BackupsTypeOK
    /\ part = "fetch" => FetchTypeOK
    /\ part = "pricing" => PricingTypeOK
    /\ part = "costs" => CostTypeOK
    /\ part = "forecasts" => ForecastTypeOK
    /\ part = "figures" => FiguresTypeOK
    /\ part = "notices" => NoticesTypeOK
    /\ part = "directory" => DirectoryTypeOK
    /\ part = "syncs" => ProviderSyncTypeOK
==============================================================================
