-------------------------------- MODULE Figures --------------------------------
(***************************************************************************)
(* The figures shown of the licence rows: the columns of the providers     *)
(* page (license_repository.get_stats_by_provider), the lists of the       *)
(* licences page (license_service.get_categorized_licenses), the dashboard *)
(* and the reports (report_service).  Each is computed by a query of its   *)
(* own; the properties say how far they agree on the same rows.            *)
(*                                                                         *)
(* Memberships describes the accounts: provider, kind of address, monthly  *)
(* cost and days without activity, at providers that are no HRIS (the      *)
(* pages leave that one out).  The steps are the committed effects of what *)
(* LicenseMatching models step by step.  Not modelled: the limit of 10,000 *)
(* rows of the reports, currencies, the report's estimate of waste.        *)
(***************************************************************************)
EXTENDS Integers, FiniteSets, FiniteSetsExt

CONSTANTS
    Memberships,    \* [provider, address, cost, idle]: accounts at the providers
    SeatsCost,    \* [providers -> cost per month of the seats bought, 0 if not known]
    Staff,          \* employees, and those created after their deletion
    NoOne,
    NoLicence,
    Recent          \* {30, 60, 90}: the thresholds of inactivity, in days

ASSUME FiguresAssumptions ==
    /\ IsFiniteSet(Memberships)
    /\ \A m \in Memberships : /\ m.address \in {"company", "subdomain", "foreign", "key"}
                              /\ m.cost \in Nat /\ m.idle \in Nat
                              /\ m.provider \in DOMAIN SeatsCost
    /\ IsFiniteSet(DOMAIN SeatsCost)
    /\ \A p \in DOMAIN SeatsCost : SeatsCost[p] \in Nat
    /\ NoOne \notin Staff

VARIABLES
    accounts,   \* the members that the providers report, at most two
    held,       \* [Memberships -> licence row or NoLicence]
    left,       \* the employees that are offboarded
    domains,    \* whether company domains are configured
    enabled     \* the providers that are enabled

figureVars == <<accounts, held, left, domains, enabled>>

-----------------------------------------------------------------------------
LicenceRows == {m \in Memberships : held[m] # NoLicence}
Active   == {m \in LicenceRows : held[m].active}

IsMail(m) == m.address # "key"

\* utils/domain_check.is_company_email and its counterparts in SQL.
IsForeign(m) == m.address = "foreign"

\* license_service._check_external_email
CheckExternal(m) == domains /\ IsMail(m) /\ IsForeign(m)

Assigned(m) == held[m].employee # NoOne

HasSuggestion(m) == held[m].candidate # NoOne

Offboarded(m) == held[m].employee \in left

SumOfCosts(ms) == SumFunction([m \in ms |-> m.cost])

-----------------------------------------------------------------------------
(* The lists of the licences page. *)

\* Mutant: a suggestion is known by its status, which outlives the candidate.
ListOfByStatus(m) ==
    CASE held[m].service -> "service_accounts"
      [] ~held[m].service /\ held[m].match = "external_guest" -> "external_guest"
      [] ~held[m].service /\ held[m].match = "suggested" -> "suggested"
      [] OTHER -> IF held[m].match = "external_review" \/ (CheckExternal(m) /\ ~Assigned(m))
                  THEN "external_review"
                  ELSE IF Assigned(m) THEN "assigned"
                  ELSE IF IsMail(m) THEN "not_in_hris" ELSE "unassigned"

\* The first heading that applies.
ListOf(m) ==
    CASE held[m].service -> "service_accounts"
      [] ~held[m].service /\ held[m].match = "external_guest" -> "external_guest"
      [] ~held[m].service /\ held[m].match # "external_guest" /\ HasSuggestion(m) -> "suggested"
      [] OTHER -> IF held[m].match = "external_review" \/ (CheckExternal(m) /\ ~Assigned(m))
                  THEN "external_review"
                  ELSE IF Assigned(m) THEN "assigned"
                  ELSE IF IsMail(m) THEN "not_in_hris" ELSE "unassigned"

UnderHeading(heading) == {m \in LicenceRows : ListOf(m) = heading}

PotentialSavings ==
    {m \in Active : /\ ~held[m].service /\ held[m].match # "external_guest"
                    /\ ~Assigned(m) \/ Offboarded(m)}

-----------------------------------------------------------------------------
(* The columns of the providers page. *)

Unclaimed == {m \in Active : ~Assigned(m) /\ ~held[m].service /\ ~HasSuggestion(m)}

Column(m) ==
    IF ~IsMail(m) THEN "unassigned"
    ELSE IF \/ held[m].match \in {"external_review", "external_guest"}
            \/ ~domains \/ IsForeign(m)
         THEN "external" ELSE "not_in_hris"

StatsOf(p) ==
    LET own(S) == {m \in S : m.provider = p}
        in(c) == {m \in own(Unclaimed) : Column(m) = c}
    IN  [active |-> own(Active), assigned |-> {m \in own(Active) : Assigned(m)},
         unassigned |-> in("unassigned"), external |-> in("external"),
         not_in_hris |-> in("not_in_hris")]

-----------------------------------------------------------------------------
(* The dashboard and the reports. *)

\* license_repository.get_statistics: rows of every status.
Dashboard ==
    [licences |-> LicenceRows, active |-> Active,
     unassigned |-> {m \in LicenceRows : ~Assigned(m)}, cost |-> SumOfCosts(LicenceRows),
     savings |-> SumOfCosts({m \in LicenceRows : ~Assigned(m)}),
     external |-> IF domains THEN {m \in LicenceRows : IsMail(m) /\ IsForeign(m)} ELSE {}]

CostReport ==
    [p \in {m.provider : m \in LicenceRows} |-> SumOfCosts({m \in LicenceRows : m.provider = p})]

ExternalUsers == {m \in LicenceRows : domains /\ IsMail(m) /\ IsForeign(m)}

EmployeeCosts == [e \in {held[m].employee : m \in Active} \ {NoOne} |->
                     SumOfCosts({m \in Active : held[m].employee = e})]

\* By department (here the employees stand for theirs), and "Unassigned".
DepartmentCosts == [e \in {held[m].employee : m \in Active} |->
                       SumOfCosts({m \in Active : held[m].employee = e})]

\* get_utilization_stats and count_external_by_provider, which knows no subdomains.
OwnActive(p) == {m \in Active : m.provider = p}

CountExternal(p) == {m \in OwnActive(p) : domains /\ m.address \in {"foreign", "subdomain"}}

\* Licences without a price cost what the seats of the package do.
Unpriced(p) == SumOfCosts(OwnActive(p)) = 0

\* get_utilization_report: the enabled providers only.
Utilization ==
    [p \in enabled |->
        [active |-> OwnActive(p), assigned |-> {m \in OwnActive(p) : Assigned(m)},
         cost |-> IF Unpriced(p) THEN SeatsCost[p] ELSE SumOfCosts(OwnActive(p)),
         external |-> CountExternal(p)]]

Inactive(days) == {m \in Active : m.idle > days}

Advice(m) ==
    CASE Assigned(m) /\ Offboarded(m) -> "cancel"
      [] ~Assigned(m) /\ m.idle > Max(Recent) -> "cancel"
      [] OTHER -> IF ~CheckExternal(m) /\ Assigned(m) /\ m.idle > Max(Recent)
                  THEN "reassign" ELSE "review"

Recommended(kind) == {m \in Inactive(60) : Advice(m) = kind}

\* get_offboarding_report: the licences that employees who left still hold.
Pending == [e \in left |-> {m \in LicenceRows : held[m].employee = e}]

TotalOf(costs) == SumFunction(costs)

-----------------------------------------------------------------------------
FiguresInit ==
    /\ accounts \in {S \in SUBSET Memberships : Cardinality(S) <= 2}
    /\ held = [m \in Memberships |-> NoLicence]
    /\ left = {}
    /\ domains = FALSE
    /\ enabled = DOMAIN SeatsCost

Put(m, licence) ==
    /\ held' = [held EXCEPT ![m] = licence]
    /\ UNCHANGED <<accounts, left, domains, enabled>>

NewLicence ==
    [active |-> TRUE, employee |-> NoOne, candidate |-> NoOne, service |-> FALSE, match |-> "none"]

Reviewed(l) == l.match \in {"reviewed", "external_guest"}

\* What the matching says of an account; an address outside is for review.
Match(e, c, status) == [employee |-> e, candidate |-> c, match |-> status]

Findings(m) ==
    {Match(e, NoOne, "none") : e \in Staff} \cup {Match(NoOne, e, "suggested") : e \in Staff}
        \cup {Match(NoOne, NoOne, IF CheckExternal(m) THEN "external_review" ELSE "none")}

\* _update_match_fields_if_better: a candidate is replaced by another only. (One less likely
\* than the old counts as none.)
Better(old, found) == ~Reviewed(old) /\ (old.candidate = NoOne \/ found.candidate # NoOne)

\* A sync: status and employee as found, the match columns when that is better; under a
\* rule for service accounts neither.
Synced(old, active, found) ==
    [active |-> active, employee |-> found.employee, service |-> old.service,
     candidate |-> IF Better(old, found) THEN found.candidate ELSE old.candidate,
     match |-> IF Better(old, found) THEN found.match ELSE old.match]

SyncedService(old, active) ==
    [active |-> active, employee |-> NoOne, candidate |-> NoOne, service |-> TRUE,
     match |-> IF Reviewed(old) THEN "reviewed" ELSE "none"]

Sync(m) ==
    LET old == IF held[m] = NoLicence THEN NewLicence ELSE held[m] IN
    \E active \in BOOLEAN :
       \/ Put(m, SyncedService(old, active))
       \/ \E found \in Findings(m) : Put(m, Synced(old, active, found))

Review(m) ==
    /\ m \in LicenceRows
    /\ \/ /\ HasSuggestion(m)     \* confirm
          /\ Put(m, [held[m] EXCEPT !.employee = held[m].candidate, !.candidate = NoOne,
                                    !.match = "reviewed"])
       \/ Put(m, [held[m] EXCEPT !.candidate = NoOne, !.match = "reviewed"])   \* reject
       \/ \E e \in Staff :         \* assign by hand
             Put(m, [held[m] EXCEPT !.employee = e, !.candidate = NoOne, !.match = "reviewed"])
       \/ Put(m, [held[m] EXCEPT !.employee = NoOne, !.candidate = NoOne,
                                 !.match = "external_guest"])

\* Assigning, unassigning, flagging, cancelling leave the match columns alone.
Edit(m) ==
    /\ m \in LicenceRows
    /\ \/ \E e \in Staff \cup {NoOne} : Put(m, [held[m] EXCEPT !.employee = e])
       \/ Put(m, [held[m] EXCEPT !.service = TRUE, !.employee = NoOne])
       \/ Put(m, [held[m] EXCEPT !.service = FALSE])
       \/ Put(m, [held[m] EXCEPT !.active = FALSE])
       \/ Put(m, NoLicence)

Configure ==
    /\ domains' = ~domains
    /\ UNCHANGED <<accounts, held, left, enabled>>

\* update_provider: enabling and disabling.
Switch(p) ==
    /\ enabled' = IF p \in enabled THEN enabled \ {p} ELSE enabled \cup {p}
    /\ UNCHANGED <<accounts, held, left, domains>>

Offboard(e) ==
    /\ left' = IF e \in left THEN left \ {e} ELSE left \cup {e}
    /\ UNCHANGED <<accounts, held, domains, enabled>>

\* ON DELETE SET NULL of both columns: the status of a suggestion stays.
Without(licence, e) ==
    [licence EXCEPT !.employee = IF @ = e THEN NoOne ELSE @,
                    !.candidate = IF @ = e THEN NoOne ELSE @]

DeleteStaff(e) ==
    /\ held' = [m \in Memberships |-> IF m \in LicenceRows THEN Without(held[m], e) ELSE NoLicence]
    /\ left' = left \ {e}
    /\ UNCHANGED <<accounts, domains, enabled>>

FiguresNext ==
    \/ \E m \in accounts : Sync(m) \/ Review(m) \/ Edit(m)
    \/ \E e \in Staff : Offboard(e) \/ DeleteStaff(e)
    \/ \E p \in DOMAIN SeatsCost : Switch(p)
    \/ Configure

FiguresSpec == FiguresInit /\ [][FiguresNext]_figureVars

-----------------------------------------------------------------------------
\* Type correctness: rows of the reported accounts, offboarded employees.
FiguresTypeOK ==
    /\ held \in [Memberships -> {NoLicence} \cup
                   [active: BOOLEAN, employee: Staff \cup {NoOne}, service: BOOLEAN,
                    candidate: Staff \cup {NoOne},
                    match: {"none", "suggested", "external_review", "reviewed", "external_guest"}]]
    /\ LicenceRows \subseteq accounts
    /\ left \subseteq Staff /\ domains \in BOOLEAN /\ enabled \subseteq DOMAIN SeatsCost

\* With company domains configured the two pages count an active licence under the same
\* heading (get_stats_by_provider, get_categorized_licenses), also a suggestion whose
\* candidate was deleted; but for the licences that have a mark of the matching besides an
\* employee and the keys marked as guests.
ListsAgree ==
    \A p \in {m.provider : m \in accounts} :
        LET stats == StatsOf(p)
            shown(h) == {m \in UnderHeading(h) \cap Active : m.provider = p}
            marked == {m \in Active :
                         /\ Assigned(m)
                         /\ \/ HasSuggestion(m)
                            \/ held[m].match \in {"external_review", "external_guest"}}
            guestKeys == {m \in shown("external_guest") : ~IsMail(m)}
        IN  domains =>
              /\ stats.not_in_hris = shown("not_in_hris")
              /\ shown("assigned") = {m \in stats.assigned : ~held[m].service} \ marked
              /\ stats.external =
                    (shown("external_review") \cup shown("external_guest"))
                        \ (marked \cup guestKeys)
              /\ stats.unassigned = shown("unassigned") \cup (guestKeys \ marked)

\* The dashboard, the cost report and the reports by department and by employee add up: what
\* they differ by is the inactive or the unassigned licences. The utilization report leaves
\* out the disabled providers and puts the packages' cost for licences without a price, and
\* differs from the others by no more. No savings exceed what the licences cost, and every
\* saving advised is a licence that the inactivity report shows.
CostViewsAgree ==
    LET active == SumOfCosts(Active)
        unlisted == {m \in Active : m.provider \notin enabled}
        packages == [p \in enabled |-> IF Unpriced(p) THEN SeatsCost[p] ELSE 0]
    IN  /\ Dashboard.cost = TotalOf(CostReport)
        /\ TotalOf(CostReport) = TotalOf(DepartmentCosts) + SumOfCosts(LicenceRows \ Active)
        /\ TotalOf(DepartmentCosts) =
              TotalOf(EmployeeCosts) + SumOfCosts({m \in Active : ~Assigned(m)})
        /\ TotalOf([p \in enabled |-> Utilization[p].cost]) + SumOfCosts(unlisted)
              = active + TotalOf(packages)
        /\ SumOfCosts(PotentialSavings) <= active
        /\ \A kind \in {"cancel", "reassign", "review"} : Recommended(kind) \subseteq Inactive(30)
        /\ Dashboard.external = ExternalUsers
        /\ \A p \in enabled :
              StatsOf(p).external \cap {m \in Memberships : IsForeign(m)}
                  \subseteq (IF domains THEN Utilization[p].external ELSE Active)
        /\ \A e \in left, m \in Active :
              m \in Pending[e] /\ ~held[m].service /\ held[m].match # "external_guest"
                  => m \in PotentialSavings

\* Two figures of the same rows never contradict each other.
FiguresAgree == ListsAgree /\ CostViewsAgree
==============================================================================
