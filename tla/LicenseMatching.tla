--------------------------- MODULE LicenseMatching ---------------------------
(***************************************************************************)
(* Who uses a licence: the columns of one provider's licence rows that     *)
(* link it to an employee (employee_id, the suggestion and its review, the *)
(* service account flag), written by                                       *)
(*   - the provider sync, which matches every licence it fetches           *)
(*     (sync_service._sync_license_provider, matching_service),            *)
(*   - the review and assignment requests (matching_service,               *)
(*     license_service),                                                   *)
(*   - the service account rules (service_account_service).                *)
(* As in LicenseLifecycle a request loads a row and later sends only the   *)
(* columns that differ from what it loaded.  The sync reloads each row     *)
(* after its first UPDATE has locked it (upsert's flush and refresh) and   *)
(* decides about the match columns on that copy.                           *)
(***************************************************************************)
EXTENDS Integers, FiniteSets

CONSTANTS
    Licenses,       \* licence rows of one provider
    Employees,
    Requests,       \* concurrent API requests
    None,           \* SQL NULL
    Keep            \* a column that an UPDATE leaves alone

\* Confidence levels: 0 is NULL or 0.0, then fuzzy name (0.5 up), local part
\* (0.85, 0.90) and exact (1.0).
Levels            == 0 .. 3
SuggestLevel      == 1      \* CONFIDENCE_SUGGEST
AutoAssignLevel   == 3      \* CONFIDENCE_AUTO_ASSIGN

Verdicts    == {"auto_matched", "suggested", "confirmed", "rejected",
                "external_guest", "external_review"}
MatchStatus == Verdicts \cup {None}

Person == Employees \cup {None}

Row == [employee: Person, suggested: Person, confidence: Levels,
        status: MatchStatus, reviewed: BOOLEAN, service: BOOLEAN]

Patch == [employee: Person \cup {Keep}, suggested: Person \cup {Keep},
          confidence: Levels \cup {Keep}, status: MatchStatus \cup {Keep},
          reviewed: BOOLEAN \cup {Keep}, service: BOOLEAN \cup {Keep}]

ASSUME MarkersDistinct ==
    /\ None \notin Employees /\ Keep \notin Employees /\ None # Keep
    /\ Keep \notin BOOLEAN /\ Keep \notin Int /\ Keep \notin Verdicts
    /\ None \notin Verdicts /\ None \notin Licenses /\ None \notin Row

BlankRow == [employee |-> None, suggested |-> None, confidence |-> 0,
             status |-> None, reviewed |-> FALSE, service |-> FALSE]

VARIABLES
    row,      \* [Licenses -> committed row, or None where there is none]
    rules,    \* licences that a service account pattern or type rule covers
    req,      \* [Requests -> the patches an open request will write]
    sync      \* the provider's one open sync transaction

vars == <<row, rules, req, sync>>

NoPatch == [employee |-> Keep, suggested |-> Keep, confidence |-> Keep,
            status |-> Keep, reviewed |-> Keep, service |-> Keep]

\* touched: the rows of its UPDATE, none while no request is open; cover: a licence
\* that the request puts under a rule (apply_globally), or None.
IdleReq == [touched |-> {}, patch |-> [l \in Licenses |-> NoPatch],
            cover |-> None]

Open(r) == req[r].touched # {}

\* rules: the patterns loaded at the start; known: the employees it may match that
\* are still there; at: the licence in work; loaded: employee_id in the copy of its row
\* ({} where there was no row); done: the rows already upserted (and locked), new:
\* their contents, certain: whom an exact match named.
IdleSync == [open |-> FALSE, rules |-> {}, known |-> {}, at |-> None, loaded |-> {},
             done |-> {}, new |-> [l \in Licenses |-> BlankRow],
             certain |-> [l \in Licenses |-> None]]

-----------------------------------------------------------------------------
(* matching_service.match_license and MatchResult *)

\* What one match can answer: an exact or external account match, a suggestion,
\* an external address without a candidate, nothing. Employees and linked
\* accounts come and go between syncs, so every sync may get another answer.
MatchResults(known) ==
    [employee: known, confidence: {AutoAssignLevel}, status: {"auto_matched"}]
        \cup [employee: known, confidence: SuggestLevel .. AutoAssignLevel - 1,
              status: {"suggested"}]
        \cup [employee: {None}, confidence: {0}, status: {None, "external_review"}]

\* Mutant: the threshold of a suggestion is enough.
ShouldAutoAssignEarly(m) == m.employee # None /\ m.confidence >= AutoAssignLevel - 1

ShouldAutoAssign(m) == m.employee # None /\ m.confidence >= AutoAssignLevel

ShouldSuggest(m) ==
    m.employee # None /\ m.confidence >= SuggestLevel /\ m.confidence < AutoAssignLevel

-----------------------------------------------------------------------------
(* Requests *)

Diff(loaded, new) ==
    [c \in DOMAIN loaded |-> IF new[c] = loaded[c] THEN Keep ELSE new[c]]

Apply(r, p) == [c \in DOMAIN r |-> IF p[c] = Keep THEN r[c] ELSE p[c]]

Locked(l) == sync.open /\ l \in sync.done

Load(r, l, patch) ==
    /\ ~Open(r)
    /\ req' = [req EXCEPT ![r] = [IdleReq EXCEPT !.touched = {l}, !.patch[l] = patch]]
    /\ UNCHANGED <<row, rules, sync>>

\* match_reviewed_at is a fresh timestamp: it is always part of the UPDATE.
Reviewed(loaded, new) == [Diff(loaded, new) EXCEPT !.reviewed = TRUE]

ConfirmMatch(r, l) ==
    /\ row[l] # None /\ row[l].suggested # None
    /\ Load(r, l,
            Reviewed(row[l], [row[l] EXCEPT !.employee = row[l].suggested,
                                            !.suggested = None, !.status = "confirmed"]))

\* Mutant: a status that nobody else knows.
RejectMatchNewStatus(r, l) ==
    /\ row[l] # None
    /\ Load(r, l,
            Reviewed(row[l], [row[l] EXCEPT !.suggested = None, !.status = "declined"]))

RejectMatch(r, l) ==
    /\ row[l] # None
    /\ Load(r, l,
            Reviewed(row[l], [row[l] EXCEPT !.suggested = None, !.status = "rejected"]))

MarkAsExternalGuest(r, l) ==
    /\ row[l] # None
    /\ Load(r, l,
            Reviewed(row[l], [row[l] EXCEPT !.employee = None, !.suggested = None,
                                            !.status = "external_guest"]))

\* matching_service.assign_to_employee
AssignToEmployee(r, l, e) ==
    /\ row[l] # None
    /\ Load(r, l,
            Reviewed(row[l], [row[l] EXCEPT !.employee = e, !.suggested = None,
                                            !.confidence = AutoAssignLevel,
                                            !.status = "confirmed"]))

\* Mutant: unassigning clears the match status too.
SetEmployeeClearsStatus(r, l, e) ==
    /\ row[l] # None
    /\ Load(r, l,
            Diff(row[l], [row[l] EXCEPT !.employee = e,
                                        !.status = IF e = None THEN None ELSE @]))

\* license_service.assign_license_to_employee and unassign_license leave the
\* match columns alone.
SetEmployee(r, l, e) ==
    /\ row[l] # None
    /\ Load(r, l, Diff(row[l], [row[l] EXCEPT !.employee = e]))

\* license_service._update_account_with_commit for service accounts.
SetServiceAccount(r, l, flag, globally) ==
    /\ row[l] # None /\ ~Open(r)
    /\ LET new == [row[l] EXCEPT !.service = flag,
                                 !.employee = IF flag THEN None ELSE @]
       IN  req' = [req EXCEPT ![r] =
                     [IdleReq EXCEPT !.touched = {l},
                                     !.patch[l] = Diff(row[l], new),
                                     !.cover = IF flag /\ globally THEN l ELSE None]]
    /\ UNCHANGED <<row, rules, sync>>

\* apply_patterns_to_all_licenses, apply_license_types_to_all_licenses: covered
\* rows that are not flagged yet get the flag, and nothing else.
ApplyRules(r) ==
    LET hit == {l \in rules : row[l] # None /\ ~row[l].service}
    IN  /\ ~Open(r) /\ hit # {}
        /\ req' = [req EXCEPT ![r] =
                     [IdleReq EXCEPT !.touched = hit,
                        !.patch = [l \in Licenses |->
                                     IF l \in hit THEN [NoPatch EXCEPT !.service = TRUE]
                                                  ELSE NoPatch]]]
        /\ UNCHANGED <<row, rules, sync>>

\* Flush and commit; an UPDATE waits for the sync's lock.
CommitRequest(r) ==
    /\ Open(r)
    /\ \A l \in req[r].touched : ~Locked(l)
    /\ row' = [l \in Licenses |-> IF l \in req[r].touched
                                  THEN Apply(row[l], req[r].patch[l]) ELSE row[l]]
    /\ rules' = rules \cup ({req[r].cover} \ {None})
    /\ req' = [req EXCEPT ![r] = IdleReq]
    /\ UNCHANGED sync

\* Any exception before the commit: nothing is written.
RequestFails(r) ==
    /\ Open(r)
    /\ req' = [req EXCEPT ![r] = IdleReq]
    /\ UNCHANGED <<row, rules, sync>>

\* license_service.bulk_unassign: one UPDATE statement on the committed rows.
BulkUnassign(ls) ==
    /\ \A l \in ls : row[l] # None /\ ~Locked(l)
    /\ row' = [l \in Licenses |-> IF l \in ls THEN [row[l] EXCEPT !.employee = None]
                                             ELSE row[l]]
    /\ UNCHANGED <<rules, req, sync>>

\* bulk_delete, remove_from_provider. A request that has loaded one of the rows
\* finds nothing to update (StaleDataError) and fails.
BulkDelete(ls) ==
    /\ \A l \in ls : row[l] # None /\ ~Locked(l)
    /\ row' = [l \in Licenses |-> IF l \in ls THEN None ELSE row[l]]
    /\ req' = [r \in Requests |-> IF req[r].touched \cap ls # {} THEN IdleReq ELSE req[r]]
    /\ UNCHANGED <<rules, sync>>

\* import_service._process_row: a CSV import into the provider, decided by a person.
\* A key that the open sync has inserted is taken.
ImportLicense(l, e, service) ==
    /\ row[l] = None /\ ~Locked(l)
    /\ row' = [row EXCEPT ![l] = [BlankRow EXCEPT !.employee = e, !.service = service]]
    /\ UNCHANGED <<rules, req, sync>>

\* manual_employee_service.delete_employee: the ORM clears employee_id of the
\* employee's licences, the foreign key suggested_employee_id is SET NULL.
\* Whoever is about to write the employee into a row fails on the foreign key.
\* An employee of the same name may be entered again later: another employee.
DeleteEmployee(e) ==
    LET linked(x) == e \in {x.employee, x.suggested}
    IN  /\ \A l \in Licenses :
              Locked(l) => ~linked(sync.new[l]) /\ (row[l] # None => ~linked(row[l]))
        /\ row' = [l \in Licenses |->
                      IF row[l] = None THEN None
                      ELSE [row[l] EXCEPT !.employee = IF @ = e THEN None ELSE @,
                                          !.suggested = IF @ = e THEN None ELSE @]]
        /\ req' = [r \in Requests |->
                      IF \E l \in req[r].touched : req[r].patch[l].employee = e
                      THEN IdleReq ELSE req[r]]
        /\ sync' = [sync EXCEPT !.known = @ \ {e}]
        /\ UNCHANGED rules

\* create_pattern, create_license_type and their deletion.
ChangeRules(l) ==
    /\ rules' = IF l \in rules THEN rules \ {l} ELSE rules \cup {l}
    /\ UNCHANGED <<row, req, sync>>

-----------------------------------------------------------------------------
(* sync_service._sync_license_provider *)

\* The status row of the provider (IN_PROGRESS) is updated first and stays locked:
\* there is one open sync per provider.
SyncBegin ==
    /\ ~sync.open
    /\ sync' = [IdleSync EXCEPT !.open = TRUE, !.rules = rules, !.known = Employees]
    /\ UNCHANGED <<row, rules, req>>

\* The row as the sync's transaction sees it: its own writes come first.
Visible(l) == IF l \in sync.done THEN sync.new[l] ELSE row[l]

EmployeeOf(l) == IF Visible(l) = None THEN {} ELSE {Visible(l).employee}

\* get_by_provider_and_external_id; the matching queries are awaited afterwards.
\* A provider may list a member again: nothing removes duplicates.
SyncLoad(l) ==
    /\ sync.open /\ sync.at = None
    /\ sync' = [sync EXCEPT !.at = l, !.loaded = EmployeeOf(l)]
    /\ UNCHANGED <<row, rules, req>>

\* Mutants: the review does not count; any other suggestion replaces the old one.
UpdateReviewedToo(x, suggestion, m) ==
    IF suggestion = None
    THEN IF x.suggested # None THEN x
         ELSE [x EXCEPT !.confidence = m.confidence, !.status = m.status]
    ELSE [x EXCEPT !.suggested = suggestion, !.confidence = m.confidence,
                   !.status = m.status]
UpdateMatchFields(x, suggestion, m) ==
    IF x.reviewed THEN x ELSE UpdateReviewedToo(x, suggestion, m)

\* _update_match_fields_if_better: nothing new keeps a waiting suggestion.
UpdateMatchFieldsIfBetter(x, suggestion, m) ==
    IF /\ ~x.reviewed
       /\ \/ x.suggested = None
          \/ suggestion # None /\ m.confidence > x.confidence
    THEN [x EXCEPT !.suggested = suggestion, !.confidence = m.confidence,
                   !.status = m.status]
    ELSE x

\* Mutant: the match status of a service account survives.
AsServiceAccountKeepsStatus(x) ==
    [x EXCEPT !.service = TRUE, !.suggested = None, !.confidence = 0]

AsServiceAccount(x) ==
    [x EXCEPT !.service = TRUE, !.suggested = None, !.confidence = 0, !.status = None]

\* upsert sets employee_id on the loaded copy: the UPDATE holds it only if it
\* differs from there. The refreshed row then gets its match columns.
Upserted(l, m) ==
    LET covered  == l \in sync.rules
        employee == IF ~covered /\ ShouldAutoAssign(m) THEN m.employee ELSE None
        current  == IF Visible(l) = None THEN BlankRow ELSE Visible(l)
        fresh    == IF sync.loaded = {employee} THEN current
                    ELSE [current EXCEPT !.employee = employee]
    IN  IF covered THEN AsServiceAccount(fresh)
        ELSE UpdateMatchFieldsIfBetter(fresh, IF ShouldSuggest(m) THEN m.employee ELSE None, m)

\* The upsert needs the row that was loaded: if it was deleted the sync fails.
SyncUpsert(m) ==
    /\ sync.open /\ sync.at # None
    /\ sync.loaded # {} => Visible(sync.at) # None
    /\ sync' = [sync EXCEPT !.at = None, !.loaded = {}, !.done = @ \cup {sync.at},
                            !.new[sync.at] = Upserted(sync.at, m),
                            !.certain[sync.at] =
                               IF m.confidence = AutoAssignLevel THEN m.employee ELSE None]
    /\ UNCHANGED <<row, rules, req>>

\* sync_all_providers swallows an exception of one provider and commits at the
\* end: the licences done so far may be all that is committed.
SyncCommit ==
    /\ sync.open
    /\ row' = [l \in Licenses |-> IF l \in sync.done THEN sync.new[l] ELSE row[l]]
    /\ sync' = IdleSync
    /\ UNCHANGED <<rules, req>>

\* The sync of a single provider re-raises: everything is rolled back.
SyncFails ==
    /\ sync.open
    /\ sync' = IdleSync
    /\ UNCHANGED <<row, rules, req>>

-----------------------------------------------------------------------------
Init ==
    /\ row = [l \in Licenses |-> None]
    /\ rules = {}
    /\ req = [r \in Requests |-> IdleReq]
    /\ sync = IdleSync

ReviewStep(r) ==
    \E l \in Licenses :
        \/ ConfirmMatch(r, l)
        \/ RejectMatch(r, l)
        \/ MarkAsExternalGuest(r, l)
        \/ \E e \in Employees : AssignToEmployee(r, l, e)

AccountStep(r) ==
    \/ \E l \in Licenses, e \in Person : SetEmployee(r, l, e)
    \/ \E l \in Licenses, flag, globally \in BOOLEAN : SetServiceAccount(r, l, flag, globally)
    \/ ApplyRules(r)

SyncStep ==
    \/ SyncBegin
    \/ \E l \in Licenses : SyncLoad(l)
    \/ \E m \in MatchResults(sync.known) : SyncUpsert(m)
    \/ SyncCommit
    \/ SyncFails

Next ==
    \/ \E r \in Requests :
          ReviewStep(r) \/ AccountStep(r) \/ CommitRequest(r) \/ RequestFails(r)
    \/ \E ls \in SUBSET Licenses \ {{}} : BulkUnassign(ls) \/ BulkDelete(ls)
    \/ \E l \in Licenses, e \in Person, service \in BOOLEAN : ImportLicense(l, e, service)
    \/ \E e \in Employees : DeleteEmployee(e)
    \/ \E l \in Licenses : ChangeRules(l)
    \/ SyncStep

Spec == Init /\ [][Next]_vars

-----------------------------------------------------------------------------
(* Properties *)

\* Every column holds a value of its domain, in the tables and in what the open
\* requests and the sync are about to write.
TypeOK ==
    /\ row \in [Licenses -> Row \cup {None}]
    /\ rules \subseteq Licenses
    /\ req \in [Requests -> [touched: SUBSET Licenses, patch: [Licenses -> Patch],
                             cover: Licenses \cup {None}]]
    /\ sync \in [open: BOOLEAN, rules: SUBSET Licenses, known: SUBSET Employees,
                 at: Licenses \cup {None}, loaded: SUBSET Person,
                 done: SUBSET Licenses, new: [Licenses -> Row],
                 certain: [Licenses -> Person]]

\* A reviewed licence never carries a verdict of the automatic matching
\* (sync_service.py, "If user has manually reviewed this match, don't overwrite"):
\* its status is the reviewer's, or was cleared for a service account.
ReviewedStatus ==
    \A l \in Licenses : row[l] # None /\ row[l].reviewed =>
        row[l].status \in {"confirmed", "rejected", "external_guest", None}

\* A licence in the queue of pending suggestions (get_suggested_matches) names the
\* suggested employee; it loses the name only when that employee is deleted.
Dangling(x) == x # None /\ x.status = "suggested" /\ x.suggested = None
SuggestionsNameEmployee ==
    [][\A l \in Licenses : Dangling(row'[l]) /\ ~Dangling(row[l]) =>
          /\ row[l] # None /\ row[l].suggested # None
          /\ DeleteEmployee(row[l].suggested)]_vars

\* "Update match fields only if the new match is better": while a suggestion waits
\* for its review it is replaced by another employee only with higher confidence.
BetterSuggestionsOnly ==
    [][\A l \in Licenses :
          LET old == row[l]
              new == row'[l]
          IN  (/\ old # None /\ new # None
               /\ old.suggested # None /\ new.suggested \notin {None, old.suggested})
              => new.confidence > old.confidence]_vars

\* A licence gets a (new) employee only from a person (a request, the import that
\* enters it), or from a sync whose match was certain: "External matches are only
\* suggested".
AssignmentHasEvidence ==
    [][\A l \in Licenses :
          LET old == IF row[l] = None THEN None ELSE row[l].employee
              new == IF row'[l] = None THEN None ELSE row'[l].employee
          IN  new \notin {None, old} =>
                \/ l \in sync.done /\ sync.certain[l] = new
                \/ row[l] = None /\ l \notin sync.done
                \/ \E r \in Requests : l \in req[r].touched /\ req[r].patch[l].employee = new]_vars

\* The decision about a licence and the service accounts as MatchReview sees them.
DecisionOn(l) ==
    IF row[l] = None THEN "unknown"
    ELSE IF row[l].status \in {"confirmed", "rejected", "external_guest"}
         THEN row[l].status ELSE "open"
Decision        == [l \in Licenses |-> DecisionOn(l)]
ServiceAccounts == {l \in Licenses : row[l] # None /\ row[l].service}
Review == INSTANCE MatchReview WITH decision <- Decision, service <- ServiceAccounts

\* MatchReview's promise: the reviewer's decision about a licence changes only by
\* another decision, never by the automatic matching, whatever overlaps.
DecisionsStand == Review!Spec

\* What the comment "don't overwrite" promises about the assignment itself: a sync
\* leaves the employee of a reviewed licence alone.
ReviewedAssignmentKept ==
    [][\A l \in Licenses :
          SyncCommit /\ row[l] # None /\ row[l].reviewed /\ ~row'[l].service
          => row'[l].employee = row[l].employee]_vars

=============================================================================
