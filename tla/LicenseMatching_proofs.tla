---------------------- MODULE LicenseMatching_proofs ----------------------
(***************************************************************************)
(* Proofs about LicenseMatching, for any sets of licences, employees and   *)
(* requests: type correctness, the integrity of reviewed rows, and that    *)
(* the transactions implement the review promised by MatchReview.          *)
(***************************************************************************)
EXTENDS LicenseMatching, TLAPS

ReqRec == [touched: SUBSET Licenses, patch: [Licenses -> Patch],
           cover: Licenses \cup {None}]

Decisions == {"confirmed", "rejected", "external_guest"}

-----------------------------------------------------------------------------
(* Rows, patches and matches *)

\* Comparing two rows column by column yields a patch.
LEMMA DiffType ==
    ASSUME NEW loaded \in Row, NEW new \in Row
    PROVE  Diff(loaded, new) \in Patch
BY DEF Diff, Row, Patch

\* Applying a patch to a row yields a row.
LEMMA ApplyType ==
    ASSUME NEW x \in Row, NEW p \in Patch
    PROVE  Apply(x, p) \in Row
BY DEF Apply, Row, Patch

\* The empty UPDATE is a patch, a new row is a row, an ended request is well-formed.
LEMMA BlankTypes ==
    /\ NoPatch \in Patch
    /\ BlankRow \in Row
    /\ IdleReq \in ReqRec
<1>1. NoPatch \in Patch
  BY DEF NoPatch, Patch
<1>2. BlankRow \in Row
  BY DEF BlankRow, Row, Person, Levels, MatchStatus, Verdicts
<1>3. IdleReq \in ReqRec
  BY <1>1 DEF IdleReq, ReqRec
<1>4. QED
  BY <1>1, <1>2, <1>3

\* What a match answers fits into the columns of a row.
LEMMA MatchType ==
    ASSUME NEW known \in SUBSET Employees, NEW m \in MatchResults(known)
    PROVE  /\ m.employee \in Person
           /\ m.confidence \in Levels
           /\ m.status \in MatchStatus
BY DEF MatchResults, Person, Levels, MatchStatus, Verdicts, SuggestLevel, AutoAssignLevel

\* No match writes the verdict of a reviewer.
LEMMA MatchVerdict ==
    ASSUME NEW known \in SUBSET Employees, NEW m \in MatchResults(known)
    PROVE  m.status \notin Decisions
<1>1. None \notin Decisions
  BY MarkersDistinct DEF Decisions, Verdicts
<1>2. m.status \in {"auto_matched", "suggested", "external_review", None}
  BY DEF MatchResults
<1>3. QED
  BY <1>1, <1>2 DEF Decisions

\* Each column of the row that an UPDATE leaves is its patch, or the old value.
LEMMA ApplyColumns ==
    ASSUME NEW x \in Row, NEW p \in Patch
    PROVE  /\ Apply(x, p).status = (IF p.status = Keep THEN x.status ELSE p.status)
           /\ Apply(x, p).reviewed = (IF p.reviewed = Keep THEN x.reviewed ELSE p.reviewed)
           /\ Apply(x, p).service = (IF p.service = Keep THEN x.service ELSE p.service)
           /\ Apply(x, p).suggested
                  = (IF p.suggested = Keep THEN x.suggested ELSE p.suggested)
           /\ Apply(x, p).employee = (IF p.employee = Keep THEN x.employee ELSE p.employee)
BY DEF Apply, Row

\* A column that a handler leaves alone is not part of its UPDATE.
LEMMA DiffColumns ==
    ASSUME NEW x \in Row, NEW y \in Row
    PROVE  /\ Diff(x, y).status = (IF y.status = x.status THEN Keep ELSE y.status)
           /\ Diff(x, y).reviewed = (IF y.reviewed = x.reviewed THEN Keep ELSE y.reviewed)
           /\ Diff(x, y).service = (IF y.service = x.service THEN Keep ELSE y.service)
           /\ Diff(x, y).suggested
                  = (IF y.suggested = x.suggested THEN Keep ELSE y.suggested)
BY DEF Diff, Row

-----------------------------------------------------------------------------
(* What a request may have pending *)

\* An UPDATE that reviews nothing: it leaves the verdict and the suggestion alone.
AccountPatch(q, l) ==
    /\ q.patch[l].status = Keep /\ q.patch[l].reviewed = Keep
    /\ q.patch[l].suggested = Keep
    /\ q.patch[l].service = FALSE => q.touched = {l}

\* The UPDATE of a review: it marks the row as reviewed and suggests nobody; a verdict
\* that it does not send is one that the row had, as a reviewed row, when the request
\* loaded it.
ReviewPatch(q, l) ==
    /\ q.touched = {l} /\ q.patch[l].suggested \in {Keep, None}
    /\ q.patch[l].reviewed = TRUE /\ q.patch[l].service = Keep
    /\ \/ q.patch[l].status \in Decisions
       \/ /\ q.patch[l].status = Keep
          /\ row[l].reviewed = TRUE /\ row[l].status \in Decisions \cup {None}

PatchOK(q, l) == row[l] # None /\ (AccountPatch(q, l) \/ ReviewPatch(q, l))

\* A row whose verdict and review mark agree.
Good(x) ==
    /\ x.reviewed = TRUE => x.status \in Decisions \cup {None}
    /\ x.status \in Decisions => x.reviewed = TRUE

RowsGood == \A l \in Licenses : row[l] # None => Good(row[l])

\* A request starts: it loads rows and remembers patches that are in order.
Opens(r) ==
    /\ UNCHANGED <<row, rules, sync>>
    /\ \E q \in ReqRec : /\ req' = [req EXCEPT ![r] = q]
                         /\ \A l \in q.touched : PatchOK(q, l)

\* What Load remembers.
LEMMA LoadOpens ==
    ASSUME NEW r \in Requests, NEW l \in Licenses, NEW patch \in Patch,
           Load(r, l, patch),
           row[l] # None,
           \/ patch.status = Keep /\ patch.reviewed = Keep /\ patch.suggested = Keep
           \/ /\ patch.reviewed = TRUE /\ patch.service = Keep
              /\ patch.suggested \in {Keep, None}
              /\ \/ patch.status \in Decisions
                 \/ /\ patch.status = Keep
                    /\ row[l].reviewed = TRUE /\ row[l].status \in Decisions \cup {None}
    PROVE  Opens(r)
<1> DEFINE q == [IdleReq EXCEPT !.touched = {l}, !.patch[l] = patch]
<1>1. /\ q.touched = {l}
      /\ q.patch[l] = patch
      /\ q \in ReqRec
  BY BlankTypes DEF IdleReq, ReqRec
<1>2. PatchOK(q, l)
  <2> HIDE DEF q
  <2>1. QED
    BY <1>1 DEF PatchOK, AccountPatch, ReviewPatch
<1>3. req' = [req EXCEPT ![r] = q] /\ UNCHANGED <<row, rules, sync>>
  BY DEF Load
<1>4. QED
  <2> HIDE DEF q
  <2>1. \A k \in q.touched : PatchOK(q, k)
    BY <1>1, <1>2
  <2>2. QED
    BY <1>1, <1>3, <2>1 DEF Opens

\* The UPDATE of a review that leaves the service flag alone and gives a verdict.
LEMMA ReviewOpens ==
    ASSUME NEW r \in Requests, NEW l \in Licenses, NEW new \in Row,
           row[l] \in Row, Good(row[l]),
           new.status \in Decisions, new.service = row[l].service, new.suggested = None,
           Load(r, l, Reviewed(row[l], new)), row[l] # None
    PROVE  Opens(r)
<1> DEFINE d == Diff(row[l], new)
<1>1. d \in Patch
  BY DiffType
<1>2. /\ d.status = (IF new.status = row[l].status THEN Keep ELSE new.status)
      /\ d.service = Keep /\ d.suggested \in {Keep, None}
  BY DiffColumns
<1> DEFINE patch == [d EXCEPT !.reviewed = TRUE]
<1>3. patch \in Patch /\ patch.reviewed = TRUE /\ patch.service = d.service
      /\ patch.status = d.status /\ patch.suggested = d.suggested
  <2> HIDE DEF d
  <2>1. QED
    BY <1>1 DEF Patch
<1>4. Load(r, l, patch)
  BY DEF Reviewed
<1>5. \/ patch.status \in Decisions
      \/ /\ patch.status = Keep
         /\ row[l].reviewed = TRUE /\ row[l].status \in Decisions \cup {None}
  <2> HIDE DEF d, patch
  <2>1. CASE new.status = row[l].status
    BY <2>1, <1>2, <1>3 DEF Good
  <2>2. CASE new.status # row[l].status
    BY <2>2, <1>2, <1>3
  <2>3. QED
    BY <2>1, <2>2
<1>6. QED
  <2> HIDE DEF d, patch
  <2>1. QED
    BY <1>2, <1>3, <1>4, <1>5, LoadOpens

\* Assigning or unassigning an employee reviews nothing.
LEMMA SetEmployeeOpens ==
    ASSUME NEW r \in Requests, NEW l \in Licenses, NEW e \in Person,
           row[l] \in Row, SetEmployee(r, l, e)
    PROVE  Opens(r)
<1> DEFINE new == [row[l] EXCEPT !.employee = e]
           d == Diff(row[l], new)
<1>1. /\ new \in Row /\ new.status = row[l].status
      /\ new.reviewed = row[l].reviewed /\ new.suggested = row[l].suggested
  BY DEF Row
<1>2. d \in Patch /\ d.status = Keep /\ d.reviewed = Keep /\ d.suggested = Keep
  <2> HIDE DEF new
  <2>1. QED
    BY <1>1, DiffType, DiffColumns
<1>3. row[l] # None /\ Load(r, l, d)
  BY DEF SetEmployee
<1>4. QED
  <2> HIDE DEF d
  <2>1. QED
    BY <1>2, <1>3, LoadOpens

\* Neither does setting or clearing the service account flag of one licence.
LEMMA SetServiceAccountOpens ==
    ASSUME NEW r \in Requests, NEW l \in Licenses, NEW flag \in BOOLEAN,
           NEW globally \in BOOLEAN,
           row[l] \in Row, SetServiceAccount(r, l, flag, globally)
    PROVE  Opens(r)
<1> DEFINE new == [row[l] EXCEPT !.service = flag,
                                 !.employee = IF flag THEN None ELSE @]
           d == Diff(row[l], new)
           c == IF flag /\ globally THEN l ELSE None
           q == [IdleReq EXCEPT !.touched = {l}, !.patch[l] = d, !.cover = c]
<1>1. /\ new \in Row /\ new.status = row[l].status
      /\ new.reviewed = row[l].reviewed /\ new.suggested = row[l].suggested
  BY DEF Row, Person
<1>2. d \in Patch /\ d.status = Keep /\ d.reviewed = Keep /\ d.suggested = Keep
  <2> HIDE DEF new
  <2>1. QED
    BY <1>1, DiffType, DiffColumns
<1>3. req' = [req EXCEPT ![r] = q] /\ UNCHANGED <<row, rules, sync>> /\ row[l] # None
  BY DEF SetServiceAccount
<1>4. q \in ReqRec /\ q.touched = {l} /\ q.patch[l] = d
  <2> HIDE DEF d
  <2>1. QED
    BY <1>2, BlankTypes DEF IdleReq, ReqRec
<1>5. PatchOK(q, l)
  <2> HIDE DEF d, q
  <2>1. QED
    BY <1>2, <1>3, <1>4 DEF PatchOK, AccountPatch
<1>6. QED
  <2> HIDE DEF d, q
  <2>1. \A k \in q.touched : PatchOK(q, k)
    BY <1>4, <1>5
  <2>2. QED
    BY <1>3, <1>4, <2>1 DEF Opens

\* The application of the rules raises flags and reviews nothing.
LEMMA ApplyRulesOpens ==
    ASSUME TypeOK, NEW r \in Requests, ApplyRules(r)
    PROVE  Opens(r)
<1> DEFINE hit == {l \in rules : row[l] # None /\ ~row[l].service}
           flagged == [NoPatch EXCEPT !.service = TRUE]
           q == [IdleReq EXCEPT !.touched = hit,
                    !.patch = [l \in Licenses |-> IF l \in hit THEN flagged ELSE NoPatch]]
<1>1. /\ flagged \in Patch /\ flagged.status = Keep /\ flagged.reviewed = Keep
      /\ flagged.service = TRUE /\ flagged.suggested = Keep
  BY BlankTypes DEF NoPatch, Patch
<1>2. hit \subseteq Licenses
  BY DEF TypeOK
<1>3. /\ q \in ReqRec /\ q.touched = hit
      /\ \A l \in hit : q.patch[l] = flagged
  <2> HIDE DEF hit, flagged
  <2>1. QED
    BY <1>1, <1>2, BlankTypes DEF IdleReq, ReqRec
<1>4. req' = [req EXCEPT ![r] = q] /\ UNCHANGED <<row, rules, sync>>
  BY DEF ApplyRules
<1>5. \A l \in hit : PatchOK(q, l)
  <2> SUFFICES ASSUME NEW l \in hit PROVE PatchOK(q, l)
    OBVIOUS
  <2>1. row[l] # None
    OBVIOUS
  <2> HIDE DEF hit, flagged, q
  <2>2. QED
    BY <1>1, <1>3, <2>1 DEF PatchOK, AccountPatch
<1>6. QED
  <2> HIDE DEF hit, flagged, q
  <2>1. QED
    BY <1>3, <1>4, <1>5 DEF Opens

\* Every handler remembers patches that are in order.
LEMMA RequestOpens ==
    ASSUME TypeOK, RowsGood, NEW r \in Requests, ReviewStep(r) \/ AccountStep(r)
    PROVE  Opens(r)
<1> USE DEF Decisions
<1>1. ASSUME NEW l \in Licenses, row[l] # None
      PROVE  row[l] \in Row /\ Good(row[l])
  BY <1>1 DEF TypeOK, RowsGood
<1>2. ASSUME NEW l \in Licenses, ConfirmMatch(r, l)
      PROVE  Opens(r)
  <2> DEFINE new == [row[l] EXCEPT !.employee = row[l].suggested,
                                   !.suggested = None, !.status = "confirmed"]
  <2>1. row[l] # None /\ Load(r, l, Reviewed(row[l], new))
    BY <1>2 DEF ConfirmMatch
  <2>2. row[l] \in Row /\ Good(row[l])
    BY <1>1, <2>1
  <2>3. /\ new \in Row /\ new.status \in Decisions /\ new.service = row[l].service
        /\ new.suggested = None
    BY <2>2 DEF Row, Person, MatchStatus, Verdicts
  <2>4. QED
    <3> HIDE DEF new
    <3>1. QED
      BY <2>1, <2>2, <2>3, ReviewOpens
<1>3. ASSUME NEW l \in Licenses, RejectMatch(r, l)
      PROVE  Opens(r)
  <2> DEFINE new == [row[l] EXCEPT !.suggested = None, !.status = "rejected"]
  <2>1. row[l] # None /\ Load(r, l, Reviewed(row[l], new))
    BY <1>3 DEF RejectMatch
  <2>2. row[l] \in Row /\ Good(row[l])
    BY <1>1, <2>1
  <2>3. /\ new \in Row /\ new.status \in Decisions /\ new.service = row[l].service
        /\ new.suggested = None
    BY <2>2 DEF Row, Person, MatchStatus, Verdicts
  <2>4. QED
    <3> HIDE DEF new
    <3>1. QED
      BY <2>1, <2>2, <2>3, ReviewOpens
<1>4. ASSUME NEW l \in Licenses, MarkAsExternalGuest(r, l)
      PROVE  Opens(r)
  <2> DEFINE new == [row[l] EXCEPT !.employee = None, !.suggested = None,
                                   !.status = "external_guest"]
  <2>1. row[l] # None /\ Load(r, l, Reviewed(row[l], new))
    BY <1>4 DEF MarkAsExternalGuest
  <2>2. row[l] \in Row /\ Good(row[l])
    BY <1>1, <2>1
  <2>3. /\ new \in Row /\ new.status \in Decisions /\ new.service = row[l].service
        /\ new.suggested = None
    BY <2>2 DEF Row, Person, MatchStatus, Verdicts
  <2>4. QED
    <3> HIDE DEF new
    <3>1. QED
      BY <2>1, <2>2, <2>3, ReviewOpens
<1>5. ASSUME NEW l \in Licenses, NEW e \in Employees, AssignToEmployee(r, l, e)
      PROVE  Opens(r)
  <2> DEFINE new == [row[l] EXCEPT !.employee = e, !.suggested = None,
                                   !.confidence = AutoAssignLevel,
                                   !.status = "confirmed"]
  <2>1. row[l] # None /\ Load(r, l, Reviewed(row[l], new))
    BY <1>5 DEF AssignToEmployee
  <2>2. row[l] \in Row /\ Good(row[l])
    BY <1>1, <2>1
  <2>3. /\ new \in Row /\ new.status \in Decisions /\ new.service = row[l].service
        /\ new.suggested = None
    <3>1. AutoAssignLevel \in Levels
      BY DEF AutoAssignLevel, Levels
    <3>2. QED
      BY <2>2, <3>1 DEF Row, Person, MatchStatus, Verdicts
  <2>4. QED
    <3> HIDE DEF new
    <3>1. QED
      BY <2>1, <2>2, <2>3, ReviewOpens
<1>6. ASSUME NEW l \in Licenses, NEW e \in Person, SetEmployee(r, l, e)
      PROVE  Opens(r)
  BY <1>1, <1>6, SetEmployeeOpens DEF SetEmployee
<1>7. ASSUME NEW l \in Licenses, NEW flag \in BOOLEAN, NEW globally \in BOOLEAN,
             SetServiceAccount(r, l, flag, globally)
      PROVE  Opens(r)
  BY <1>1, <1>7, SetServiceAccountOpens DEF SetServiceAccount
<1>8. QED
  BY <1>2, <1>3, <1>4, <1>5, <1>6, <1>7, ApplyRulesOpens DEF ReviewStep, AccountStep

-----------------------------------------------------------------------------
(* What the sync writes *)

\* y may follow x in a row while the row keeps its licence: marks stay, a decision
\* stays unless the row is a service account, and no decision appears.
Succeeds(x, y) ==
    /\ x.reviewed = TRUE => y.reviewed = TRUE
    /\ x.service = TRUE => y.service = TRUE
    /\ x.status \in Decisions => y.status = x.status \/ y.service = TRUE
    /\ y.status \in Decisions => y.status = x.status

\* y may be written where v was: None, no row, is followed by any row without a verdict.
Follows(v, y) ==
    /\ Good(y)
    /\ v # None => Succeeds(v, y)
    /\ v = None => y.status \notin Decisions

UpsertOK(l, y) == Follows(row[l], y)

\* y queues a suggestion only with a name, and replaces one that waits in v only by one
\* of higher confidence, or clears it for a service account.
Suggests(v, covered, y) ==
    /\ Dangling(y) => Dangling(v)
    /\ v # None /\ v.suggested # None =>
          /\ y.suggested = None => covered
          /\ y.suggested = v.suggested => y.confidence >= v.confidence
          /\ y.suggested \notin {None, v.suggested} => y.confidence > v.confidence
    /\ covered => y.suggested = None

\* The sync's row suggests whom it may, and links nobody but whom an exact match named.
LinkOK(l, y, certain) ==
    /\ Suggests(row[l], l \in sync.rules, y)
    /\ \/ y.employee \in {None, certain}
       \/ row[l] # None /\ y.employee = row[l].employee

\* A licence that the provider lists twice: what follows the first upsert follows what
\* was there before.
LEMMA FollowsAgain ==
    ASSUME NEW v \in Row \cup {None}, NEW y \in Row, NEW z \in Row,
           Follows(v, y), Follows(y, z)
    PROVE  Follows(v, z)
<1>1. y # None
  BY MarkersDistinct
<1>2. QED
  BY <1>1 DEF Follows, Succeeds

LEMMA SuggestsAgain ==
    ASSUME NEW v \in Row \cup {None}, NEW y \in Row, NEW z \in Row, NEW covered \in BOOLEAN,
           Suggests(v, covered, y), Suggests(y, covered, z)
    PROVE  Suggests(v, covered, z)
<1>1. y # None
  BY MarkersDistinct
<1>2. /\ y.confidence \in Int /\ z.confidence \in Int
      /\ v # None => v.confidence \in Int
  BY DEF Row, Levels
<1>3. Dangling(z) => Dangling(v)
  BY DEF Suggests
<1>4. ASSUME v # None, v.suggested # None
      PROVE  /\ z.suggested = None => covered
             /\ z.suggested = v.suggested => z.confidence >= v.confidence
             /\ z.suggested \notin {None, v.suggested} => z.confidence > v.confidence
  <2>1. CASE y.suggested = None
    BY <1>4, <2>1 DEF Suggests
  <2>2. CASE y.suggested # None
    <3>1. /\ y.suggested = v.suggested => y.confidence >= v.confidence
          /\ y.suggested # v.suggested => y.confidence > v.confidence
      BY <1>4, <2>2 DEF Suggests
    <3>2. /\ z.suggested = None => covered
          /\ z.suggested = y.suggested => z.confidence >= y.confidence
          /\ z.suggested \notin {None, y.suggested} => z.confidence > y.confidence
      BY <1>1, <2>2 DEF Suggests
    <3>3. QED
      BY <1>2, <1>4, <2>2, <3>1, <3>2
  <2>3. QED
    BY <2>1, <2>2
<1>5. covered => z.suggested = None
  BY DEF Suggests
<1>6. QED
  BY <1>3, <1>4, <1>5 DEF Suggests

\* The match columns of a reviewed row stay; a row without review gets no decision.
LEMMA MatchFields ==
    ASSUME NEW x \in Row, Good(x), NEW suggestion \in Person,
           NEW known \in SUBSET Employees, NEW m \in MatchResults(known)
    PROVE  LET y == UpdateMatchFieldsIfBetter(x, suggestion, m)
           IN  /\ y \in Row /\ Good(y)
               /\ y.reviewed = x.reviewed /\ y.service = x.service
               /\ y.status = x.status
                  \/ (x.reviewed = FALSE /\ y.status \notin Decisions)
<1> DEFINE y == UpdateMatchFieldsIfBetter(x, suggestion, m)
           z == [x EXCEPT !.suggested = suggestion, !.confidence = m.confidence,
                          !.status = m.status]
<1>1. m.confidence \in Levels /\ m.status \in MatchStatus /\ m.status \notin Decisions
  BY MatchType, MatchVerdict
<1>2. /\ z \in Row /\ z.reviewed = x.reviewed /\ z.service = x.service
      /\ z.status = m.status
  BY <1>1 DEF Row
<1>3. x.reviewed \in BOOLEAN
  BY DEF Row
<1>4. y = x \/ (x.reviewed = FALSE /\ y = z)
  BY <1>3 DEF UpdateMatchFieldsIfBetter
<1>5. QED
  <2> HIDE DEF y, z
  <2>1. /\ y \in Row /\ Good(y)
        /\ y.reviewed = x.reviewed /\ y.service = x.service
        /\ y.status = x.status
           \/ (x.reviewed = FALSE /\ y.status \notin Decisions)
    BY <1>1, <1>2, <1>4 DEF Good
  <2>2. QED
    BY <2>1 DEF y

\* The flag of a service account: the verdict is cleared, the review mark stays.
LEMMA ServiceFields ==
    ASSUME NEW x \in Row
    PROVE  LET y == AsServiceAccount(x)
           IN  /\ y \in Row /\ y.service = TRUE /\ y.status = None
               /\ y.reviewed = x.reviewed
<1>1. None \in Person /\ None \in MatchStatus /\ 0 \in Levels
  BY DEF Person, MatchStatus, Levels
<1>2. QED
  BY <1>1 DEF AsServiceAccount, Row

\* Whatever the match answers, the row that the upsert leaves respects the review of
\* the row that the sync sees.
LEMMA UpsertedOK ==
    ASSUME NEW l \in Licenses, Visible(l) \in Row \cup {None},
           Visible(l) # None => Good(Visible(l)),
           NEW known \in SUBSET Employees, NEW m \in MatchResults(known)
    PROVE  Upserted(l, m) \in Row /\ Follows(Visible(l), Upserted(l, m))
<1> DEFINE covered == l \in sync.rules
           employee == IF ~covered /\ ShouldAutoAssign(m) THEN m.employee ELSE None
           current == IF Visible(l) = None THEN BlankRow ELSE Visible(l)
           fresh == IF sync.loaded = {employee} THEN current
                    ELSE [current EXCEPT !.employee = employee]
           suggestion == IF ShouldSuggest(m) THEN m.employee ELSE None
<1>1. None \notin Decisions
  BY MarkersDistinct DEF Decisions, Verdicts
<1>2. employee \in Person /\ suggestion \in Person
  BY MatchType DEF Person
<1>3. /\ current \in Row /\ Good(current)
      /\ Visible(l) # None => current = Visible(l)
      /\ Visible(l) = None => current.status = None
  <2>1. CASE Visible(l) = None
    BY <2>1, <1>1, BlankTypes DEF BlankRow, Good
  <2>2. CASE Visible(l) # None
    BY <2>2
  <2>3. QED
    BY <2>1, <2>2
<1>4. /\ fresh \in Row /\ fresh.status = current.status
      /\ fresh.reviewed = current.reviewed /\ fresh.service = current.service
  <2> HIDE DEF employee, current
  <2>1. QED
    BY <1>2, <1>3 DEF Row
<1>5. Good(fresh)
  <2> HIDE DEF current, fresh
  <2>1. QED
    BY <1>3, <1>4 DEF Good
<1>6. CASE covered
  <2> DEFINE y == AsServiceAccount(fresh)
  <2>1. Upserted(l, m) = y
    BY <1>6 DEF Upserted
  <2>2. /\ y \in Row /\ y.service = TRUE /\ y.status = None
        /\ y.reviewed = fresh.reviewed
    <3> HIDE DEF fresh
    <3>1. QED
      BY <1>4, ServiceFields
  <2>3. QED
    <3> HIDE DEF y, fresh, current
    <3>1. QED
      BY <1>1, <1>3, <1>4, <2>1, <2>2 DEF Follows, Succeeds, Good
<1>7. CASE ~covered
  <2> DEFINE y == UpdateMatchFieldsIfBetter(fresh, suggestion, m)
  <2>1. Upserted(l, m) = y
    BY <1>7 DEF Upserted
  <2>2. /\ y \in Row /\ Good(y)
        /\ y.reviewed = fresh.reviewed /\ y.service = fresh.service
        /\ y.status = fresh.status
           \/ (fresh.reviewed = FALSE /\ y.status \notin Decisions)
    <3> HIDE DEF fresh, suggestion
    <3>1. QED
      BY <1>2, <1>4, <1>5, MatchFields
  <2>3. QED
    <3> HIDE DEF y, fresh, current, suggestion
    <3>1. QED
      BY <1>1, <1>3, <1>4, <2>1, <2>2 DEF Follows, Succeeds, Good
<1>8. QED
  BY <1>6, <1>7

\* Whom a match names for certain.
CertainOf(m) == IF m.confidence = AutoAssignLevel THEN m.employee ELSE None

\* Whatever the match answers, the row that the upsert leaves has its links for a reason.
LEMMA UpsertedLinks ==
    ASSUME NEW l \in Licenses, Visible(l) \in Row \cup {None},
           NEW known \in SUBSET Employees, NEW m \in MatchResults(known)
    PROVE  /\ Suggests(Visible(l), l \in sync.rules, Upserted(l, m))
           /\ \/ Upserted(l, m).employee \in {None, CertainOf(m)}
              \/ /\ Visible(l) # None /\ Upserted(l, m).employee = Visible(l).employee
                 /\ sync.loaded # {Visible(l).employee}
<1> DEFINE covered == l \in sync.rules
           employee == IF ~covered /\ ShouldAutoAssign(m) THEN m.employee ELSE None
           current == IF Visible(l) = None THEN BlankRow ELSE Visible(l)
           fresh == IF sync.loaded = {employee} THEN current
                    ELSE [current EXCEPT !.employee = employee]
           suggestion == IF ShouldSuggest(m) THEN m.employee ELSE None
<1>1. employee \in Person /\ employee \in {None, CertainOf(m)}
  <2>1. m.employee \in Person /\ m.confidence \in Levels
    BY MatchType
  <2>2. m.confidence >= AutoAssignLevel => m.confidence = AutoAssignLevel
    BY <2>1 DEF Levels, AutoAssignLevel
  <2>3. QED
    BY <2>1, <2>2 DEF ShouldAutoAssign, CertainOf, Person
<1>2. m.status = "suggested" => suggestion # None
  <2>1. m.status = "suggested"
            => m.employee \in known /\ m.confidence \in SuggestLevel .. AutoAssignLevel - 1
    BY MarkersDistinct DEF MatchResults, Verdicts
  <2>2. \A c \in SuggestLevel .. AutoAssignLevel - 1 : c >= SuggestLevel /\ c < AutoAssignLevel
    BY DEF SuggestLevel, AutoAssignLevel
  <2>3. \A e \in known : e # None
    BY MarkersDistinct
  <2>4. QED
    BY <2>1, <2>2, <2>3 DEF ShouldSuggest
<1>3. /\ current \in Row
      /\ Visible(l) # None => current = Visible(l)
      /\ Visible(l) = None => current = BlankRow
  BY BlankTypes
<1>4. /\ fresh \in Row /\ fresh.status = current.status /\ fresh.suggested = current.suggested
      /\ fresh.confidence = current.confidence
      /\ \/ fresh.employee = employee
         \/ fresh.employee = current.employee /\ sync.loaded = {employee}
  <2> HIDE DEF employee, current
  <2>1. QED
    BY <1>1, <1>3 DEF Row
<1>5. /\ Visible(l) = None => current.status # "suggested" /\ current.employee = None
      /\ current.confidence \in Int
  <2>1. BlankRow.status # "suggested" /\ BlankRow.employee = None
    BY MarkersDistinct DEF BlankRow, Verdicts
  <2>2. QED
    <3> HIDE DEF current
    <3>1. QED
      BY <1>3, <2>1 DEF Row, Levels
<1>6. \/ fresh.employee \in {None, CertainOf(m)}
      \/ /\ Visible(l) # None /\ fresh.employee = Visible(l).employee
         /\ sync.loaded # {Visible(l).employee}
  <2> HIDE DEF fresh, current, employee
  <2>1. QED
    BY <1>1, <1>3, <1>4, <1>5
<1>7. CASE covered
  <2> DEFINE y == AsServiceAccount(fresh)
  <2>1. Upserted(l, m) = y
    BY <1>7 DEF Upserted
  <2>2. y.status = None /\ y.suggested = None /\ y.employee = fresh.employee
    <3> HIDE DEF fresh
    <3>1. QED
      BY <1>4 DEF AsServiceAccount, Row
  <2>3. None # "suggested"
    BY MarkersDistinct DEF Verdicts
  <2> HIDE DEF y, fresh
  <2>4. Suggests(Visible(l), l \in sync.rules, y)
    BY <1>7, <2>2, <2>3 DEF Suggests, Dangling
  <2>5. QED
    BY <1>6, <2>1, <2>2, <2>4
<1>8. CASE ~covered
  <2> DEFINE y == UpdateMatchFieldsIfBetter(fresh, suggestion, m)
             z == [fresh EXCEPT !.suggested = suggestion, !.confidence = m.confidence,
                                !.status = m.status]
  <2>1. Upserted(l, m) = y
    BY <1>8 DEF Upserted
  <2>2. /\ z.suggested = suggestion /\ z.confidence = m.confidence /\ z.status = m.status
        /\ z.employee = fresh.employee
    <3> HIDE DEF fresh, suggestion
    <3>1. QED
      BY <1>4 DEF Row
  <2>3. \/ y = fresh
        \/ /\ y = z
           /\ fresh.suggested = None \/ (suggestion # None /\ m.confidence > fresh.confidence)
    <3> HIDE DEF fresh, suggestion
    <3>1. QED
      BY DEF UpdateMatchFieldsIfBetter
  <2> HIDE DEF y, z, fresh, suggestion
  <2>4. y.employee = fresh.employee
    BY <2>2, <2>3
  <2>5. Dangling(y) => Dangling(Visible(l))
    <3>1. CASE y = fresh
      <4> HIDE DEF current
      <4>1. QED
        BY <1>3, <1>4, <1>5, <3>1 DEF Dangling
    <3>2. CASE y = z
      BY <1>2, <2>2, <3>2 DEF Dangling
    <3>3. QED
      BY <2>3, <3>1, <3>2
  <2>6. ASSUME Visible(l) # None, Visible(l).suggested # None
        PROVE  /\ y.suggested # None
               /\ y.suggested = Visible(l).suggested => y.confidence >= Visible(l).confidence
               /\ y.suggested # Visible(l).suggested => y.confidence > Visible(l).confidence
    <3> HIDE DEF current
    <3>1. /\ fresh.suggested = Visible(l).suggested
          /\ fresh.confidence = Visible(l).confidence
          /\ Visible(l).confidence \in Int
      BY <1>3, <1>4, <1>5, <2>6
    <3>2. m.confidence \in Int
      BY MatchType DEF Levels
    <3>3. CASE y = fresh
      BY <2>6, <3>1, <3>3
    <3>4. CASE y = z /\ suggestion # None /\ m.confidence > fresh.confidence
      BY <2>2, <2>6, <3>1, <3>2, <3>4
    <3>5. QED
      BY <2>3, <2>6, <3>1, <3>3, <3>4
  <2>7. Suggests(Visible(l), l \in sync.rules, y)
    BY <1>8, <2>5, <2>6 DEF Suggests
  <2>8. QED
    BY <1>6, <2>1, <2>4, <2>7
<1>9. QED
  BY <1>7, <1>8

-----------------------------------------------------------------------------
(* The inductive invariant *)

RequestsGood ==
    \A r \in Requests : \A l \in req[r].touched : PatchOK(req[r], l)

SyncGood ==
    /\ ~sync.open => sync.done = {}
    /\ \A l \in sync.done : UpsertOK(l, sync.new[l]) /\ LinkOK(l, sync.new[l], sync.certain[l])
    /\ sync.at \in sync.done => sync.loaded = {sync.new[sync.at].employee}

IInv == TypeOK /\ RowsGood /\ RequestsGood /\ SyncGood

\* What other transactions may do to a row between a request's load and its commit.
Keeps(x, y) ==
    x # None =>
        /\ y # None
        /\ (x.reviewed = TRUE /\ x.status \in Decisions \cup {None})
              => (y.reviewed = TRUE /\ y.status \in Decisions \cup {None})

\* Pending patches stay in order while every row keeps what it had.
LEMMA PatchesKept ==
    ASSUME NEW q \in ReqRec, NEW l \in Licenses, PatchOK(q, l), Keeps(row[l], row'[l])
    PROVE  PatchOK(q, l)'
BY DEF PatchOK, AccountPatch, ReviewPatch, Keeps

\* The row that a request's UPDATE leaves: agreement is kept, and so is a review.
LEMMA AppliedOK ==
    ASSUME NEW q \in ReqRec, NEW l \in Licenses, PatchOK(q, l),
           row[l] \in Row, Good(row[l])
    PROVE  LET y == Apply(row[l], q.patch[l])
           IN  y \in Row /\ Good(y) /\ Keeps(row[l], y)
<1> DEFINE x == row[l]
           p == q.patch[l]
           y == Apply(x, p)
<1>1. p \in Patch
  BY DEF ReqRec
<1>2. /\ y \in Row
      /\ y.status = (IF p.status = Keep THEN x.status ELSE p.status)
      /\ y.reviewed = (IF p.reviewed = Keep THEN x.reviewed ELSE p.reviewed)
  <2> HIDE DEF x, p
  <2>1. x \in Row
    BY DEF x
  <2>2. QED
    BY <1>1, <2>1, ApplyType, ApplyColumns
<1>3. y # None
  BY <1>2, MarkersDistinct
<1>4. TRUE # Keep /\ Keep \notin Decisions
  BY MarkersDistinct DEF Decisions, Verdicts
<1>5. CASE AccountPatch(q, l)
  <2>1. y.status = x.status /\ y.reviewed = x.reviewed
    BY <1>2, <1>5 DEF AccountPatch
  <2>2. Good(y) /\ Keeps(row[l], y)
    <3> HIDE DEF y
    <3>1. QED
      BY <1>2, <1>3, <2>1 DEF Good, Keeps
  <2>3. QED
    BY <1>2, <2>2
<1>6. CASE ReviewPatch(q, l)
  <2>1. y.reviewed = TRUE
    BY <1>2, <1>4, <1>6 DEF ReviewPatch
  <2>2. y.status \in Decisions \cup {None}
    BY <1>2, <1>4, <1>6 DEF ReviewPatch
  <2>3. Good(y) /\ Keeps(row[l], y)
    <3> HIDE DEF y
    <3>1. QED
      BY <1>2, <1>3, <2>1, <2>2 DEF Good, Keeps
  <2>4. QED
    BY <1>2, <2>3
<1>7. QED
  BY <1>5, <1>6 DEF PatchOK

\* The row that a sync leaves: the same.
LEMMA SyncedOK ==
    ASSUME NEW l \in Licenses, NEW y \in Row, UpsertOK(l, y)
    PROVE  Good(y) /\ Keeps(row[l], y)
BY MarkersDistinct DEF UpsertOK, Follows, Succeeds, Good, Keeps

\* A request starts.
LEMMA OpensInv ==
    ASSUME IInv, NEW r \in Requests, Opens(r)
    PROVE  IInv'
<1>1. PICK q \in ReqRec : /\ req' = [req EXCEPT ![r] = q]
                          /\ \A l \in q.touched : PatchOK(q, l)
  BY DEF Opens
<1>2. UNCHANGED <<row, rules, sync>>
  BY DEF Opens
<1>3. TypeOK'
  BY <1>1, <1>2 DEF IInv, TypeOK, ReqRec
<1>4. RowsGood' /\ SyncGood'
  BY <1>2 DEF IInv, RowsGood, SyncGood, UpsertOK, LinkOK
<1>5. RequestsGood'
  <2> SUFFICES ASSUME NEW t \in Requests, NEW l \in req'[t].touched
               PROVE  PatchOK(req[t], l)'
    BY DEF RequestsGood
  <2>1. PatchOK(req'[t], l)
    BY <1>1 DEF IInv, TypeOK, RequestsGood
  <2>2. QED
    BY <1>2, <2>1 DEF PatchOK, AccountPatch, ReviewPatch
<1>6. QED
  BY <1>3, <1>4, <1>5 DEF IInv

\* A request ends without a commit, alone or because its rows disappear.
LEMMA RequestsEnd ==
    ASSUME TypeOK, RequestsGood,
           NEW gone \in SUBSET Requests,
           req' = [t \in Requests |-> IF t \in gone THEN IdleReq ELSE req[t]],
           \A t \in Requests \ gone : \A l \in req[t].touched : Keeps(row[l], row'[l])
    PROVE  RequestsGood' /\ req' \in [Requests -> ReqRec]
<1>1. req \in [Requests -> ReqRec]
  BY DEF TypeOK, ReqRec
<1>2. req' \in [Requests -> ReqRec]
  BY <1>1, BlankTypes
<1>3. ASSUME NEW t \in Requests, NEW l \in req'[t].touched
      PROVE  PatchOK(req[t], l)'
  <2>1. t \notin gone
    BY <1>3 DEF IdleReq
  <2>2. req'[t] = req[t] /\ l \in req[t].touched /\ l \in Licenses
    BY <1>1, <2>1 DEF ReqRec
  <2>3. PatchOK(req[t], l) /\ Keeps(row[l], row'[l])
    BY <2>1, <2>2 DEF RequestsGood
  <2> DEFINE q == req[t]
  <2>4. q \in ReqRec
    BY <1>1
  <2>5. PatchOK(q, l) /\ q = req'[t]
    BY <2>2, <2>3
  <2>6. QED
    BY <2>2, <2>3, <2>4, <2>5 DEF PatchOK, AccountPatch, ReviewPatch, Keeps
<1>4. QED
  BY <1>2, <1>3 DEF RequestsGood

SyncRec == [open: BOOLEAN, rules: SUBSET Licenses, known: SUBSET Employees,
            at: Licenses \cup {None}, loaded: SUBSET Person,
            done: SUBSET Licenses, new: [Licenses -> Row],
            certain: [Licenses -> Person]]

\* Two contents of a row that agree on what the review is about.
Alike(x, y) ==
    /\ x = None <=> y = None
    /\ x # None => /\ y.status = x.status
                   /\ y.reviewed = x.reviewed
                   /\ y.service = x.service

\* Rows change under the open requests and the sync: it is enough that the rows stay
\* good, that the requests still open find their rows as they need them, and that
\* locked rows stay.
LEMMA RowsChange ==
    ASSUME IInv,
           NEW gone \in SUBSET Requests,
           req' = [t \in Requests |-> IF t \in gone THEN IdleReq ELSE req[t]],
           row' \in [Licenses -> Row \cup {None}],
           \A l \in Licenses : row'[l] # None => Good(row'[l]),
           \A t \in Requests \ gone : \A l \in req[t].touched : Keeps(row[l], row'[l]),
           \A l \in sync.done : row'[l] = row[l],
           rules' \subseteq Licenses,
           sync' \in SyncRec,
           sync'.open = sync.open, sync'.done = sync.done,
           sync'.new = sync.new, sync'.certain = sync.certain, sync'.at = sync.at,
           sync'.loaded = sync.loaded, sync'.rules = sync.rules
    PROVE  IInv'
<1>1. TypeOK /\ RowsGood /\ RequestsGood /\ SyncGood
  BY DEF IInv
<1>2. RequestsGood' /\ req' \in [Requests -> ReqRec]
  BY <1>1, RequestsEnd
<1>3. TypeOK'
  BY <1>1, <1>2 DEF TypeOK, ReqRec, SyncRec
<1>4. RowsGood'
  BY DEF RowsGood
<1>5. SyncGood'
  BY <1>1 DEF SyncGood, UpsertOK, LinkOK
<1>6. QED
  BY <1>2, <1>3, <1>4, <1>5 DEF IInv

\* No request closes and the sync goes on: the usual instance of RowsChange.
LEMMA UnlockedChange ==
    ASSUME IInv,
           NEW gone \in SUBSET Requests,
           req' = [t \in Requests |-> IF t \in gone THEN IdleReq ELSE req[t]],
           row' \in [Licenses -> Row \cup {None}],
           \A l \in Licenses : row'[l] # None => Good(row'[l]),
           \A t \in Requests \ gone : \A l \in req[t].touched : Keeps(row[l], row'[l]),
           \A l \in Licenses : Locked(l) => row'[l] = row[l],
           rules' \subseteq Licenses, UNCHANGED sync
    PROVE  IInv'
<1>1. sync' \in SyncRec /\ sync.done \subseteq Licenses
  BY DEF IInv, TypeOK, SyncRec
<1>2. \A l \in sync.done : row'[l] = row[l]
  BY <1>1 DEF Locked, IInv, SyncGood
<1>3. QED
  BY <1>1, <1>2, RowsChange

\* A request's UPDATE is committed.
LEMMA CommitInv ==
    ASSUME IInv, NEW r \in Requests, CommitRequest(r)
    PROVE  IInv'
<1> DEFINE gone == {r}
<1>1. TypeOK /\ RowsGood /\ RequestsGood
  BY DEF IInv
<1>2. req[r] \in ReqRec /\ req \in [Requests -> ReqRec]
  BY <1>1 DEF TypeOK, ReqRec
<1>3. ASSUME NEW l \in Licenses, l \in req[r].touched
      PROVE  row'[l] \in Row /\ Good(row'[l]) /\ Keeps(row[l], row'[l])
  <2>1. row[l] # None /\ PatchOK(req[r], l)
    BY <1>1, <1>3 DEF RequestsGood, PatchOK
  <2>2. row[l] \in Row /\ Good(row[l])
    BY <1>1, <2>1 DEF TypeOK, RowsGood
  <2>3. row'[l] = Apply(row[l], req[r].patch[l])
    BY <1>3 DEF CommitRequest
  <2>4. QED
    BY <1>2, <2>1, <2>2, <2>3, AppliedOK
<1>4. ASSUME NEW l \in Licenses, l \notin req[r].touched
      PROVE  row'[l] = row[l]
  BY <1>4 DEF CommitRequest
<1>5. row' \in [Licenses -> Row \cup {None}]
  <2>1. row' = [l \in Licenses |-> row'[l]]
    BY DEF CommitRequest
  <2>2. \A l \in Licenses : row'[l] \in Row \cup {None}
    BY <1>1, <1>3, <1>4 DEF TypeOK
  <2>3. QED
    BY <2>1, <2>2
<1>6. \A l \in Licenses : row'[l] # None => Good(row'[l])
  BY <1>1, <1>3, <1>4 DEF RowsGood
<1>7. \A l \in Licenses : Keeps(row[l], row'[l])
  BY <1>3, <1>4 DEF Keeps
<1>8. \A l \in Licenses : Locked(l) => row'[l] = row[l]
  BY <1>4 DEF CommitRequest
<1>9. /\ req' = [t \in Requests |-> IF t \in gone THEN IdleReq ELSE req[t]]
      /\ gone \in SUBSET Requests /\ UNCHANGED sync
  BY <1>2 DEF CommitRequest
<1>10. rules' \subseteq Licenses
  BY <1>1, <1>2 DEF CommitRequest, TypeOK, ReqRec
<1>11. \A t \in Requests \ gone : \A l \in req[t].touched : Keeps(row[l], row'[l])
  BY <1>2, <1>7 DEF ReqRec
<1>12. QED
  <2> HIDE DEF gone
  <2>1. QED
    BY <1>5, <1>6, <1>8, <1>9, <1>10, <1>11, UnlockedChange

\* A request fails: it leaves nothing behind.
LEMMA FailsInv ==
    ASSUME IInv, NEW r \in Requests, RequestFails(r)
    PROVE  IInv'
<1> DEFINE gone == {r}
<1>1. TypeOK /\ RowsGood
  BY DEF IInv
<1>2. /\ req' = [t \in Requests |-> IF t \in gone THEN IdleReq ELSE req[t]]
      /\ gone \in SUBSET Requests /\ UNCHANGED <<row, rules, sync>>
  BY <1>1 DEF RequestFails, TypeOK
<1>3. \A t \in Requests \ gone : \A l \in req[t].touched : Keeps(row[l], row'[l])
  BY <1>2 DEF Keeps
<1>4. QED
  <2> HIDE DEF gone
  <2>1. QED
    BY <1>1, <1>2, <1>3, UnlockedChange DEF TypeOK, RowsGood

\* bulk_unassign.
LEMMA BulkUnassignInv ==
    ASSUME IInv, NEW ls \in SUBSET Licenses, BulkUnassign(ls)
    PROVE  IInv'
<1>1. TypeOK /\ RowsGood
  BY DEF IInv
<1>2. ASSUME NEW l \in Licenses
      PROVE  /\ row'[l] \in Row \cup {None}
             /\ row'[l] # None => Good(row'[l])
             /\ Keeps(row[l], row'[l])
             /\ Locked(l) => row'[l] = row[l]
  <2>1. CASE l \in ls
    <3>1. row[l] \in Row /\ Good(row[l]) /\ ~Locked(l)
      BY <1>1, <2>1 DEF BulkUnassign, TypeOK, RowsGood
    <3>2. row'[l] = [row[l] EXCEPT !.employee = None]
      BY <2>1 DEF BulkUnassign
    <3>3. /\ row'[l] \in Row /\ row'[l].status = row[l].status
          /\ row'[l].reviewed = row[l].reviewed
      BY <3>1, <3>2 DEF Row, Person
    <3>4. QED
      BY <3>1, <3>3, MarkersDistinct DEF Good, Keeps
  <2>2. CASE l \notin ls
    BY <1>1, <2>2 DEF BulkUnassign, TypeOK, RowsGood, Keeps
  <2>3. QED
    BY <2>1, <2>2
<1>3. row' \in [Licenses -> Row \cup {None}]
  <2>1. row' = [l \in Licenses |-> row'[l]]
    BY DEF BulkUnassign
  <2>2. QED
    BY <1>2, <2>1
<1> DEFINE gone == {}
<1>4. req' = [t \in Requests |-> IF t \in gone THEN IdleReq ELSE req[t]]
  BY <1>1 DEF BulkUnassign, TypeOK
<1>5. \A t \in Requests \ gone : \A l \in req[t].touched : Keeps(row[l], row'[l])
  BY <1>1, <1>2 DEF TypeOK
<1>6. rules' \subseteq Licenses /\ UNCHANGED sync /\ gone \in SUBSET Requests
  BY <1>1 DEF BulkUnassign, TypeOK
<1>7. QED
  <2> HIDE DEF gone
  <2>1. QED
    BY <1>2, <1>3, <1>4, <1>5, <1>6, UnlockedChange

\* bulk_delete, remove_from_provider: the requests on the rows end with them.
LEMMA BulkDeleteInv ==
    ASSUME IInv, NEW ls \in SUBSET Licenses, BulkDelete(ls)
    PROVE  IInv'
<1> DEFINE gone == {t \in Requests : req[t].touched \cap ls # {}}
<1>1. TypeOK /\ RowsGood
  BY DEF IInv
<1>2. \A l \in Licenses : IF l \in ls THEN row'[l] = None ELSE row'[l] = row[l]
  BY DEF BulkDelete
<1>3. row' \in [Licenses -> Row \cup {None}]
  BY <1>1 DEF BulkDelete, TypeOK
<1>4. \A l \in Licenses : row'[l] # None => Good(row'[l])
  BY <1>1, <1>2 DEF RowsGood
<1>5. req' = [t \in Requests |-> IF t \in gone THEN IdleReq ELSE req[t]]
  BY DEF BulkDelete
<1>6. ASSUME NEW t \in Requests \ gone, NEW l \in req[t].touched
      PROVE  Keeps(row[l], row'[l])
  <2>1. l \in Licenses /\ l \notin ls
    BY <1>1, <1>6 DEF TypeOK
  <2>2. QED
    BY <1>2, <2>1 DEF Keeps
<1>7. \A l \in Licenses : Locked(l) => row'[l] = row[l]
  BY <1>2 DEF BulkDelete
<1>8. rules' \subseteq Licenses /\ UNCHANGED sync /\ gone \in SUBSET Requests
  BY <1>1 DEF BulkDelete, TypeOK
<1>9. QED
  <2> HIDE DEF gone
  <2>1. QED
    BY <1>3, <1>4, <1>5, <1>6, <1>7, <1>8, UnlockedChange

\* A row entered by an import: nobody has reviewed it.
LEMMA ImportInv ==
    ASSUME IInv, NEW l \in Licenses, NEW e \in Person, NEW service \in BOOLEAN,
           ImportLicense(l, e, service)
    PROVE  IInv'
<1> DEFINE new == [BlankRow EXCEPT !.employee = e, !.service = service]
           gone == {}
<1>1. TypeOK /\ RowsGood
  BY DEF IInv
<1>2. None \notin Decisions
  BY MarkersDistinct DEF Decisions, Verdicts
<1>3. new \in Row /\ Good(new)
  <2>1. new \in Row
    BY BlankTypes DEF Row
  <2>2. new.status = None /\ new.reviewed = FALSE
    BY DEF BlankRow
  <2>3. QED
    <3> HIDE DEF new
    <3>1. QED
      BY <1>2, <2>1, <2>2 DEF Good
<1>4. row' = [row EXCEPT ![l] = new] /\ row[l] = None /\ ~Locked(l)
  BY DEF ImportLicense
<1>5. /\ row' \in [Licenses -> Row \cup {None}]
      /\ \A k \in Licenses : row'[k] # None => Good(row'[k])
      /\ \A k \in Licenses : Keeps(row[k], row'[k])
      /\ \A k \in Licenses : Locked(k) => row'[k] = row[k]
  <2> HIDE DEF new
  <2>1. QED
    BY <1>1, <1>3, <1>4 DEF TypeOK, RowsGood, Keeps
<1>6. req' = [t \in Requests |-> IF t \in gone THEN IdleReq ELSE req[t]]
  BY <1>1 DEF ImportLicense, TypeOK
<1>7. \A t \in Requests \ gone : \A k \in req[t].touched : Keeps(row[k], row'[k])
  BY <1>1, <1>5 DEF TypeOK
<1>8. rules' \subseteq Licenses /\ UNCHANGED sync /\ gone \in SUBSET Requests
  BY <1>1 DEF ImportLicense, TypeOK
<1>9. QED
  <2> HIDE DEF gone
  <2>1. QED
    BY <1>5, <1>6, <1>7, <1>8, UnlockedChange

\* An employee goes: the links to the employee are cleared, the verdicts stay.
LEMMA DeleteEmployeeInv ==
    ASSUME IInv, NEW e \in Employees, DeleteEmployee(e)
    PROVE  IInv'
<1> DEFINE gone == {t \in Requests : \E l \in req[t].touched : req[t].patch[l].employee = e}
<1>1. TypeOK /\ RowsGood
  BY DEF IInv
<1>2. ASSUME NEW l \in Licenses
      PROVE  /\ row'[l] \in Row \cup {None}
             /\ row'[l] # None => Good(row'[l])
             /\ Keeps(row[l], row'[l])
             /\ Locked(l) => row'[l] = row[l]
  <2>1. CASE row[l] = None
    BY <2>1 DEF DeleteEmployee, Keeps
  <2>2. CASE row[l] # None
    <3> DEFINE x == row[l]
               a == IF x.employee = e THEN None ELSE x.employee
               b == IF x.suggested = e THEN None ELSE x.suggested
    <3>1. x \in Row /\ Good(x)
      BY <1>1, <2>2 DEF TypeOK, RowsGood
    <3>2. a \in Person /\ b \in Person
      BY <3>1 DEF Row, Person
    <3>3. row'[l] = [x EXCEPT !.employee = a, !.suggested = b]
      BY <2>2 DEF DeleteEmployee
    <3>4. /\ row'[l] \in Row /\ row'[l].status = x.status
          /\ row'[l].reviewed = x.reviewed /\ row'[l].service = x.service
      <4> HIDE DEF x, a, b
      <4>1. QED
        BY <3>1, <3>2, <3>3 DEF Row
    <3>5. Locked(l) => row'[l] = row[l]
      <4>1. Locked(l) => x.employee # e /\ x.suggested # e
        BY <2>2 DEF DeleteEmployee
      <4>2. [x EXCEPT !.employee = x.employee, !.suggested = x.suggested] = x
        <5> HIDE DEF x
        <5>1. QED
          BY <3>1 DEF Row
      <4>3. QED
        BY <3>3, <4>1, <4>2
    <3>6. QED
      BY <2>2, <3>1, <3>4, <3>5, MarkersDistinct DEF Good, Keeps
  <2>3. QED
    BY <2>1, <2>2
<1>3. row' \in [Licenses -> Row \cup {None}]
  <2>1. row' = [l \in Licenses |-> row'[l]]
    BY DEF DeleteEmployee
  <2>2. QED
    BY <1>2, <2>1
<1>4. req' = [t \in Requests |-> IF t \in gone THEN IdleReq ELSE req[t]]
  BY DEF DeleteEmployee
<1>5. \A t \in Requests \ gone : \A l \in req[t].touched : Keeps(row[l], row'[l])
  BY <1>1, <1>2 DEF TypeOK
<1>6. /\ sync' \in SyncRec /\ sync'.open = sync.open /\ sync'.done = sync.done
      /\ sync'.new = sync.new /\ sync'.certain = sync.certain /\ sync'.at = sync.at
      /\ sync'.loaded = sync.loaded /\ sync'.rules = sync.rules
  BY <1>1 DEF DeleteEmployee, TypeOK, SyncRec
<1>7. \A l \in sync.done : row'[l] = row[l]
  BY <1>1, <1>2 DEF TypeOK, IInv, SyncGood, Locked
<1>8. rules' \subseteq Licenses /\ gone \in SUBSET Requests
  BY <1>1 DEF DeleteEmployee, TypeOK
<1>9. QED
  <2> HIDE DEF gone
  <2>1. QED
    BY <1>2, <1>3, <1>4, <1>5, <1>6, <1>7, <1>8, RowsChange

\* Rules are created or removed.
LEMMA ChangeRulesInv ==
    ASSUME IInv, NEW l \in Licenses, ChangeRules(l)
    PROVE  IInv'
BY DEF IInv, ChangeRules, TypeOK, RowsGood, RequestsGood, SyncGood, PatchOK, AccountPatch,
       ReviewPatch, UpsertOK, LinkOK

\* The sync's record changes while no row does.
LEMMA SyncMoves ==
    ASSUME IInv, sync' \in SyncRec,
           ~sync'.open => sync'.done = {},
           \A l \in sync'.done :
               UpsertOK(l, sync'.new[l])
               /\ Suggests(row[l], l \in sync'.rules, sync'.new[l])
               /\ (\/ sync'.new[l].employee \in {None, sync'.certain[l]}
                   \/ row[l] # None /\ sync'.new[l].employee = row[l].employee),
           sync'.at \in sync'.done => sync'.loaded = {sync'.new[sync'.at].employee},
           UNCHANGED <<row, rules, req>>
    PROVE  IInv'
<1>1. TypeOK'
  BY DEF IInv, TypeOK, SyncRec
<1>2. RowsGood' /\ RequestsGood'
  BY DEF IInv, RowsGood, RequestsGood, PatchOK, AccountPatch, ReviewPatch
<1>3. SyncGood'
  BY DEF SyncGood, UpsertOK, LinkOK
<1>4. QED
  BY <1>1, <1>2, <1>3 DEF IInv

\* The record of no sync.
LEMMA IdleSyncType ==
    IdleSync \in SyncRec /\ IdleSync.done = {} /\ IdleSync.at = None
<1>1. BlankRow \in Row /\ None \in Person
  BY BlankTypes DEF Person
<1>2. QED
  BY <1>1 DEF IdleSync, SyncRec

\* What the sync sees of a row is a good row, if any.
LEMMA VisibleOK ==
    ASSUME IInv, NEW l \in Licenses
    PROVE  /\ Visible(l) \in Row \cup {None}
           /\ Visible(l) # None => Visible(l) \in Row /\ Good(Visible(l))
           /\ l \in sync.done => Visible(l) = sync.new[l] /\ Visible(l) # None
           /\ l \notin sync.done => Visible(l) = row[l]
<1>1. sync.new[l] \in Row /\ row[l] \in Row \cup {None}
  BY DEF IInv, TypeOK
<1>2. l \in sync.done => Good(sync.new[l])
  BY DEF IInv, SyncGood, UpsertOK, Follows
<1>3. row[l] # None => Good(row[l])
  BY DEF IInv, RowsGood
<1>4. QED
  BY <1>1, <1>2, <1>3, MarkersDistinct DEF Visible

\* An upsert, the first one of the licence or another, leaves a row in order.
LEMMA UpsertStep ==
    ASSUME IInv, sync.at \in Licenses, NEW m \in MatchResults(sync.known)
    PROVE  LET y == Upserted(sync.at, m)
           IN  y \in Row /\ UpsertOK(sync.at, y) /\ LinkOK(sync.at, y, CertainOf(m))
<1> DEFINE at == sync.at
           y == Upserted(at, m)
           v == Visible(at)
           covered == at \in sync.rules
<1>1. sync.known \in SUBSET Employees /\ row[at] \in Row \cup {None} /\ at \in Licenses
  BY DEF IInv, TypeOK
<1> HIDE DEF at
<1>2. /\ v \in Row \cup {None} /\ (v # None => v \in Row /\ Good(v))
      /\ at \in sync.done => v = sync.new[at] /\ v # None
      /\ at \notin sync.done => v = row[at]
  BY <1>1, VisibleOK
<1>3. y \in Row /\ Follows(v, y)
  BY <1>1, <1>2, UpsertedOK
<1>4. /\ Suggests(v, covered, y)
      /\ \/ y.employee \in {None, CertainOf(m)}
         \/ v # None /\ y.employee = v.employee /\ sync.loaded # {v.employee}
  BY <1>1, <1>2, UpsertedLinks
<1>5. CASE at \notin sync.done
  <2> HIDE DEF y, v, covered
  <2>1. Follows(row[at], y) /\ Suggests(row[at], covered, y)
    BY <1>2, <1>3, <1>4, <1>5
  <2>2. QED
    BY <1>2, <1>3, <1>4, <1>5, <2>1 DEF UpsertOK, LinkOK, covered, y, at
<1>6. CASE at \in sync.done
  <2> HIDE DEF y, v, covered
  <2>1. Follows(row[at], v) /\ Suggests(row[at], covered, v) /\ v \in Row
    BY <1>2, <1>6 DEF IInv, SyncGood, UpsertOK, LinkOK, covered
  <2>2. Follows(row[at], y)
    BY <1>1, <1>3, <2>1, FollowsAgain
  <2>3. covered \in BOOLEAN
    BY DEF covered
  <2>4. Suggests(row[at], covered, y)
    BY <1>1, <1>3, <1>4, <2>1, <2>3, SuggestsAgain
  <2>5. y.employee \in {None, CertainOf(m)}
    <3>1. sync.loaded = {v.employee}
      BY <1>2, <1>6 DEF IInv, SyncGood, at
    <3>2. QED
      BY <1>4, <3>1
  <2>6. QED
    BY <1>3, <2>2, <2>4, <2>5 DEF UpsertOK, LinkOK, covered, y, at
<1>7. QED
  BY <1>5, <1>6

\* Any step of the sync before its end.
LEMMA SyncWorks ==
    ASSUME IInv,
           \/ SyncBegin
           \/ \E l \in Licenses : SyncLoad(l)
           \/ \E m \in MatchResults(sync.known) : SyncUpsert(m)
    PROVE  IInv'
<1>1. TypeOK /\ RowsGood /\ SyncGood /\ sync \in SyncRec
  BY DEF IInv, TypeOK, SyncRec
<1>2. CASE SyncBegin
  <2>1. /\ sync' \in SyncRec /\ sync'.done = {} /\ sync'.at = None
        /\ UNCHANGED <<row, rules, req>>
    BY <1>1, <1>2, IdleSyncType DEF SyncBegin, SyncRec, TypeOK
  <2>2. QED
    BY <2>1, SyncMoves
<1>3. ASSUME NEW l \in Licenses, SyncLoad(l)
      PROVE  IInv'
  <2>1. /\ EmployeeOf(l) \in SUBSET Person
        /\ l \in sync.done => EmployeeOf(l) = {sync.new[l].employee}
    BY VisibleOK DEF EmployeeOf, Row
  <2>2. /\ sync' \in SyncRec /\ sync'.at = l /\ sync'.done = sync.done
        /\ sync'.new = sync.new /\ sync'.certain = sync.certain
        /\ sync'.open = sync.open /\ sync'.rules = sync.rules
        /\ sync'.loaded = EmployeeOf(l)
        /\ UNCHANGED <<row, rules, req>>
    BY <1>1, <1>3, <2>1 DEF SyncLoad, SyncRec
  <2>3. QED
    BY <1>1, <2>1, <2>2, SyncMoves DEF SyncGood, LinkOK
<1>4. ASSUME NEW m \in MatchResults(sync.known), SyncUpsert(m)
      PROVE  IInv'
  <2> DEFINE at == sync.at
             y == Upserted(at, m)
             c == CertainOf(m)
  <2>1. at \in Licenses /\ sync.known \in SUBSET Employees /\ sync.open
    BY <1>1, <1>4 DEF SyncUpsert, SyncRec
  <2>2. y \in Row /\ UpsertOK(at, y) /\ LinkOK(at, y, c)
    BY <2>1, UpsertStep
  <2>3. c \in Person
    BY <2>1, MatchType DEF Person, CertainOf
  <2>4. /\ sync' = [sync EXCEPT !.at = None, !.loaded = {}, !.done = @ \cup {at},
                                !.new[at] = y, !.certain[at] = c]
        /\ UNCHANGED <<row, rules, req>>
    BY <1>4 DEF SyncUpsert, CertainOf
  <2>5. /\ sync' \in SyncRec /\ sync'.at = None /\ sync'.open = sync.open
        /\ sync'.done = sync.done \cup {at} /\ sync'.rules = sync.rules
        /\ sync'.new = [sync.new EXCEPT ![at] = y]
        /\ sync'.certain = [sync.certain EXCEPT ![at] = c]
    <3> HIDE DEF at, y, c
    <3>1. QED
      BY <1>1, <2>1, <2>2, <2>3, <2>4 DEF SyncRec
  <2>6. sync'.at \notin sync'.done
    <3> HIDE DEF at
    <3>1. QED
      BY <1>1, <2>1, <2>5, MarkersDistinct DEF SyncRec
  <2>7. \A l \in sync'.done :
            UpsertOK(l, sync'.new[l])
            /\ Suggests(row[l], l \in sync'.rules, sync'.new[l])
            /\ (\/ sync'.new[l].employee \in {None, sync'.certain[l]}
                \/ row[l] # None /\ sync'.new[l].employee = row[l].employee)
    <3> HIDE DEF at, y, c
    <3>1. QED
      BY <1>1, <2>1, <2>2, <2>5 DEF SyncGood, SyncRec, LinkOK
  <2>8. QED
    <3> HIDE DEF at, y, c
    <3>1. QED
      BY <2>1, <2>4, <2>5, <2>6, <2>7, SyncMoves
<1>5. QED
  BY <1>2, <1>3, <1>4

\* The sync is rolled back.
LEMMA SyncFailsInv ==
    ASSUME IInv, SyncFails
    PROVE  IInv'
BY IdleSyncType, SyncMoves DEF SyncFails

\* The sync commits what it has done.
LEMMA SyncCommitInv ==
    ASSUME IInv, SyncCommit
    PROVE  IInv'
<1>1. TypeOK /\ RowsGood /\ RequestsGood /\ SyncGood
  BY DEF IInv
<1>2. ASSUME NEW l \in Licenses
      PROVE  /\ row'[l] \in Row \cup {None}
             /\ row'[l] # None => Good(row'[l])
             /\ Keeps(row[l], row'[l])
  <2>1. CASE l \in sync.done
    <3>1. row'[l] = sync.new[l]
      BY <2>1 DEF SyncCommit
    <3>2. row'[l] \in Row /\ UpsertOK(l, row'[l])
      BY <1>1, <2>1, <3>1 DEF TypeOK, SyncGood
    <3>3. QED
      BY <3>2, SyncedOK
  <2>2. CASE l \notin sync.done
    BY <1>1, <2>2 DEF SyncCommit, TypeOK, RowsGood, Keeps
  <2>3. QED
    BY <2>1, <2>2
<1>3. row' \in [Licenses -> Row \cup {None}]
  <2>1. row' = [l \in Licenses |-> row'[l]]
    BY DEF SyncCommit
  <2>2. QED
    BY <1>2, <2>1
<1> DEFINE gone == {}
<1>4. req' = [t \in Requests |-> IF t \in gone THEN IdleReq ELSE req[t]]
  BY <1>1 DEF SyncCommit, TypeOK
<1>5. \A t \in Requests \ gone : \A l \in req[t].touched : Keeps(row[l], row'[l])
  BY <1>1, <1>2 DEF TypeOK
<1>6. RequestsGood' /\ req' \in [Requests -> ReqRec]
  <2> HIDE DEF gone
  <2>1. gone \in SUBSET Requests
    BY DEF gone
  <2>2. QED
    BY <1>1, <1>4, <1>5, <2>1, RequestsEnd
<1>7. RowsGood'
  BY <1>2 DEF RowsGood
<1>8. sync' = IdleSync /\ rules' = rules
  BY DEF SyncCommit
<1>9. TypeOK'
  BY <1>1, <1>3, <1>6, <1>8, IdleSyncType, MarkersDistinct DEF TypeOK, ReqRec, SyncRec
<1>10. SyncGood'
  BY <1>8, IdleSyncType DEF SyncGood
<1>11. QED
  BY <1>6, <1>7, <1>9, <1>10 DEF IInv

\* The first state.
LEMMA InitInv ==
    ASSUME Init
    PROVE  IInv
<1>1. TypeOK
  BY BlankTypes, IdleSyncType DEF Init, TypeOK, ReqRec, SyncRec
<1>2. RowsGood /\ RequestsGood /\ SyncGood
  BY IdleSyncType DEF Init, RowsGood, RequestsGood, SyncGood, IdleReq
<1>3. QED
  BY <1>1, <1>2 DEF IInv

\* Every step keeps the invariant.
LEMMA NextInv ==
    ASSUME IInv, [Next]_vars
    PROVE  IInv'
<1>1. CASE UNCHANGED vars
  BY <1>1 DEF vars, IInv, TypeOK, RowsGood, RequestsGood, SyncGood, PatchOK, AccountPatch,
              ReviewPatch, UpsertOK, LinkOK
<1>2. ASSUME NEW r \in Requests, ReviewStep(r) \/ AccountStep(r)
      PROVE  IInv'
  BY <1>2, RequestOpens, OpensInv DEF IInv
<1>3. ASSUME SyncStep
      PROVE  IInv'
  BY <1>3, SyncWorks, SyncCommitInv, SyncFailsInv DEF SyncStep
<1>4. QED
  BY <1>1, <1>2, <1>3, CommitInv, FailsInv, BulkUnassignInv, BulkDeleteInv, ImportInv,
     DeleteEmployeeInv, ChangeRulesInv DEF Next

-----------------------------------------------------------------------------
(* Theorems *)

\* The invariant holds in every state.
LEMMA Invariant == Spec => []IInv
<1>1. Init => IInv
  BY InitInv
<1>2. IInv /\ [Next]_vars => IInv'
  BY NextInv
<1>3. QED
  BY <1>1, <1>2, PTL DEF Spec

\* Rows, open requests and the sync keep their types for every set of licences,
\* employees and requests; the sync never takes up a licence twice.
THEOREM MatchingTypes == Spec => []TypeOK
<1>1. IInv => TypeOK
  BY DEF IInv
<1>2. QED
  BY <1>1, Invariant, PTL

\* The automatic matching never leaves its verdict on a reviewed licence, however
\* many requests overlap with each other and with the sync.
THEOREM ReviewsRespected == Spec => []ReviewedStatus
<1>1. IInv => ReviewedStatus
  BY DEF IInv, RowsGood, Good, ReviewedStatus, Decisions
<1>2. QED
  BY <1>1, Invariant, PTL

-----------------------------------------------------------------------------
(* The transactions implement MatchReview *)

\* Where a row's verdict and flag stay, so does what the review knows of it.
LEMMA SameDecision ==
    ASSUME NEW l \in Licenses, Alike(row[l], row'[l])
    PROVE  /\ DecisionOn(l)' = DecisionOn(l)
           /\ l \in ServiceAccounts' <=> l \in ServiceAccounts
BY DEF Alike, DecisionOn, ServiceAccounts

\* Steps that change neither verdicts nor flags are invisible to the review.
LEMMA Stutters ==
    ASSUME \A l \in Licenses : Alike(row[l], row'[l])
    PROVE  UNCHANGED <<Decision, ServiceAccounts>>
<1>1. Decision' = Decision
  BY SameDecision DEF Decision
<1>2. ServiceAccounts' = ServiceAccounts
  BY SameDecision DEF ServiceAccounts
<1>3. QED
  BY <1>1, <1>2

\* The review knows the licences that have a row.
LEMMA KnownLicences ==
    ASSUME NEW l \in Licenses, row[l] # None
    PROVE  l \in Review!Known
BY DEF Review!Known, Decision, DecisionOn

\* The commit of a request is a decision, a change of flags, or nothing.
LEMMA CommitSimulates ==
    ASSUME IInv, NEW r \in Requests, CommitRequest(r)
    PROVE  Review!Next \/ UNCHANGED <<Decision, ServiceAccounts>>
<1> DEFINE q == req[r]
           p(l) == q.patch[l]
<1>1. TypeOK /\ RowsGood /\ RequestsGood
  BY DEF IInv
<1>2. /\ q \in ReqRec /\ q.touched \subseteq Licenses
      /\ \A l \in Licenses : p(l) \in Patch
  BY <1>1 DEF TypeOK, ReqRec
<1>3. TRUE # Keep /\ FALSE # Keep /\ Keep \notin Decisions
  BY MarkersDistinct DEF Decisions, Verdicts
<1>4. ASSUME NEW l \in q.touched
      PROVE  /\ l \in Licenses /\ row[l] # None /\ row[l] \in Row /\ row'[l] # None
             /\ row'[l].status = (IF p(l).status = Keep THEN row[l].status ELSE p(l).status)
             /\ row'[l].service = (IF p(l).service = Keep THEN row[l].service ELSE p(l).service)
             /\ row'[l].reviewed = (IF p(l).reviewed = Keep THEN row[l].reviewed
                                                           ELSE p(l).reviewed)
             /\ AccountPatch(q, l) \/ ReviewPatch(q, l)
  <2>1. l \in Licenses /\ PatchOK(q, l) /\ p(l) \in Patch
    BY <1>1, <1>2 DEF RequestsGood
  <2>2. row[l] # None /\ row[l] \in Row
    BY <1>1, <2>1 DEF PatchOK, TypeOK
  <2>3. row'[l] = Apply(row[l], p(l))
    BY <2>1 DEF CommitRequest
  <2>4. row'[l] \in Row
    BY <2>1, <2>2, <2>3, ApplyType
  <2>5. QED
    <3> HIDE DEF p
    <3>1. QED
      BY <2>1, <2>2, <2>3, <2>4, ApplyColumns, MarkersDistinct DEF PatchOK
<1>5. \A l \in Licenses \ q.touched : row'[l] = row[l]
  BY DEF CommitRequest
<1> HIDE DEF q, p
<1>6. ASSUME NEW l \in Licenses, l \notin q.touched
      PROVE  /\ DecisionOn(l)' = DecisionOn(l)
             /\ l \in ServiceAccounts' <=> l \in ServiceAccounts
  BY <1>5, <1>6, SameDecision DEF Alike
<1>7. CASE \E l \in q.touched : ReviewPatch(q, l)
  <2>1. PICK l \in q.touched : ReviewPatch(q, l)
    BY <1>7
  <2>2. q.touched = {l} /\ p(l).service = Keep /\ l \in Licenses
    BY <1>4, <2>1 DEF ReviewPatch, p
  <2>3. l \in ServiceAccounts' <=> l \in ServiceAccounts
    BY <1>4, <2>2 DEF ServiceAccounts
  <2>4. ServiceAccounts' = ServiceAccounts
    BY <1>6, <2>2, <2>3 DEF ServiceAccounts
  <2>5. CASE p(l).status \in Decisions
    <3> DEFINE d == p(l).status
    <3>1. DecisionOn(l)' = d
      BY <1>3, <1>4, <2>2, <2>5 DEF DecisionOn, Decisions
    <3>2. Decision' = [Decision EXCEPT ![l] = d]
      <4> HIDE DEF d
      <4>1. QED
        BY <1>6, <2>2, <3>1 DEF Decision
    <3>3. l \in Review!Known
      BY <1>4, <2>2, KnownLicences
    <3>4. d \in Review!Decisions
      BY <2>5 DEF Review!Decisions, Decisions
    <3>5. Review!Decide(l, d)
      BY <2>4, <3>2, <3>3 DEF Review!Decide
    <3>6. QED
      BY <2>2, <3>4, <3>5 DEF Review!Next
  <2>6. CASE p(l).status = Keep
    <3>1. DecisionOn(l)' = DecisionOn(l)
      BY <1>4, <2>2, <2>6 DEF DecisionOn
    <3>2. Decision' = Decision
      BY <1>6, <2>2, <3>1 DEF Decision
    <3>3. QED
      BY <2>4, <3>2
  <2>7. QED
    BY <2>1, <2>5, <2>6 DEF ReviewPatch, p
<1>8. CASE \A l \in q.touched : AccountPatch(q, l)
  <2>1. \A l \in q.touched : DecisionOn(l)' = DecisionOn(l)
    BY <1>4, <1>8 DEF AccountPatch, DecisionOn, p
  <2>2. Decision' = Decision
    BY <1>6, <2>1 DEF Decision
  <2>3. CASE \E l \in q.touched : p(l).service = FALSE
    <3>1. PICK l \in q.touched : p(l).service = FALSE
      BY <2>3
    <3>2. q.touched = {l} /\ l \in Licenses
      BY <1>4, <1>8, <3>1 DEF AccountPatch, p
    <3>3. l \notin ServiceAccounts'
      BY <1>3, <1>4, <3>1, <3>2 DEF ServiceAccounts
    <3>4. ServiceAccounts' = ServiceAccounts \ {l}
      BY <1>6, <3>2, <3>3 DEF ServiceAccounts
    <3>5. QED
      BY <2>2, <3>2, <3>4 DEF Review!Next, Review!Unflag
  <2>4. CASE ~ \E l \in q.touched : p(l).service = FALSE
    <3> DEFINE flagged == {l \in q.touched : p(l).service = TRUE}
    <3>1. \A l \in q.touched : p(l).service \in {TRUE, Keep}
      BY <1>2, <2>4 DEF Patch
    <3>2. ASSUME NEW l \in Licenses
          PROVE  l \in ServiceAccounts' <=> l \in ServiceAccounts \cup flagged
      <4>1. CASE l \in q.touched /\ p(l).service = TRUE
        BY <1>3, <1>4, <4>1 DEF ServiceAccounts
      <4>2. CASE l \in q.touched /\ p(l).service = Keep
        BY <1>3, <1>4, <4>2 DEF ServiceAccounts
      <4>3. QED
        BY <1>6, <3>1, <4>1, <4>2
    <3>3. flagged \in SUBSET Licenses
      BY <1>2
    <3>4. ServiceAccounts' = ServiceAccounts \cup flagged
      <4> HIDE DEF flagged
      <4>1. QED
        BY <3>2, <3>3 DEF ServiceAccounts
    <3>5. flagged \subseteq Review!Known
      BY <1>4, KnownLicences
    <3>6. Decision = [l \in Licenses |->
                         IF l \in {} \cup {} THEN "open" ELSE Decision[l]]
      BY DEF Decision
    <3>7. Review!Refresh({}, flagged, {})
      <4> HIDE DEF flagged
      <4>1. QED
        BY <2>2, <3>4, <3>5, <3>6 DEF Review!Refresh
    <3>8. QED
      <4> HIDE DEF flagged
      <4>1. QED
        BY <3>3, <3>7 DEF Review!Next
  <2>5. QED
    BY <2>3, <2>4
<1>9. QED
  BY <1>4, <1>7, <1>8

\* The commit of a sync enters licences, raises flags and withdraws decisions about
\* service accounts, and touches no other decision.
LEMMA SyncSimulates ==
    ASSUME IInv, SyncCommit
    PROVE  Review!Next
<1> DEFINE entered == {l \in sync.done : row[l] = None}
           flagged == {l \in sync.done : sync.new[l].service}
           withdrawn == {l \in sync.done : row[l] # None /\ row[l].status \in Decisions
                                          /\ sync.new[l].status # row[l].status}
<1>1. /\ sync.done \in SUBSET Licenses
      /\ \A l \in sync.done : sync.new[l] \in Row /\ UpsertOK(l, sync.new[l])
      /\ \A l \in Licenses : row[l] \in Row \cup {None}
  BY DEF IInv, TypeOK, SyncGood
<1>2. \A l \in Licenses : row'[l] = IF l \in sync.done THEN sync.new[l] ELSE row[l]
  BY DEF SyncCommit
<1>3. /\ entered \in SUBSET Licenses /\ flagged \in SUBSET Licenses
      /\ withdrawn \in SUBSET Licenses
  BY <1>1
<1>4. \A l \in entered : row[l] = None
  OBVIOUS
<1>5. entered \cap Review!Known = {}
  BY <1>3, <1>4 DEF Review!Known, Decision, DecisionOn
<1>6. flagged \subseteq Review!Known \cup entered
  BY <1>1, KnownLicences
<1>7. withdrawn \subseteq Review!Known \cap (ServiceAccounts \cup flagged)
  <2> SUFFICES ASSUME NEW l \in withdrawn
               PROVE  l \in Review!Known /\ l \in flagged
    OBVIOUS
  <2>1. l \in Licenses /\ l \in sync.done /\ row[l] # None
    BY <1>1
  <2>2. sync.new[l].service = TRUE
    BY <1>1, <2>1 DEF UpsertOK, Follows, Succeeds
  <2>3. QED
    BY <2>1, <2>2, KnownLicences
<1>8. ASSUME NEW l \in Licenses
      PROVE  DecisionOn(l)' = IF l \in entered \cup withdrawn THEN "open" ELSE Decision[l]
  <2>1. Decision[l] = DecisionOn(l)
    BY DEF Decision
  <2>2. CASE l \notin sync.done
    BY <1>2, <2>1, <2>2 DEF DecisionOn
  <2>3. CASE l \in entered
    <3>1. row'[l] # None /\ row'[l].status \notin Decisions
      BY <1>1, <1>2, <2>3, MarkersDistinct DEF UpsertOK, Follows
    <3>2. QED
      BY <2>3, <3>1 DEF DecisionOn, Decisions
  <2>4. CASE l \in sync.done /\ row[l] # None
    <3>1. /\ row'[l] = sync.new[l] /\ row'[l] # None
          /\ row'[l].status \in Decisions => row'[l].status = row[l].status
      BY <1>1, <1>2, <2>4, MarkersDistinct DEF UpsertOK, Follows, Succeeds
    <3>2. CASE l \in withdrawn
      <4>1. row'[l].status \notin Decisions
        BY <3>1, <3>2
      <4>2. QED
        BY <3>1, <3>2, <4>1 DEF DecisionOn, Decisions
    <3>3. CASE l \notin withdrawn
      <4>1. DecisionOn(l)' = DecisionOn(l)
        BY <2>4, <3>1, <3>3 DEF DecisionOn, Decisions
      <4>2. l \notin entered
        BY <2>4
      <4>3. QED
        BY <2>1, <3>3, <4>1, <4>2
    <3>4. QED
      BY <3>2, <3>3
  <2>5. QED
    BY <2>2, <2>3, <2>4
<1>9. ASSUME NEW l \in Licenses
      PROVE  l \in ServiceAccounts' <=> l \in ServiceAccounts \cup flagged
  <2>1. CASE l \notin sync.done
    BY <1>2, <2>1 DEF ServiceAccounts
  <2>2. CASE l \in sync.done
    <3>1. row'[l] = sync.new[l] /\ row'[l] # None /\ row'[l].service \in BOOLEAN
      BY <1>1, <1>2, <2>2, MarkersDistinct DEF Row
    <3>2. row[l] # None /\ row[l].service = TRUE => row'[l].service = TRUE
      BY <1>1, <2>2, <3>1 DEF UpsertOK, Follows, Succeeds
    <3>3. row[l] # None => row[l].service \in BOOLEAN
      BY <1>1 DEF Row
    <3>4. l \in flagged <=> row'[l].service = TRUE
      BY <2>2, <3>1
    <3>5. QED
      <4> HIDE DEF flagged
      <4>1. QED
        BY <3>1, <3>2, <3>3, <3>4 DEF ServiceAccounts
  <2>3. QED
    BY <2>1, <2>2
<1>10. QED
  <2> HIDE DEF entered, flagged, withdrawn
  <2>1. Decision' = [l \in Licenses |->
                        IF l \in entered \cup withdrawn THEN "open" ELSE Decision[l]]
    BY <1>8 DEF Decision
  <2>2. ServiceAccounts' = ServiceAccounts \cup flagged
    BY <1>3, <1>9 DEF ServiceAccounts
  <2>3. Review!Refresh(entered, flagged, withdrawn)
    BY <1>5, <1>6, <1>7, <2>1, <2>2 DEF Review!Refresh
  <2>4. QED
    BY <1>3, <2>3 DEF Review!Next

\* Deleting rows ends their decisions.
LEMMA DeleteSimulates ==
    ASSUME NEW ls \in SUBSET Licenses, BulkDelete(ls)
    PROVE  Review!Next
<1>1. \A l \in Licenses : row'[l] = IF l \in ls THEN None ELSE row[l]
  BY DEF BulkDelete
<1>2. Decision' = [l \in Licenses |-> IF l \in ls THEN "unknown" ELSE Decision[l]]
  BY <1>1 DEF Decision, DecisionOn
<1>3. ServiceAccounts' = ServiceAccounts \ ls
  BY <1>1 DEF ServiceAccounts
<1>4. QED
  BY <1>2, <1>3 DEF Review!Next, Review!Remove

\* An import enters one licence, perhaps as a service account.
LEMMA ImportSimulates ==
    ASSUME TypeOK, NEW l \in Licenses, NEW e \in Person, NEW service \in BOOLEAN,
           ImportLicense(l, e, service)
    PROVE  Review!Next
<1> DEFINE new == [BlankRow EXCEPT !.employee = e, !.service = service]
           flagged == IF service THEN {l} ELSE {}
<1>1. /\ new \in Row /\ new.status \notin Decisions
      /\ new.service = service
  <2>1. None \notin Decisions
    BY MarkersDistinct DEF Decisions, Verdicts
  <2>2. QED
    BY <2>1, BlankTypes DEF BlankRow, Row
<1>2. /\ row[l] = None /\ row'[l] = new /\ new # None
      /\ \A k \in Licenses \ {l} : row'[k] = row[k]
  BY <1>1, MarkersDistinct DEF ImportLicense, TypeOK
<1>3. Decision' = [k \in Licenses |-> IF k \in {l} \cup {} THEN "open" ELSE Decision[k]]
  <2> HIDE DEF new
  <2>1. QED
    BY <1>1, <1>2 DEF Decision, DecisionOn, Decisions
<1>4. ServiceAccounts' = ServiceAccounts \cup flagged
  <2> HIDE DEF new
  <2>1. QED
    BY <1>1, <1>2 DEF ServiceAccounts
<1>5. {l} \cap Review!Known = {}
  BY <1>2 DEF Review!Known, Decision, DecisionOn
<1>6. Review!Refresh({l}, flagged, {})
  BY <1>3, <1>4, <1>5 DEF Review!Refresh
<1>7. QED
  <2>1. flagged \in SUBSET Licenses /\ {l} \in SUBSET Licenses
    OBVIOUS
  <2> HIDE DEF flagged
  <2>2. QED
    BY <1>6, <2>1 DEF Review!Next

\* Unlinking employees, one by one or for a deleted employee, is invisible.
LEMMA UnlinkStutters ==
    ASSUME TypeOK,
           \/ \E ls \in SUBSET Licenses : BulkUnassign(ls)
           \/ \E e \in Employees : DeleteEmployee(e)
    PROVE  UNCHANGED <<Decision, ServiceAccounts>>
<1> SUFFICES ASSUME NEW l \in Licenses
             PROVE  Alike(row[l], row'[l])
  BY Stutters
<1>1. ASSUME NEW ls \in SUBSET Licenses, BulkUnassign(ls)
      PROVE  Alike(row[l], row'[l])
  <2>1. CASE l \notin ls
    BY <1>1, <2>1 DEF BulkUnassign, Alike
  <2>2. CASE l \in ls
    <3>1. row[l] \in Row /\ row'[l] = [row[l] EXCEPT !.employee = None]
      BY <1>1, <2>2 DEF BulkUnassign, TypeOK
    <3>2. /\ row'[l] \in Row /\ row'[l].status = row[l].status
          /\ row'[l].reviewed = row[l].reviewed /\ row'[l].service = row[l].service
      BY <3>1 DEF Row, Person
    <3>3. QED
      BY <3>1, <3>2, MarkersDistinct DEF Alike
  <2>3. QED
    BY <2>1, <2>2
<1>2. ASSUME NEW e \in Employees, DeleteEmployee(e)
      PROVE  Alike(row[l], row'[l])
  <2>1. CASE row[l] = None
    BY <1>2, <2>1 DEF DeleteEmployee, Alike
  <2>2. CASE row[l] # None
    <3> DEFINE x == row[l]
               a == IF x.employee = e THEN None ELSE x.employee
               b == IF x.suggested = e THEN None ELSE x.suggested
    <3>1. x \in Row /\ row'[l] = [x EXCEPT !.employee = a, !.suggested = b]
      BY <1>2, <2>2 DEF DeleteEmployee, TypeOK
    <3>2. a \in Person /\ b \in Person
      BY <3>1 DEF Row, Person
    <3>3. /\ row'[l] \in Row /\ row'[l].status = x.status
          /\ row'[l].reviewed = x.reviewed /\ row'[l].service = x.service
      <4> HIDE DEF x, a, b
      <4>1. QED
        BY <3>1, <3>2 DEF Row
    <3>4. QED
      BY <2>2, <3>3, MarkersDistinct DEF Alike
  <2>3. QED
    BY <2>1, <2>2
<1>3. QED
  BY <1>1, <1>2

\* Steps that write no row are invisible.
LEMMA SameRowsStutter ==
    ASSUME UNCHANGED row
    PROVE  UNCHANGED <<Decision, ServiceAccounts>>
BY DEF Decision, DecisionOn, ServiceAccounts

\* Every step of the transactions is a step of the review, or none.
LEMMA NextSimulates ==
    ASSUME IInv, [Next]_vars
    PROVE  [Review!Next]_<<Decision, ServiceAccounts>>
<1>1. ASSUME UNCHANGED row
      PROVE  UNCHANGED <<Decision, ServiceAccounts>>
  BY <1>1, SameRowsStutter
<1>2. ASSUME NEW r \in Requests, ReviewStep(r) \/ AccountStep(r)
      PROVE  UNCHANGED row
  BY <1>2, RequestOpens DEF IInv, Opens
<1>3. ASSUME NEW r \in Requests, RequestFails(r)
      PROVE  UNCHANGED row
  BY <1>3 DEF RequestFails
<1>4. ASSUME NEW l \in Licenses, ChangeRules(l)
      PROVE  UNCHANGED row
  BY <1>4 DEF ChangeRules
<1>5. CASE SyncStep
  <2>1. SyncCommit \/ UNCHANGED row
    BY <1>5 DEF SyncStep, SyncBegin, SyncLoad, SyncUpsert, SyncFails
  <2>2. QED
    BY <1>1, <2>1, SyncSimulates
<1>6. CASE UNCHANGED vars
  BY <1>1, <1>6 DEF vars
<1>7. TypeOK
  BY DEF IInv
<1>8. QED
  BY <1>1, <1>2, <1>3, <1>4, <1>5, <1>6, <1>7, CommitSimulates, DeleteSimulates,
     ImportSimulates, UnlinkStutters DEF Next

\* A reviewer's decision about a licence changes only by another decision, or goes
\* with a flag of a service account or with the licence itself: the transactions of
\* any number of requests and of the sync implement MatchReview.
THEOREM DecisionsRefine == Spec => DecisionsStand
<1>1. Init => Review!Init
  BY DEF Init, Review!Init, Decision, DecisionOn, ServiceAccounts
<1>2. IInv /\ [Next]_vars => [Review!Next]_<<Decision, ServiceAccounts>>
  BY NextSimulates
<1>3. QED
  BY <1>1, <1>2, Invariant, PTL DEF Spec, DecisionsStand, Review!Spec

-----------------------------------------------------------------------------
(* Why the links of a licence change *)

\* What the UPDATE of a request may do to the links of a row.
LEMMA CommitLinks ==
    ASSUME IInv, NEW r \in Requests, CommitRequest(r), NEW l \in Licenses
    PROVE  /\ Dangling(row'[l]) => Dangling(row[l])
           /\ row[l] # None /\ row'[l] # None => row'[l].suggested \in {None, row[l].suggested}
           /\ l \notin req[r].touched => row'[l] = row[l]
           /\ l \in req[r].touched =>
                 /\ row[l] # None /\ row'[l] # None
                 /\ row'[l].employee \in {row[l].employee, req[r].patch[l].employee}
<1> DEFINE q == req[r]
           p == q.patch[l]
<1>1. CASE l \notin q.touched
  <2>1. row'[l] = row[l]
    BY <1>1 DEF CommitRequest
  <2>2. QED
    BY <1>1, <2>1
<1>2. CASE l \in q.touched
  <2>1. q \in ReqRec /\ p \in Patch /\ PatchOK(q, l)
    BY <1>2 DEF IInv, TypeOK, ReqRec, RequestsGood
  <2>2. row[l] # None /\ row[l] \in Row
    BY <2>1 DEF IInv, TypeOK, PatchOK
  <2>3. row'[l] = Apply(row[l], p)
    BY <1>2 DEF CommitRequest
  <2>4. row'[l] \in Row /\ row'[l] # None
    BY <2>1, <2>2, <2>3, ApplyType, MarkersDistinct
  <2>5. /\ row'[l].status = (IF p.status = Keep THEN row[l].status ELSE p.status)
        /\ row'[l].suggested = (IF p.suggested = Keep THEN row[l].suggested ELSE p.suggested)
        /\ row'[l].employee = (IF p.employee = Keep THEN row[l].employee ELSE p.employee)
    <3> HIDE DEF p
    <3>1. QED
      BY <2>1, <2>2, <2>3, ApplyColumns
  <2>6. p.suggested \in {Keep, None}
    BY <2>1 DEF PatchOK, AccountPatch, ReviewPatch
  <2>7. Dangling(row'[l]) => Dangling(row[l])
    <3>1. CASE AccountPatch(q, l)
      BY <2>2, <2>5, <3>1 DEF AccountPatch, Dangling
    <3>2. CASE ReviewPatch(q, l)
      <4>1. "suggested" \notin Decisions \cup {None} /\ Keep \notin Decisions
        BY MarkersDistinct DEF Decisions, Verdicts
      <4>2. row'[l].status \in Decisions \cup {None}
        BY <2>5, <3>2, <4>1 DEF ReviewPatch
      <4>3. QED
        BY <4>1, <4>2 DEF Dangling
    <3>3. QED
      BY <2>1, <3>1, <3>2 DEF PatchOK
  <2> HIDE DEF q, p
  <2>8. row'[l].suggested \in {None, row[l].suggested}
    BY <2>5, <2>6
  <2>9. row'[l].employee \in {row[l].employee, p.employee}
    BY <2>5
  <2>10. QED
    BY <1>2, <2>2, <2>4, <2>7, <2>8, <2>9 DEF p, q
<1>3. QED
  BY <1>1, <1>2

\* y keeps the links of x, or loses some.
Loosens(x, y) ==
    /\ x = None => y = None
    /\ y # None =>
          /\ y.employee \in {None, x.employee} /\ y.suggested \in {None, x.suggested}
          /\ y.status = x.status

\* The other writers of rows link nobody, but for the import, which enters a row.
LEMMA OthersLinks ==
    ASSUME IInv, NEW l \in Licenses,
           \/ \E ls \in SUBSET Licenses : BulkUnassign(ls) \/ BulkDelete(ls)
           \/ \E e \in Employees : DeleteEmployee(e)
    PROVE  /\ Loosens(row[l], row'[l])
           /\ row[l] # None /\ row[l].suggested # None /\ row'[l] # None /\ row'[l].suggested = None
                  => DeleteEmployee(row[l].suggested)
<1>1. row[l] \in Row \cup {None}
  BY DEF IInv, TypeOK
<1>2. ASSUME NEW ls \in SUBSET Licenses, BulkUnassign(ls)
      PROVE  Loosens(row[l], row'[l])
             /\ (row[l] # None /\ row'[l] # None => row'[l].suggested = row[l].suggested)
  <2>1. CASE l \in ls
    <3>1. row[l] \in Row /\ row'[l] = [row[l] EXCEPT !.employee = None] /\ row[l] # None
      BY <1>1, <1>2, <2>1 DEF BulkUnassign
    <3>2. row'[l].employee = None /\ row'[l].suggested = row[l].suggested
              /\ row'[l].status = row[l].status
      BY <3>1 DEF Row
    <3>3. QED
      BY <3>1, <3>2 DEF Loosens
  <2>2. CASE l \notin ls
    <3>1. row'[l] = row[l]
      BY <1>2, <2>2 DEF BulkUnassign
    <3>2. QED
      BY <3>1 DEF Loosens
  <2>3. QED
    BY <2>1, <2>2
<1>3. ASSUME NEW ls \in SUBSET Licenses, BulkDelete(ls)
      PROVE  Loosens(row[l], row'[l])
             /\ (row[l] # None /\ row'[l] # None => row'[l].suggested = row[l].suggested)
  <2>1. row'[l] = None \/ row'[l] = row[l]
    BY <1>3 DEF BulkDelete
  <2>2. QED
    BY <2>1 DEF Loosens
<1>4. ASSUME NEW e \in Employees, DeleteEmployee(e)
      PROVE  /\ Loosens(row[l], row'[l])
             /\ (row[l] # None /\ row'[l] # None)
                    => row'[l].suggested = row[l].suggested \/ row[l].suggested = e
  <2>1. CASE row[l] = None
    BY <1>4, <2>1 DEF DeleteEmployee, Loosens
  <2>2. CASE row[l] # None
    <3> DEFINE x == row[l]
               a == IF x.employee = e THEN None ELSE x.employee
               b == IF x.suggested = e THEN None ELSE x.suggested
    <3>1. x \in Row /\ row'[l] = [x EXCEPT !.employee = a, !.suggested = b]
      BY <1>1, <1>4, <2>2 DEF DeleteEmployee
    <3>2. row'[l].employee = a /\ row'[l].suggested = b /\ row'[l].status = x.status
      <4> HIDE DEF x, a, b
      <4>1. QED
        BY <3>1 DEF Row
    <3>3. a \in {None, x.employee} /\ b \in {None, x.suggested} /\ (b = x.suggested \/ x.suggested = e)
      OBVIOUS
    <3>4. QED
      <4> HIDE DEF a, b
      <4>1. QED
        BY <2>2, <3>2, <3>3 DEF Loosens
  <2>3. QED
    BY <2>1, <2>2
<1>5. CASE \E ls \in SUBSET Licenses : BulkUnassign(ls) \/ BulkDelete(ls)
  BY <1>2, <1>3, <1>5
<1>6. CASE \E e \in Employees : DeleteEmployee(e)
  <2>1. PICK e \in Employees : DeleteEmployee(e)
    BY <1>6
  <2>2. QED
    BY <1>4, <2>1
<1>7. QED
  BY <1>5, <1>6

\* The row that an import enters: nobody is suggested.
LEMMA ImportLinks ==
    ASSUME IInv, NEW k \in Licenses, NEW e \in Person, NEW service \in BOOLEAN,
           ImportLicense(k, e, service), NEW l \in Licenses
    PROVE  /\ l # k => row'[l] = row[l]
           /\ l = k => row[l] = None /\ l \notin sync.done /\ ~Dangling(row'[l])
<1>1. row' = [row EXCEPT ![k] = [BlankRow EXCEPT !.employee = e, !.service = service]]
  BY DEF ImportLicense
<1>2. row \in [Licenses -> Row \cup {None}] /\ row[k] = None /\ ~Locked(k)
  BY DEF IInv, TypeOK, ImportLicense
<1>3. k \notin sync.done
  BY <1>2 DEF IInv, SyncGood, Locked
<1>4. row'[k].status = None
  BY <1>1, <1>2 DEF BlankRow
<1>5. None # "suggested"
  BY MarkersDistinct DEF Verdicts
<1>6. QED
  BY <1>1, <1>2, <1>3, <1>4, <1>5 DEF Dangling

\* Who writes rows.
LEMMA RowWriters ==
    ASSUME IInv, [Next]_vars
    PROVE  \/ UNCHANGED row
           \/ \E r \in Requests : CommitRequest(r)
           \/ \E ls \in SUBSET Licenses : BulkUnassign(ls) \/ BulkDelete(ls)
           \/ \E e \in Employees : DeleteEmployee(e)
           \/ \E k \in Licenses, e \in Person, service \in BOOLEAN : ImportLicense(k, e, service)
           \/ SyncCommit
<1>1. ASSUME NEW r \in Requests, ReviewStep(r) \/ AccountStep(r)
      PROVE  UNCHANGED row
  BY <1>1, RequestOpens DEF IInv, Opens
<1>2. ASSUME NEW r \in Requests, RequestFails(r)
      PROVE  UNCHANGED row
  BY <1>2 DEF RequestFails
<1>3. ASSUME NEW l \in Licenses, ChangeRules(l)
      PROVE  UNCHANGED row
  BY <1>3 DEF ChangeRules
<1>4. CASE SyncStep
  BY <1>4 DEF SyncStep, SyncBegin, SyncLoad, SyncUpsert, SyncFails
<1>5. CASE UNCHANGED vars
  BY <1>5 DEF vars
<1>6. QED
  BY <1>1, <1>2, <1>3, <1>4, <1>5 DEF Next

\* What a commit of the sync may do to the links of a row.
LEMMA SyncLinks ==
    ASSUME IInv, SyncCommit, NEW l \in Licenses
    PROVE  /\ l \notin sync.done => row'[l] = row[l]
           /\ l \in sync.done => /\ row'[l] = sync.new[l] /\ row'[l] # None
                                 /\ LinkOK(l, row'[l], sync.certain[l])
<1>1. row'[l] = IF l \in sync.done THEN sync.new[l] ELSE row[l]
  BY DEF SyncCommit
<1>2. l \in sync.done => sync.new[l] \in Row /\ LinkOK(l, sync.new[l], sync.certain[l])
  BY DEF IInv, TypeOK, SyncGood
<1>3. QED
  BY <1>1, <1>2, MarkersDistinct

\* A licence in the queue of pending suggestions names the suggested employee, until that
\* employee is deleted: neither overlapping requests nor the sync clear the name alone
\* (_update_match_fields_if_better, the review handlers).
THEOREM PendingSuggestionsAreNamed == Spec => SuggestionsNameEmployee
<1>1. ASSUME IInv, [Next]_vars, NEW l \in Licenses, Dangling(row'[l]), ~Dangling(row[l])
      PROVE  row[l] # None /\ row[l].suggested # None /\ DeleteEmployee(row[l].suggested)
  <2>1. \/ \E ls \in SUBSET Licenses : BulkUnassign(ls) \/ BulkDelete(ls)
        \/ \E e \in Employees : DeleteEmployee(e)
    <3>1. row'[l] # row[l]
      BY <1>1
    <3>2. ~ \E r \in Requests : CommitRequest(r)
      BY <1>1, CommitLinks
    <3>3. ~ \E k \in Licenses, e \in Person, service \in BOOLEAN : ImportLicense(k, e, service)
      BY <1>1, <3>1, ImportLinks
    <3>4. ~SyncCommit
      BY <1>1, <3>1, SyncLinks DEF LinkOK, Suggests
    <3>5. QED
      BY <1>1, <3>1, <3>2, <3>3, <3>4, RowWriters
  <2>2. /\ Loosens(row[l], row'[l])
        /\ row[l] # None /\ row[l].suggested # None /\ row'[l] # None /\ row'[l].suggested = None
               => DeleteEmployee(row[l].suggested)
    BY <1>1, <2>1, OthersLinks
  <2>3. row'[l] # None /\ row'[l].suggested = None /\ row'[l].status = "suggested"
    BY <1>1 DEF Dangling
  <2>4. row[l] # None /\ row[l].status = "suggested"
    BY <2>2, <2>3 DEF Loosens
  <2>5. row[l].suggested # None
    BY <1>1, <2>4 DEF Dangling
  <2>6. QED
    BY <2>2, <2>3, <2>4, <2>5
<1>2. ASSUME IInv, [Next]_vars
      PROVE  \A l \in Licenses : Dangling(row'[l]) /\ ~Dangling(row[l]) =>
                 /\ row[l] # None /\ row[l].suggested # None
                 /\ DeleteEmployee(row[l].suggested)
  BY <1>1, <1>2
<1>3. QED
  BY <1>2, Invariant, PTL DEF Spec, SuggestionsNameEmployee

\* A waiting suggestion gives way to another employee only with higher confidence
\* ("Update match fields only if the new match is better"), whatever is committed while
\* the sync is under way.
THEOREM OnlyBetterSuggestions == Spec => BetterSuggestionsOnly
<1>1. ASSUME IInv, [Next]_vars, NEW l \in Licenses, row[l] # None, row'[l] # None,
             row[l].suggested # None, row'[l].suggested \notin {None, row[l].suggested}
      PROVE  row'[l].confidence > row[l].confidence
  <2>1. row'[l] # row[l]
    BY <1>1
  <2>2. ~ \E r \in Requests : CommitRequest(r)
    BY <1>1, CommitLinks
  <2>3. ~ \E k \in Licenses, e \in Person, service \in BOOLEAN : ImportLicense(k, e, service)
    BY <1>1, <2>1, ImportLinks
  <2>4. ~ \/ \E ls \in SUBSET Licenses : BulkUnassign(ls) \/ BulkDelete(ls)
          \/ \E e \in Employees : DeleteEmployee(e)
    BY <1>1, OthersLinks DEF Loosens
  <2>5. SyncCommit
    BY <1>1, <2>1, <2>2, <2>3, <2>4, RowWriters
  <2>6. LinkOK(l, row'[l], sync.certain[l])
    BY <1>1, <2>1, <2>5, SyncLinks
  <2>7. QED
    BY <1>1, <2>6 DEF LinkOK, Suggests
<1>2. ASSUME IInv, [Next]_vars
      PROVE  \A l \in Licenses :
                LET old == row[l]
                    new == row'[l]
                IN  (/\ old # None /\ new # None
                     /\ old.suggested # None /\ new.suggested \notin {None, old.suggested})
                    => new.confidence > old.confidence
  BY <1>1, <1>2
<1>3. QED
  BY <1>2, Invariant, PTL DEF Spec, BetterSuggestionsOnly

\* A licence gets another employee only from a person, or from a sync whose match was
\* exact: suggestions and external addresses assign nobody (ShouldAutoAssign).
THEOREM AssignmentsAreJustified == Spec => AssignmentHasEvidence
<1>1. ASSUME IInv, [Next]_vars, NEW l \in Licenses,
             NEW old, old = IF row[l] = None THEN None ELSE row[l].employee,
             NEW new, new = IF row'[l] = None THEN None ELSE row'[l].employee,
             new \notin {None, old}
      PROVE  \/ l \in sync.done /\ sync.certain[l] = new
             \/ row[l] = None /\ l \notin sync.done
             \/ \E r \in Requests : l \in req[r].touched /\ req[r].patch[l].employee = new
  <2>1. row'[l] # None /\ new = row'[l].employee /\ row'[l] # row[l]
    BY <1>1
  <2>2. ASSUME NEW r \in Requests, CommitRequest(r)
        PROVE  l \in req[r].touched /\ req[r].patch[l].employee = new
    <3>1. l \in req[r].touched
      BY <1>1, <2>1, <2>2, CommitLinks
    <3>2. row[l] # None /\ row'[l].employee \in {row[l].employee, req[r].patch[l].employee}
      BY <1>1, <2>2, <3>1, CommitLinks
    <3>3. QED
      BY <1>1, <2>1, <3>1, <3>2
  <2>3. ASSUME NEW k \in Licenses, NEW e \in Person, NEW service \in BOOLEAN,
               ImportLicense(k, e, service)
        PROVE  row[l] = None /\ l \notin sync.done
    BY <1>1, <2>1, <2>3, ImportLinks
  <2>4. ~ \/ \E ls \in SUBSET Licenses : BulkUnassign(ls) \/ BulkDelete(ls)
          \/ \E e \in Employees : DeleteEmployee(e)
    BY <1>1, <2>1, OthersLinks DEF Loosens
  <2>5. CASE SyncCommit
    <3>1. l \in sync.done /\ LinkOK(l, row'[l], sync.certain[l])
      BY <1>1, <2>1, <2>5, SyncLinks
    <3>2. QED
      BY <1>1, <2>1, <3>1 DEF LinkOK, Suggests
  <2>6. QED
    BY <1>1, <2>1, <2>2, <2>3, <2>4, <2>5, RowWriters
<1>2. ASSUME IInv, [Next]_vars
      PROVE  \A l \in Licenses :
                LET old == IF row[l] = None THEN None ELSE row[l].employee
                    new == IF row'[l] = None THEN None ELSE row'[l].employee
                IN  new \notin {None, old} =>
                      \/ l \in sync.done /\ sync.certain[l] = new
                      \/ row[l] = None /\ l \notin sync.done
                      \/ \E r \in Requests :
                            l \in req[r].touched /\ req[r].patch[l].employee = new
  BY <1>1, <1>2
<1>3. QED
  BY <1>2, Invariant, PTL DEF Spec, AssignmentHasEvidence

=============================================================================
