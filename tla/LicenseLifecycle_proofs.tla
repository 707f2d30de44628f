---------------------- MODULE LicenseLifecycle_proofs ----------------------
(***************************************************************************)
(* Proofs about LicenseLifecycle, for any sets of rows, requests and sync  *)
(* transactions and any calendar.                                          *)
(***************************************************************************)
EXTENDS LicenseLifecycle, TLAPS

TxRec == [step: Steps, patch: [Items -> Patch],
          touched: SUBSET Items, locks: SUBSET Items]

-----------------------------------------------------------------------------
(* Patches and rows *)

\* Comparing two rows column by column yields a patch.
LEMMA DiffType ==
    ASSUME NEW loaded \in Row, NEW new \in Row
    PROVE  Diff(loaded, new) \in Patch
BY DEF Diff, Row, Patch

\* Applying a patch to a row yields a row.
LEMMA ApplyType ==
    ASSUME NEW r \in Row, NEW p \in Patch
    PROVE  Apply(r, p) \in Row
BY DEF Apply, Row, Patch

\* A row about to be inserted is a row.
LEMMA BlankRowType == BlankRow \in Row
BY DEF BlankRow, Row, Status, DateCol

\* The empty UPDATE is a patch.
LEMMA NoPatchType == NoPatch \in Patch
BY DEF NoPatch, Patch

\* A transaction that has ended has a well-formed record.
LEMMA IdleType == Idle \in TxRec
BY NoPatchType DEF Idle, TxRec, Steps

\* Patches that the handlers compute.
LEMMA CancelPatchType ==
    ASSUME NEW loaded \in Row, NEW d \in Day
    PROVE  CancelPatch(loaded, d) \in Patch
<1> DEFINE new == [loaded EXCEPT !.effective = d,
                      !.status = IF d <= today THEN "cancelled" ELSE @]
<1>1. new \in Row
  BY DEF Row, Status, DateCol
<1>2. Diff(loaded, new) \in Patch
  BY <1>1, DiffType
<1>3. QED
  BY <1>2 DEF CancelPatch, Patch

\* renew_license and its siblings turn a row into a row.
LEMMA RenewedRowType ==
    ASSUME NEW loaded \in Row, NEW d \in Day, NEW clear \in BOOLEAN
    PROVE  RenewedRow(loaded, d, clear) \in Row
BY DEF RenewedRow, Row, Status, DateCol

\* What the creation paths insert is a row.
LEMMA NewRowType ==
    ASSUME NEW i \in Items, NEW s \in NewStatuses(i), NEW d \in NewExpires(i),
           NEW auto \in NewRenewals(i)
    PROVE  [BlankRow EXCEPT !.status = s, !.expires = d, !.autoRenew = auto] \in Row
<1>1. s \in Status /\ d \in DateCol /\ auto \in BOOLEAN
  BY DEF NewStatuses, NewExpires, NewRenewals, Status, DateCol
<1>2. QED
  BY <1>1, BlankRowType DEF Row

\* A live row is a row.
LEMMA LiveRow ==
    ASSUME TypeOK, NEW i \in Items, Live(i)
    PROVE  row[i] \in Row
BY DEF TypeOK, Live

\* Whatever a transaction writes at commit is a row.
LEMMA WrittenType ==
    ASSUME TypeOK, NEW t \in Txs, NEW i \in Items, row[i] # Deleted
    PROVE  Written(t, i) \in Row
<1>1. tx[t].patch[i] \in Patch
  BY DEF TypeOK
<1>2. (IF row[i] = Absent THEN BlankRow ELSE row[i]) \in Row
  BY BlankRowType DEF TypeOK
<1>3. QED
  BY <1>1, <1>2, ApplyType DEF Written

-----------------------------------------------------------------------------
(* Type correctness *)

\* The steps that the operators below stand for keep the types.
LEMMA PublishType ==
    ASSUME TypeOK, NEW t \in Txs, Publish(t)
    PROVE  /\ row' \in [Items -> Row \cup {Absent, Deleted}]
           /\ tx' \in [Txs -> TxRec]
<1>1. tx[t].touched \subseteq Items
  BY DEF TypeOK
<1>2. \A i \in tx[t].touched : Written(t, i) \in Row
  BY <1>1, WrittenType DEF Publish, CanWrite
<1>3. row' \in [Items -> Row \cup {Absent, Deleted}]
  BY <1>2 DEF Publish, TypeOK
<1>4. tx' \in [Txs -> TxRec]
  BY IdleType DEF Publish, TypeOK, TxRec
<1>5. QED
  BY <1>3, <1>4

\* A handler that loads a row leaves a well-formed transaction.
LEMMA LoadType ==
    ASSUME TypeOK, NEW t \in Txs, NEW step \in Steps, NEW i \in Items,
           NEW patch \in Patch, Load(t, step, i, patch)
    PROVE  TypeOK'
<1> DEFINE rec == [step |-> step, patch |-> [Idle.patch EXCEPT ![i] = patch],
                   touched |-> IF patch = NoPatch THEN {} ELSE {i}, locks |-> {}]
<1>1. [Idle.patch EXCEPT ![i] = patch] \in [Items -> Patch]
  BY NoPatchType DEF Idle
<1>2. rec \in TxRec
  BY <1>1 DEF TxRec
<1>3. tx' = [tx EXCEPT ![t] = rec]
  BY DEF Load
<1> HIDE DEF rec
<1>4. tx' \in [Txs -> TxRec]
  BY <1>2, <1>3 DEF TypeOK, TxRec
<1>5. QED
  BY <1>4 DEF Load, TypeOK, TxRec

\* Every step of a request keeps the types.
LEMMA RequestType ==
    ASSUME TypeOK, NEW r \in Requests, RequestStep(r)
    PROVE  TypeOK'
<1>0. r \in Txs
  BY DEF Txs
<1>1. ASSUME NEW i \in Items, NEW d \in Day, Cancel(r, i, d) PROVE TypeOK'
  BY <1>0, <1>1, LiveRow, CancelPatchType, LoadType DEF Cancel, Steps
<1>2. ASSUME NEW i \in Items, NEW d \in Day, CancelPackage(r, i, d) PROVE TypeOK'
  BY <1>0, <1>2, LiveRow, CancelPatchType, LoadType DEF CancelPackage, Steps
<1>3. ASSUME NEW i \in Items, NEW d \in Day, NEW clear \in BOOLEAN,
             Renew(r, i, d, clear)
      PROVE  TypeOK'
  <2>1. row[i] \in Row
    BY <1>3, LiveRow DEF Renew
  <2>2. Diff(row[i], RenewedRow(row[i], d, clear)) \in Patch
    BY <2>1, RenewedRowType, DiffType
  <2>3. (IF clear THEN "renew" ELSE "edit") \in Steps
    BY DEF Steps
  <2>4. QED
    BY <1>0, <1>3, <2>2, <2>3, LoadType DEF Renew
<1>4. ASSUME NEW i \in Items, NEW b \in BOOLEAN, SetNeedsReorder(r, i, b)
      PROVE  TypeOK'
  <2>1. row[i] \in Row /\ [row[i] EXCEPT !.reorder = b] \in Row
    BY <1>4, LiveRow DEF SetNeedsReorder, Row
  <2>2. QED
    BY <1>0, <1>4, <2>1, DiffType, LoadType DEF SetNeedsReorder, Steps
<1>5. ASSUME NEW i \in Items, NEW s \in {"active", "unassigned"}, ManualUpdate(r, i, s)
      PROVE  TypeOK'
  <2>1. row[i] \in Row /\ [row[i] EXCEPT !.status = s] \in Row
    BY <1>5, LiveRow DEF ManualUpdate, Row, Status
  <2>2. QED
    BY <1>0, <1>5, <2>1, DiffType, LoadType DEF ManualUpdate, Steps
<1>6. ASSUME NEW i \in Items, ManualUnassign(r, i) PROVE TypeOK'
  <2>1. row[i] \in Row /\ [row[i] EXCEPT !.status = "unassigned"] \in Row
    BY <1>6, LiveRow DEF ManualUnassign, Row, Status
  <2>2. QED
    BY <1>0, <1>6, <2>1, DiffType, LoadType DEF ManualUnassign, Steps
<1>7. ASSUME NEW i \in Items, NEW d \in DateCol, NEW auto \in BOOLEAN,
             UpdatePackage(r, i, d, auto)
      PROVE  TypeOK'
  <2>1. row[i] \in Row /\ [row[i] EXCEPT !.expires = d, !.autoRenew = auto] \in Row
    BY <1>7, LiveRow DEF UpdatePackage, Row
  <2>2. QED
    BY <1>0, <1>7, <2>1, DiffType, LoadType DEF UpdatePackage, Steps
<1>8. CASE CommitRequest(r)
  <2>1. row' \in [Items -> Row \cup {Absent, Deleted}] /\ tx' \in [Txs -> TxRec]
    BY <1>0, <1>8, PublishType DEF CommitRequest
  <2>2. outrun' \subseteq Items
    BY <1>0, <1>8 DEF CommitRequest, Outruns, TypeOK
  <2>3. QED
    BY <1>8, <2>1, <2>2 DEF CommitRequest, TypeOK, TxRec
<1>9. CASE RequestFails(r)
  BY <1>0, <1>9, IdleType DEF RequestFails, TypeOK, TxRec
<1>10. QED
  BY <1>1, <1>2, <1>3, <1>4, <1>5, <1>6, <1>7, <1>8, <1>9 DEF RequestStep

\* Every step of a sync keeps the types.
LEMMA SyncType ==
    ASSUME TypeOK, NEW s \in Syncs, SyncStep(s)
    PROVE  TypeOK'
<1>0. s \in Txs /\ tx[s] \in TxRec /\ Synced \subseteq Items
  BY DEF Txs, TypeOK, TxRec, Items, Licenses
<1>1. ASSUME NEW i \in Synced, NEW status \in ProviderStatuses, SyncLoad(s, i, status)
      PROVE  TypeOK'
  <2> DEFINE p == Diff(row[i], [row[i] EXCEPT !.status = status])
  <2>1. row[i] \in Row /\ [row[i] EXCEPT !.status = status] \in Row
    BY <1>0, <1>1, LiveRow, BoundsOK DEF SyncLoad, Row, Status
  <2>2. p \in Patch
    BY <2>1, DiffType
  <2> HIDE DEF p
  <2> DEFINE rec == [step |-> "syncing", patch |-> [tx[s].patch EXCEPT ![i] = p],
                     touched |-> tx[s].touched \cup {i}, locks |-> tx[s].locks]
  <2>3. rec \in TxRec
    BY <1>0, <2>2 DEF TxRec, Steps
  <2>4. tx' = [tx EXCEPT ![s] = rec]
    BY <1>1 DEF SyncLoad, p
  <2> HIDE DEF rec
  <2>5. tx' \in [Txs -> TxRec]
    BY <1>0, <2>3, <2>4 DEF TypeOK, TxRec
  <2>6. QED
    BY <1>1, <2>5 DEF SyncLoad, TypeOK, TxRec
<1>2. ASSUME NEW i \in Synced, NEW status \in ProviderStatuses, SyncCreate(s, i, status)
      PROVE  TypeOK'
  <2> DEFINE p == [NoPatch EXCEPT !.status = status]
  <2>2. p \in Patch
    BY NoPatchType, BoundsOK DEF Patch, Status
  <2> HIDE DEF p
  <2> DEFINE rec == [step |-> "syncing", patch |-> [tx[s].patch EXCEPT ![i] = p],
                     touched |-> tx[s].touched \cup {i}, locks |-> tx[s].locks \cup {i}]
  <2>3. rec \in TxRec
    BY <1>0, <2>2 DEF TxRec, Steps
  <2>4. tx' = [tx EXCEPT ![s] = rec]
    BY <1>2 DEF SyncCreate, p
  <2> HIDE DEF rec
  <2>5. tx' \in [Txs -> TxRec]
    BY <1>0, <2>3, <2>4 DEF TypeOK, TxRec
  <2>6. QED
    BY <1>2, <2>5 DEF SyncCreate, TypeOK, TxRec
<1>3. CASE SyncFlush(s)
  <2>1. PICK i \in tx[s].touched \ tx[s].locks :
            tx' = [tx EXCEPT ![s].locks = @ \cup {i}]
    BY <1>3 DEF SyncFlush
  <2>2. [tx[s] EXCEPT !.locks = @ \cup {i}] \in TxRec
    BY <1>0, <2>1 DEF TxRec
  <2>3. tx' \in [Txs -> TxRec]
    BY <1>0, <2>1, <2>2 DEF TypeOK, TxRec
  <2>4. QED
    BY <1>3, <2>3 DEF SyncFlush, TypeOK, TxRec
<1>4. CASE SyncCommit(s)
  BY <1>0, <1>4, PublishType DEF SyncCommit, TypeOK, TxRec
<1>5. CASE SyncFails(s)
  BY <1>0, <1>5, IdleType DEF SyncFails, TypeOK, TxRec
<1>6. ASSUME NEW i \in Synced, NEW status \in ProviderStatuses, SyncLoadAgain(s, i, status)
      PROVE  TypeOK'
  <2> DEFINE st == IF Written(s, i).status = status THEN tx[s].patch[i].status ELSE status
             rec == [tx[s] EXCEPT !.patch[i].status = st]
  <2>1. i \in Items /\ tx[s].patch[i] \in Patch /\ st \in Status \cup {Keep}
    BY <1>0, BoundsOK DEF TxRec, Patch, Status
  <2>2. tx' = [tx EXCEPT ![s] = rec]
    BY <1>0, <1>6 DEF SyncLoadAgain, TypeOK
  <2> HIDE DEF st
  <2>3. [tx[s].patch[i] EXCEPT !.status = st] \in Patch
    BY <2>1 DEF Patch
  <2>4. rec \in TxRec
    BY <1>0, <2>1, <2>3 DEF TxRec
  <2> HIDE DEF rec
  <2>5. tx' \in [Txs -> TxRec]
    BY <1>0, <2>2, <2>4 DEF TypeOK, TxRec
  <2>6. QED
    BY <1>6, <2>5 DEF SyncLoadAgain, TypeOK, TxRec
<1>7. QED
  BY <1>1, <1>2, <1>3, <1>4, <1>5, <1>6 DEF SyncStep

\* Every step of the expiration job keeps the types.
LEMMA JobType ==
    ASSUME TypeOK, JobStep
    PROVE  TypeOK'
<1>0. Job \in Txs
  BY DEF Txs, Job
<1>1. CASE JobExpire
  <2> DEFINE due == {i \in Items : Live(i) /\ Overdue(row[i], today)}
             p == [i \in Items |-> IF i \in due
                     THEN [NoPatch EXCEPT !.status = "expired"] ELSE NoPatch]
             rec == [step |-> "expired", patch |-> p, touched |-> due, locks |-> {}]
  <2>1. p \in [Items -> Patch]
    BY NoPatchType DEF Patch, Status
  <2>2. due \subseteq Items
    OBVIOUS
  <2>3. tx' = [tx EXCEPT ![Job] = rec] /\ jobDay' = today /\ UNCHANGED <<today, row, outrun>>
    BY <1>1 DEF JobExpire
  <2> HIDE DEF due, p
  <2>4. rec \in TxRec
    BY <2>1, <2>2 DEF TxRec, Steps
  <2> HIDE DEF rec
  <2>5. QED
    BY <1>0, <2>3, <2>4 DEF TypeOK, TxRec
<1>2. CASE JobCancel
  <2> DEFINE seen(i) == IF i \in tx[Job].touched THEN Written(Job, i) ELSE row[i]
             due == {i \in Items : Live(i) /\ CancellationDue(seen(i), jobDay)}
             p == [i \in Items |-> IF i \in due
                     THEN [NoPatch EXCEPT !.status = "cancelled"] ELSE tx[Job].patch[i]]
             rec == [step |-> "cancelled", patch |-> p,
                     touched |-> tx[Job].touched \cup due, locks |-> tx[Job].touched]
  <2>1. p \in [Items -> Patch]
    BY <1>0, NoPatchType DEF Patch, Status, TypeOK
  <2>2. due \subseteq Items
    OBVIOUS
  <2>3. tx' = [tx EXCEPT ![Job] = rec] /\ UNCHANGED <<today, row, jobDay, outrun>>
    BY <1>2 DEF JobCancel
  <2> HIDE DEF due, p
  <2>4. rec \in TxRec
    BY <1>0, <2>1, <2>2 DEF TxRec, Steps, TypeOK
  <2> HIDE DEF rec
  <2>5. QED
    BY <1>0, <2>3, <2>4 DEF TypeOK, TxRec
<1>3. CASE JobCommit
  BY <1>0, <1>3, PublishType DEF JobCommit, TypeOK, TxRec
<1>4. CASE JobFails
  BY <1>0, <1>4, IdleType DEF JobFails, TypeOK, TxRec
<1>5. QED
  BY <1>1, <1>2, <1>3, <1>4 DEF JobStep

\* The types are an invariant.
LEMMA TypeInductive ==
    ASSUME TypeOK, [Next]_vars
    PROVE  TypeOK'
<1>1. ASSUME NEW i \in Items, Create(i) PROVE TypeOK'
  <2>1. PICK s \in NewStatuses(i), d \in NewExpires(i), auto \in NewRenewals(i) :
           row' = [row EXCEPT ![i] = [BlankRow EXCEPT !.status = s, !.expires = d,
                                                      !.autoRenew = auto]]
    BY <1>1 DEF Create
  <2>2. row' \in [Items -> Row \cup {Absent, Deleted}]
    BY <2>1, NewRowType DEF TypeOK
  <2>3. QED
    BY <1>1, <2>2 DEF Create, TypeOK
<1>2. ASSUME NEW i \in Items, Delete(i) PROVE TypeOK'
  BY <1>2 DEF Delete, TypeOK
<1>3. CASE Tick
  BY <1>3, BoundsOK DEF Tick, TypeOK, Day
<1>4. CASE UNCHANGED vars
  BY <1>4 DEF vars, TypeOK
<1>5. QED
  BY <1>1, <1>2, <1>3, <1>4, RequestType, SyncType, JobType DEF Next

-----------------------------------------------------------------------------
(* What one step may do to a row and to a patch *)

Paired(r) == r.cancelledAt <=> r.effective # NoDate

\* What an UPDATE computed from a paired row does to the columns of the cancellation
\* of row i: nothing, it sets both, it clears both, or it leaves the recorded date.
PairPatch(i, p) ==
    \/ p.cancelledAt = Keep /\ p.effective = Keep
    \/ p.cancelledAt = TRUE /\ p.effective \notin {Keep, NoDate}
    \/ p.cancelledAt = FALSE /\ p.effective = NoDate
    \/ /\ p.cancelledAt = TRUE /\ p.effective = Keep
       /\ row[i] # Absent /\ (row[i] # Deleted => row[i].effective # NoDate)

\* The row of i after a step: as before, removed, created, or written by a
\* transaction that commits.
RowStep(i) ==
    \/ row'[i] = row[i]
    \/ row'[i] = Deleted
    \/ /\ row[i] = Absent /\ tx' = tx
       /\ \E s \in NewStatuses(i), d \in NewExpires(i), auto \in NewRenewals(i) :
             row'[i] = [BlankRow EXCEPT !.status = s, !.expires = d, !.autoRenew = auto]
    \/ \E t \in Txs : /\ i \in tx[t].touched /\ row[i] # Deleted
                      /\ row'[i] = Written(t, i)
                      /\ tx' = [tx EXCEPT ![t] = Idle]
                      /\ t \in Requests => outrun' = outrun \cup Outruns(t)

\* A patch that a handler has just computed from the rows as they are.
Fresh(t, i) ==
    LET p == tx'[t].patch[i]
    IN  /\ row' = row
        /\ p.expires = NoDate => i \in Packages
        /\ p.status = "expired" => Live(i) /\ row[i].expires # NoDate
        /\ p.status = "active" /\ i \in Packages \cup OrgLicenses
             => t \in Requests /\ tx'[t].step = "renew"
        /\ t \notin Requests => p.cancelledAt = Keep /\ p.effective = Keep
        /\ t \in Requests
             => Live(i) /\ (Paired(row[i]) => PairPatch(i, p))

\* The provider lists a member again: the patch takes another status.
Restated(t, i) ==
    /\ t \in Syncs /\ i \in Synced
    /\ \E status \in ProviderStatuses :
          tx'[t].patch[i] = [tx[t].patch[i] EXCEPT !.status = status]
    /\ row' = row

\* The patch of transaction t for row i after a step: as before, dropped, fresh,
\* or with another status.
PatchStep(t, i) ==
    \/ /\ tx'[t].patch[i] = tx[t].patch[i]
       /\ tx'[t].step = tx[t].step \/ t \notin Requests
    \/ tx'[t].patch[i] = NoPatch
    \/ Fresh(t, i)
    \/ Restated(t, i)

\* A commit changes exactly the rows that the transaction touched.
LEMMA PublishRow ==
    ASSUME TypeOK, NEW t \in Txs, Publish(t), NEW i \in Items,
           t \in Requests => outrun' = outrun \cup Outruns(t)
    PROVE  RowStep(i)
BY DEF Publish, CanWrite, RowStep, TypeOK

\* After a commit no patch of another transaction has changed.
LEMMA PublishPatch ==
    ASSUME TypeOK, NEW t \in Txs, tx' = [tx EXCEPT ![t] = Idle],
           NEW u \in Txs, NEW i \in Items
    PROVE  PatchStep(u, i)
BY DEF PatchStep, Idle, TypeOK

\* A handler that loads a row changes only its own patch.
LEMMA LoadPatch ==
    ASSUME TypeOK, NEW t \in Requests, NEW step, NEW j \in Items, NEW patch,
           Load(t, step, j, patch), Live(j),
           patch.expires = NoDate => j \in Packages,
           patch.status # "expired",
           patch.status = "active" /\ j \in Packages \cup OrgLicenses => step = "renew",
           Paired(row[j]) => PairPatch(j, patch),
           NEW u \in Txs, NEW i \in Items
    PROVE  PatchStep(u, i)
<1>0. t \in Txs
  BY DEF Txs
<1>1. CASE u # t
  BY <1>1, <1>0 DEF PatchStep, Load, TypeOK
<1>2. CASE u = t /\ i # j
  BY <1>2, <1>0 DEF PatchStep, Load, TypeOK, Idle
<1>3. CASE u = t /\ i = j
  <2>1. tx'[t].patch[j] = patch /\ tx'[t].step = step /\ row' = row
    BY <1>0 DEF Load, TypeOK, Idle
  <2>2. Fresh(t, j)
    BY <2>1 DEF Fresh
  <2>3. QED
    BY <1>3, <2>2 DEF PatchStep
<1>4. QED
  BY <1>1, <1>2, <1>3

\* What the handlers put into their patches.
LEMMA CancelPatchContents ==
    ASSUME TypeOK, NEW i \in Items, Live(i), NEW d \in Day
    PROVE  /\ CancelPatch(row[i], d).expires = Keep
           /\ CancelPatch(row[i], d).status \in {Keep, "cancelled"}
           /\ PairPatch(i, CancelPatch(row[i], d))
<1> DEFINE loaded == row[i]
           new == [loaded EXCEPT !.effective = d,
                      !.status = IF d <= today THEN "cancelled" ELSE @]
<1>0. loaded \in Row /\ loaded # Absent
  BY LiveRow DEF Live
<1>1. d # NoDate /\ d # Keep
  BY BoundsOK, MarkersDistinct DEF Day
<1> HIDE DEF loaded
<1>2. /\ new \in Row /\ new.effective = d /\ new.expires = loaded.expires
      /\ new.status \in {loaded.status, "cancelled"}
  BY <1>0 DEF Row, Status, DateCol
<1>3. CancelPatch(row[i], d) = [Diff(loaded, new) EXCEPT !.cancelledAt = TRUE]
  BY DEF CancelPatch, loaded
<1> HIDE DEF new
<1>4. Diff(loaded, new).expires = Keep /\ Diff(loaded, new).status \in {Keep, "cancelled"}
  BY <1>2 DEF Diff
<1>5. Diff(loaded, new).effective = IF d = loaded.effective THEN Keep ELSE d
  BY <1>2 DEF Diff
<1> DEFINE p == CancelPatch(row[i], d)
<1>6. /\ p.expires = Keep /\ p.status \in {Keep, "cancelled"}
      /\ p.cancelledAt = TRUE
      /\ p.effective = IF d = loaded.effective THEN Keep ELSE d
  BY <1>3, <1>4, <1>5 DEF Diff
<1> HIDE DEF p
<1>7. PairPatch(i, p)
  BY <1>0, <1>1, <1>6 DEF PairPatch, loaded
<1>8. QED
  BY <1>6, <1>7 DEF p

\* What the UPDATE of a renewal can hold, column by column.
LEMMA RenewPatchContents ==
    ASSUME TypeOK, NEW i \in Items, Live(i), NEW d \in Day, NEW clear \in BOOLEAN
    PROVE  LET p == Diff(row[i], RenewedRow(row[i], d, clear))
           IN  /\ p.expires # NoDate
               /\ p.status \in {Keep, "active"}
               /\ p.status = "active" => clear
               /\ Paired(row[i]) => PairPatch(i, p)
<1> DEFINE loaded == row[i]
           new == RenewedRow(loaded, d, clear)
           p == Diff(loaded, new)
<1>0. loaded \in Row
  BY LiveRow
<1> HIDE DEF loaded
<1>1. /\ new \in Row
      /\ new.expires = d
      /\ new.status \in {loaded.status, "active"}
      /\ ~clear => new.status = loaded.status
  BY <1>0, RenewedRowType DEF RenewedRow, Row
<1>2. /\ clear => new.cancelledAt = FALSE /\ new.effective = NoDate
      /\ ~clear => new.cancelledAt = loaded.cancelledAt /\ new.effective = loaded.effective
  BY <1>0 DEF RenewedRow, Row
<1>3. d # NoDate /\ Keep # NoDate /\ Keep # "active"
  BY MarkersDistinct, BoundsOK DEF Day, Status
<1> HIDE DEF new
<1>4. /\ p.expires # NoDate
      /\ p.status \in {Keep, "active"}
      /\ p.status = "active" => clear
  BY <1>1, <1>3 DEF Diff
<1>5. /\ p.cancelledAt = IF new.cancelledAt = loaded.cancelledAt THEN Keep ELSE new.cancelledAt
      /\ p.effective = IF new.effective = loaded.effective THEN Keep ELSE new.effective
  BY DEF Diff
<1> HIDE DEF p
<1>6. loaded.cancelledAt \in BOOLEAN
  BY <1>0 DEF Row
<1>7. ASSUME Paired(loaded)
      PROVE  PairPatch(i, p)
  <2>1. CASE ~clear
    BY <1>2, <1>5, <2>1 DEF PairPatch
  <2>2. CASE clear /\ loaded.effective = NoDate
    <3>1. loaded.cancelledAt = FALSE
      BY <1>6, <1>7, <2>2 DEF Paired
    <3>2. QED
      BY <1>2, <1>5, <2>2, <3>1 DEF PairPatch
  <2>3. CASE clear /\ loaded.effective # NoDate
    <3>1. loaded.cancelledAt = TRUE
      BY <1>6, <1>7, <2>3 DEF Paired
    <3>2. p.cancelledAt = FALSE /\ p.effective = NoDate
      BY <1>2, <1>5, <2>3, <3>1
    <3>3. QED
      BY <3>2 DEF PairPatch
  <2>4. QED
    BY <2>1, <2>2, <2>3
<1>8. QED
  BY <1>4, <1>7 DEF p, new, loaded

\* An edit that leaves the columns of the cancellation alone sends neither.
LEMMA EditKeepsPair ==
    ASSUME NEW i \in Items, NEW loaded \in Row, NEW new \in Row,
           new.cancelledAt = loaded.cancelledAt, new.effective = loaded.effective
    PROVE  PairPatch(i, Diff(loaded, new))
BY DEF Diff, PairPatch

\* Request steps: each patch is an old one, empty, or computed by a handler.
LEMMA RequestPatch ==
    ASSUME TypeOK, NEW r \in Requests, RequestStep(r), NEW u \in Txs, NEW i \in Items
    PROVE  PatchStep(u, i)
<1>0. r \in Txs /\ Keep \notin {"expired", "active", NoDate}
  BY MarkersDistinct DEF Txs, Status
<1>1. ASSUME NEW j \in Items, NEW d \in Day, Cancel(r, j, d) \/ CancelPackage(r, j, d)
      PROVE  PatchStep(u, i)
  <2>1. PICK step : Load(r, step, j, CancelPatch(row[j], d)) /\ Live(j)
    BY <1>1 DEF Cancel, CancelPackage
  <2>2. /\ CancelPatch(row[j], d).expires = Keep
        /\ CancelPatch(row[j], d).status \in {Keep, "cancelled"}
        /\ PairPatch(j, CancelPatch(row[j], d))
    BY <2>1, CancelPatchContents
  <2>3. QED
    BY <1>0, <2>1, <2>2, LoadPatch
<1>2. ASSUME NEW j \in Items, NEW d \in Day, NEW clear \in BOOLEAN, Renew(r, j, d, clear)
      PROVE  PatchStep(u, i)
  <2> DEFINE p == Diff(row[j], RenewedRow(row[j], d, clear))
             step == IF clear THEN "renew" ELSE "edit"
  <2>1. Load(r, step, j, p) /\ Live(j)
    BY <1>2 DEF Renew
  <2>2. /\ p.expires # NoDate
        /\ p.status \in {Keep, "active"}
        /\ p.status = "active" => clear
        /\ Paired(row[j]) => PairPatch(j, p)
    BY <2>1, RenewPatchContents
  <2>3. p.status # "expired" /\ (p.status = "active" => step = "renew")
    BY <1>0, <2>2
  <2> HIDE DEF p, step
  <2>4. QED
    BY <2>1, <2>2, <2>3, LoadPatch
<1>3. ASSUME NEW j \in Items, NEW b \in BOOLEAN, SetNeedsReorder(r, j, b)
      PROVE  PatchStep(u, i)
  <2> DEFINE p == Diff(row[j], [row[j] EXCEPT !.reorder = b])
  <2>1. Load(r, "edit", j, p) /\ Live(j)
    BY <1>3 DEF SetNeedsReorder
  <2>2. p.expires = Keep /\ p.status = Keep
    BY <2>1, LiveRow DEF Diff, Row
  <2>3. PairPatch(j, p)
    BY <2>1, LiveRow, EditKeepsPair DEF Row
  <2> HIDE DEF p
  <2>4. QED
    BY <1>0, <2>1, <2>2, <2>3, LoadPatch
<1>4. ASSUME NEW j \in Items, NEW s \in {"active", "unassigned"},
             ManualUpdate(r, j, s) \/ (ManualUnassign(r, j) /\ s = "unassigned")
      PROVE  PatchStep(u, i)
  <2> DEFINE p == Diff(row[j], [row[j] EXCEPT !.status = s])
  <2>1. Load(r, "edit", j, p) /\ Live(j) /\ j \notin Packages \cup OrgLicenses
    BY <1>4, KindsDisjoint DEF ManualUpdate, ManualUnassign, Licenses
  <2>2. p.expires = Keep /\ p.status \in {Keep, s}
    BY <2>1, LiveRow DEF Diff, Row
  <2>3. PairPatch(j, p)
    BY <2>1, LiveRow, EditKeepsPair DEF Row, Status
  <2> HIDE DEF p
  <2>4. QED
    BY <1>0, <2>1, <2>2, <2>3, LoadPatch
<1>5. ASSUME NEW j \in Items, NEW d \in DateCol, NEW auto \in BOOLEAN,
             UpdatePackage(r, j, d, auto)
      PROVE  PatchStep(u, i)
  <2> DEFINE p == Diff(row[j], [row[j] EXCEPT !.expires = d, !.autoRenew = auto])
  <2>1. Load(r, "edit", j, p) /\ Live(j) /\ j \in Packages
    BY <1>5 DEF UpdatePackage
  <2>2. p.status = Keep
    BY <2>1, LiveRow DEF Diff, Row
  <2>3. PairPatch(j, p)
    BY <2>1, LiveRow, EditKeepsPair DEF Row
  <2> HIDE DEF p
  <2>4. QED
    BY <1>0, <2>1, <2>2, <2>3, LoadPatch
<1>6. CASE CommitRequest(r) \/ RequestFails(r)
  <2>1. tx' = [tx EXCEPT ![r] = Idle]
    BY <1>6 DEF CommitRequest, Publish, RequestFails
  <2>2. QED
    BY <1>0, <2>1, PublishPatch
<1>7. QED
  BY <1>1, <1>2, <1>3, <1>4, <1>5, <1>6 DEF RequestStep

\* Sync steps: each patch is an old one, empty, or a change of status alone.
LEMMA SyncPatch ==
    ASSUME TypeOK, NEW s \in Syncs, SyncStep(s), NEW u \in Txs, NEW i \in Items
    PROVE  PatchStep(u, i)
<1>0. /\ s \in Txs /\ s \notin Requests /\ Synced \subseteq Items
      /\ Synced \cap (Packages \cup OrgLicenses) = {}
      /\ Keep \notin {"expired", "active", NoDate}
  BY TxsDistinct, KindsDisjoint, MarkersDistinct DEF Txs, Items, Licenses, Status
<1>1. ASSUME NEW j \in Synced, NEW status \in ProviderStatuses,
             SyncLoad(s, j, status) \/ SyncCreate(s, j, status)
      PROVE  PatchStep(u, i)
  <2>1. PICK p : /\ p.status \in {Keep, status} /\ p.expires = Keep
                 /\ p.cancelledAt = Keep /\ p.effective = Keep
                 /\ tx'[s].patch = [tx[s].patch EXCEPT ![j] = p]
    <3>1. CASE SyncLoad(s, j, status)
      <4> DEFINE q == Diff(row[j], [row[j] EXCEPT !.status = status])
      <4>1. row[j] \in Row
        BY <1>0, <3>1, LiveRow DEF SyncLoad
      <4>2. /\ q.status \in {Keep, status} /\ q.expires = Keep
            /\ q.cancelledAt = Keep /\ q.effective = Keep
        BY <4>1 DEF Diff, Row
      <4>3. tx'[s].patch = [tx[s].patch EXCEPT ![j] = q]
        BY <1>0, <3>1 DEF SyncLoad, TypeOK
      <4> HIDE DEF q
      <4>4. QED
        BY <4>2, <4>3
    <3>2. CASE SyncCreate(s, j, status)
      <4> DEFINE q == [NoPatch EXCEPT !.status = status]
      <4>1. /\ q.status = status /\ q.expires = Keep
            /\ q.cancelledAt = Keep /\ q.effective = Keep
        BY DEF NoPatch
      <4>2. tx'[s].patch = [tx[s].patch EXCEPT ![j] = q]
        BY <1>0, <3>2 DEF SyncCreate, TypeOK
      <4> HIDE DEF q
      <4>3. QED
        BY <4>1, <4>2
    <3>3. QED
      BY <1>1, <3>1, <3>2
  <2>2. row' = row /\ \A v \in Txs \ {s} : tx'[v] = tx[v]
    BY <1>1 DEF SyncLoad, SyncCreate, TypeOK
  <2>3. p.status # "expired"
    BY <1>0, <2>1, BoundsOK
  <2>4. CASE u = s /\ i = j
    <3>1. tx'[u].patch[i] = p
      BY <1>0, <2>1, <2>4 DEF TypeOK
    <3>2. Fresh(u, i)
      BY <1>0, <2>1, <2>2, <2>3, <2>4, <3>1 DEF Fresh
    <3>3. QED
      BY <3>2 DEF PatchStep
  <2>5. CASE u = s /\ i # j
    BY <1>0, <2>1, <2>5 DEF PatchStep, TypeOK
  <2>6. CASE u # s
    BY <2>2, <2>6 DEF PatchStep
  <2>7. QED
    BY <2>4, <2>5, <2>6
<1>2. CASE SyncFlush(s)
  BY <1>2, <1>0 DEF SyncFlush, PatchStep, TypeOK
<1>5. ASSUME NEW j \in Synced, NEW status \in ProviderStatuses, SyncLoadAgain(s, j, status)
      PROVE  PatchStep(u, i)
  <2> DEFINE st == IF Written(s, j).status = status THEN tx[s].patch[j].status ELSE status
  <2>1. tx' = [tx EXCEPT ![s].patch[j].status = st] /\ row' = row
    BY <1>0, <1>5 DEF SyncLoadAgain, TypeOK
  <2>2. st \in {tx[s].patch[j].status, status}
    OBVIOUS
  <2> HIDE DEF st
  <2>3. CASE u = s /\ i = j
    <3>1. /\ tx'[u].patch[i] = [tx[u].patch[i] EXCEPT !.status = st]
          /\ tx[u].patch[i] \in Patch
      BY <1>0, <2>1, <2>3 DEF TypeOK
    <3>2. CASE st = status
      BY <1>5, <2>1, <2>3, <3>1, <3>2 DEF PatchStep, Restated
    <3>3. CASE st = tx[u].patch[i].status
      <4>1. tx'[u].patch[i] = tx[u].patch[i]
        BY <3>1, <3>3 DEF Patch
      <4>2. QED
        BY <1>0, <2>3, <4>1 DEF PatchStep
    <3>4. QED
      BY <2>2, <2>3, <3>2, <3>3
  <2>4. CASE u # s \/ i # j
    <3>1. tx'[u].patch[i] = tx[u].patch[i] /\ tx'[u].step = tx[u].step
      BY <1>0, <2>1, <2>4 DEF TypeOK
    <3>2. QED
      BY <3>1 DEF PatchStep
  <2>5. QED
    BY <2>3, <2>4
<1>3. CASE SyncCommit(s) \/ SyncFails(s)
  <2>1. tx' = [tx EXCEPT ![s] = Idle]
    BY <1>3 DEF SyncCommit, Publish, SyncFails
  <2>2. QED
    BY <1>0, <2>1, PublishPatch
<1>4. QED
  BY <1>1, <1>2, <1>3, <1>5 DEF SyncStep

\* Job steps: each patch is an old one, empty, or a change of status alone.
LEMMA JobPatch ==
    ASSUME TypeOK, JobStep, NEW u \in Txs, NEW i \in Items
    PROVE  PatchStep(u, i)
<1>0. /\ Job \in Txs /\ Job \notin Requests
      /\ Keep \notin {"expired", "active", NoDate}
  BY TxsDistinct, MarkersDistinct DEF Txs, Job, Status
<1> DEFINE Marked(s) == [NoPatch EXCEPT !.status = s]
<1>1. \A s : /\ Marked(s).status = s /\ Marked(s).expires = Keep
             /\ Marked(s).cancelledAt = Keep /\ Marked(s).effective = Keep
  BY DEF NoPatch
<1>2. CASE JobExpire
  <2> DEFINE due == {j \in Items : Live(j) /\ Overdue(row[j], today)}
  <2>1. /\ row' = row /\ \A v \in Txs \ {Job} : tx'[v] = tx[v]
        /\ tx'[Job].patch[i] = IF i \in due THEN Marked("expired") ELSE NoPatch
    BY <1>0, <1>2 DEF JobExpire, TypeOK
  <2>2. CASE u = Job /\ i \in due
    <3>1. Live(i) /\ row[i].expires # NoDate
      BY <2>2 DEF Overdue
    <3> HIDE DEF Marked, due
    <3>2. Fresh(u, i)
      BY <1>0, <1>1, <2>1, <2>2, <3>1 DEF Fresh
    <3>3. QED
      BY <3>2 DEF PatchStep
  <2>3. CASE u # Job \/ i \notin due
    BY <2>1, <2>3 DEF PatchStep
  <2>4. QED
    BY <2>2, <2>3
<1>3. CASE JobCancel
  <2>1. PICK due \in SUBSET Items :
           /\ row' = row /\ \A v \in Txs \ {Job} : tx'[v] = tx[v]
           /\ tx'[Job].patch[i] = IF i \in due THEN Marked("cancelled")
                                                ELSE tx[Job].patch[i]
    <3> DEFINE seen(j) == IF j \in tx[Job].touched THEN Written(Job, j) ELSE row[j]
               due == {j \in Items : Live(j) /\ CancellationDue(seen(j), jobDay)}
               p == [j \in Items |-> IF j \in due THEN Marked("cancelled")
                                                    ELSE tx[Job].patch[j]]
               rec == [step |-> "cancelled", patch |-> p,
                       touched |-> tx[Job].touched \cup due, locks |-> tx[Job].touched]
    <3>1. tx' = [tx EXCEPT ![Job] = rec] /\ row' = row
      BY <1>3 DEF JobCancel
    <3>2. rec.patch[i] = IF i \in due THEN Marked("cancelled") ELSE tx[Job].patch[i]
      OBVIOUS
    <3>3. due \in SUBSET Items
      OBVIOUS
    <3> HIDE DEF rec, due
    <3>4. QED
      BY <1>0, <3>1, <3>2, <3>3 DEF TypeOK
  <2>2. CASE u = Job /\ i \in due
    <3> HIDE DEF Marked
    <3>1. Fresh(u, i)
      BY <1>0, <1>1, <2>1, <2>2 DEF Fresh
    <3>2. QED
      BY <3>1 DEF PatchStep
  <2>3. CASE u # Job \/ i \notin due
    BY <1>0, <2>1, <2>3 DEF PatchStep
  <2>4. QED
    BY <2>2, <2>3
<1>4. CASE JobCommit \/ JobFails
  <2>1. tx' = [tx EXCEPT ![Job] = Idle]
    BY <1>4 DEF JobCommit, Publish, JobFails
  <2>2. QED
    BY <1>0, <2>1, PublishPatch
<1>5. QED
  BY <1>2, <1>3, <1>4 DEF JobStep

\* Every patch of every transaction follows PatchStep.
LEMMA NextPatch ==
    ASSUME TypeOK, [Next]_vars, NEW t \in Txs, NEW i \in Items
    PROVE  PatchStep(t, i)
<1>1. CASE tx' = tx
  BY <1>1 DEF PatchStep
<1>2. CASE tx' # tx
  <2>1. \/ \E r \in Requests : RequestStep(r)
        \/ \E s \in Syncs : SyncStep(s)
        \/ JobStep
    BY <1>2 DEF Next, Create, Delete, Tick, vars
  <2>2. QED
    BY <2>1, RequestPatch, SyncPatch, JobPatch
<1>3. QED
  BY <1>1, <1>2

\* Every row follows RowStep.
LEMMA NextRow ==
    ASSUME TypeOK, [Next]_vars, NEW i \in Items
    PROVE  RowStep(i)
<1>0. Requests \cup Syncs \cup {Job} \subseteq Txs
  BY DEF Txs, Job
<1>1. ASSUME NEW t \in Txs, Publish(t), t \in Requests => CommitRequest(t)
      PROVE  RowStep(i)
  BY <1>1, PublishRow DEF CommitRequest
<1>2. ASSUME NEW j \in Items, Create(j) PROVE RowStep(i)
  <2>1. PICK s \in NewStatuses(j), d \in NewExpires(j), auto \in NewRenewals(j) :
           row' = [row EXCEPT ![j] = [BlankRow EXCEPT !.status = s, !.expires = d,
                                                      !.autoRenew = auto]]
    BY <1>2 DEF Create
  <2>2. CASE i = j
    <3>1. row'[i] = [BlankRow EXCEPT !.status = s, !.expires = d, !.autoRenew = auto]
      BY <2>1, <2>2 DEF TypeOK
    <3>2. row[i] = Absent /\ tx' = tx
      BY <1>2, <2>2 DEF Create
    <3>3. s \in NewStatuses(i) /\ d \in NewExpires(i) /\ auto \in NewRenewals(i)
      BY <2>1, <2>2
    <3>4. QED
      BY <3>1, <3>2, <3>3, Zenon DEF RowStep
  <2>3. CASE i # j
    BY <2>1, <2>3 DEF RowStep, TypeOK
  <2>4. QED
    BY <2>2, <2>3
<1>3. ASSUME NEW j \in Items, Delete(j) PROVE RowStep(i)
  BY <1>3 DEF Delete, RowStep, TypeOK
<1>4. CASE row' = row
  BY <1>4 DEF RowStep
<1>5. ASSUME NEW r \in Requests, RequestStep(r)
      PROVE  row' = row \/ (Publish(r) /\ CommitRequest(r))
  BY <1>5 DEF RequestStep, Cancel, CancelPackage, Renew, SetNeedsReorder, ManualUpdate,
              ManualUnassign, UpdatePackage, Load, CommitRequest, RequestFails
<1>6. ASSUME NEW s \in Syncs, SyncStep(s)
      PROVE  row' = row \/ Publish(s)
  BY <1>6 DEF SyncStep, SyncLoad, SyncLoadAgain, SyncCreate, SyncFlush, SyncCommit,
              SyncFails
<1>7. ASSUME JobStep
      PROVE  row' = row \/ Publish(Job)
  BY <1>7 DEF JobStep, JobExpire, JobCancel, JobCommit, JobFails
<1>8. Tick \/ UNCHANGED vars => row' = row
  BY DEF Tick, vars
<1>9. \/ row' = row
      \/ \E t \in Txs : Publish(t) /\ (t \in Requests => CommitRequest(t))
      \/ \E j \in Items : Create(j) \/ Delete(j)
  BY <1>0, <1>5, <1>6, <1>7, <1>8, TxsDistinct DEF Next, Job
<1>10. QED
  BY <1>1, <1>2, <1>3, <1>4, <1>9

-----------------------------------------------------------------------------
(* The inductive invariants *)

\* The history of outrun cancellations only grows.
LEMMA OutrunGrows ==
    ASSUME [Next]_vars
    PROVE  outrun \subseteq outrun'
<1>1. ASSUME NEW r \in Requests, RequestStep(r) PROVE outrun \subseteq outrun'
  BY <1>1 DEF RequestStep, Cancel, CancelPackage, Renew, SetNeedsReorder, ManualUpdate,
              ManualUnassign, UpdatePackage, Load, CommitRequest, RequestFails
<1>2. ASSUME NEW s \in Syncs, SyncStep(s) PROVE outrun' = outrun
  BY <1>2 DEF SyncStep, SyncLoad, SyncLoadAgain, SyncCreate, SyncFlush, SyncCommit, SyncFails
<1>3. JobStep \/ Tick \/ UNCHANGED vars => outrun' = outrun
  BY DEF JobStep, JobExpire, JobCancel, JobCommit, JobFails, Tick, vars
<1>4. (\E i \in Items : Create(i) \/ Delete(i)) => outrun' = outrun
  BY DEF Create, Delete
<1>5. QED
  BY <1>1, <1>2, <1>3, <1>4 DEF Next

\* No open transaction is about to clear an expiry date, and one that is about
\* to mark a row as expired has read a row with such a date.
DatesSafe ==
    \A t \in Txs, i \in Items \ Packages :
        /\ tx[t].patch[i].expires # NoDate
        /\ tx[t].patch[i].status = "expired"
             => row[i] # Absent /\ (row[i] # Deleted => row[i].expires # NoDate)

\* Only an open renewal is about to make a package or an organisation licence active.
RevivalSafe ==
    \A t \in Txs, i \in Packages \cup OrgLicenses :
        tx[t].patch[i].status = "active" => t \in Requests /\ tx[t].step = "renew"

\* The columns of a cancellation are written by requests alone, and an open request
\* leaves a pair, unless the row's cancellation has been outrun.
PairsSafe ==
    /\ \A t \in Txs \ Requests, i \in Items :
          tx[t].patch[i].cancelledAt = Keep /\ tx[t].patch[i].effective = Keep
    /\ \A r \in Requests, i \in Items \ outrun : PairPatch(i, tx[r].patch[i])

\* The columns of a row after a transaction's write.
LEMMA WrittenColumns ==
    ASSUME NEW t \in Txs, NEW i \in Items
    PROVE  LET p == tx[t].patch[i]
               r == IF row[i] = Absent THEN BlankRow ELSE row[i]
               w == Written(t, i)
           IN  /\ w.status = IF p.status = Keep THEN r.status ELSE p.status
               /\ w.expires = IF p.expires = Keep THEN r.expires ELSE p.expires
               /\ w.cancelledAt = IF p.cancelledAt = Keep THEN r.cancelledAt
                                                       ELSE p.cancelledAt
               /\ w.effective = IF p.effective = Keep THEN r.effective ELSE p.effective
BY DEF Written, Apply

\* DatesSafe is preserved by every step.
LEMMA DatesInductive ==
    ASSUME TypeOK, DatesSafe, [Next]_vars
    PROVE  DatesSafe'
<1>0. Keep # NoDate /\ Keep # "expired" /\ Absent # Deleted
  BY MarkersDistinct DEF Status
<1> SUFFICES ASSUME NEW i \in Items \ Packages
             PROVE  \A t \in Txs :
                       /\ tx'[t].patch[i].expires # NoDate
                       /\ tx'[t].patch[i].status = "expired"
                           => row'[i] # Absent
                              /\ (row'[i] # Deleted => row'[i].expires # NoDate)
  BY DEF DatesSafe
<1>1. RowStep(i) /\ \A t \in Txs : PatchStep(t, i)
  BY NextRow, NextPatch
<1>2. \A t \in Txs : /\ tx[t].patch[i].expires # NoDate
                     /\ tx[t].patch[i].status = "expired"
                         => row[i] # Absent /\ (row[i] # Deleted => row[i].expires # NoDate)
  BY DEF DatesSafe
\* A row with a date keeps one.
<1>4. Live(i) /\ row[i].expires # NoDate
        => row'[i] # Absent /\ (row'[i] # Deleted => row'[i].expires # NoDate)
  <2>1. ASSUME Live(i), row[i].expires # NoDate,
               NEW t \in Txs, row'[i] = Written(t, i)
        PROVE  row'[i] # Absent /\ row'[i].expires # NoDate
    <3>1. row'[i] \in Row
      BY <2>1, WrittenType DEF Live
    <3>2. row'[i].expires # NoDate
      BY <1>2, <2>1, WrittenColumns DEF Live
    <3>3. QED
      BY <3>1, <3>2, MarkersDistinct
  <2>2. QED
    BY <1>0, <1>1, <2>1 DEF RowStep, Live
<1>6. ASSUME NEW t \in Txs
      PROVE  /\ tx'[t].patch[i].expires # NoDate
             /\ tx'[t].patch[i].status = "expired"
                  => row'[i] # Absent /\ (row'[i] # Deleted => row'[i].expires # NoDate)
  <2>1. CASE tx'[t].patch[i] = tx[t].patch[i]
    <3>1. row[i] = Deleted => row'[i] = Deleted
      BY <1>0, <1>1 DEF RowStep
    <3>2. QED
      BY <1>0, <1>2, <1>4, <2>1, <3>1 DEF Live
  <2>2. CASE tx'[t].patch[i] = NoPatch
    BY <1>0, <2>2 DEF NoPatch
  <2>3. CASE Fresh(t, i)
    BY <2>3 DEF Fresh, Live
  <2>4. CASE Restated(t, i)
    <3>1. PICK status \in ProviderStatuses :
              tx'[t].patch[i] = [tx[t].patch[i] EXCEPT !.status = status]
      BY <2>4 DEF Restated
    <3>2. tx[t].patch[i] \in Patch /\ status # "expired"
      BY BoundsOK DEF TypeOK
    <3>3. tx'[t].patch[i].expires # NoDate /\ tx'[t].patch[i].status # "expired"
      BY <1>2, <3>1, <3>2 DEF Patch
    <3>4. QED
      BY <3>3
  <2>5. QED
    BY <1>1, <2>1, <2>2, <2>3, <2>4 DEF PatchStep
<1>7. QED
  BY <1>6

\* A row that a step marks as expired has an expiry date: whoever marks it has read one,
\* and nobody clears it.
LEMMA ExpiryStep ==
    ASSUME TypeOK, DatesSafe, [Next]_vars, NEW i \in Items \ Packages,
           Live(i), row[i].status # "expired",
           row'[i] # Deleted, row'[i].status = "expired"
    PROVE  row'[i].expires # NoDate
<1>0. Keep # "expired"
  BY MarkersDistinct DEF Status
<1>1. RowStep(i)
  BY NextRow
<1>2. PICK t \in Txs : row'[i] = Written(t, i)
  BY <1>1 DEF RowStep, Live
<1>3. tx[t].patch[i].status = "expired"
  BY <1>0, <1>2, WrittenColumns DEF Live
<1>4. row[i].expires # NoDate /\ tx[t].patch[i].expires # NoDate
  BY <1>3 DEF DatesSafe, Live
<1>5. QED
  BY <1>2, <1>4, WrittenColumns DEF Live

\* RevivalSafe is preserved by every step.
LEMMA RevivalInductive ==
    ASSUME TypeOK, RevivalSafe, [Next]_vars
    PROVE  RevivalSafe'
<1>1. Keep # "active"
  BY MarkersDistinct DEF Status
<1>2. Packages \cup OrgLicenses \subseteq Items
  BY DEF Items
<1>3. SUFFICES ASSUME NEW t \in Txs, NEW i \in Packages \cup OrgLicenses,
                      tx'[t].patch[i].status = "active"
               PROVE  t \in Requests /\ tx'[t].step = "renew"
  BY DEF RevivalSafe
<1>4. PatchStep(t, i)
  BY <1>2, NextPatch
<1>5. ~Restated(t, i)
  BY KindsDisjoint DEF Restated, Licenses
<1>6. QED
  BY <1>1, <1>3, <1>4, <1>5 DEF PatchStep, Fresh, RevivalSafe, NoPatch

\* A package or organisation licence that a step brings back is written by an
\* open renewal, which ends with that step.
LEMMA RevivalStep ==
    ASSUME TypeOK, RevivalSafe, [Next]_vars, NEW i \in Packages \cup OrgLicenses,
           Live(i), row[i].status \in {"expired", "cancelled"},
           row'[i] # Deleted, row'[i].status = "active"
    PROVE  \E r \in Requests : tx[r].step = "renew" /\ tx'[r].step = "idle"
<1>1. RowStep(i)
  BY NextRow DEF Items
<1>2. PICK t \in Txs : row'[i] = Written(t, i) /\ tx' = [tx EXCEPT ![t] = Idle]
  BY <1>1 DEF RowStep, Live
<1>3. tx[t].patch[i].status = "active"
  BY <1>2, WrittenColumns DEF Live, Items
<1>4. t \in Requests /\ tx[t].step = "renew"
  BY <1>3 DEF RevivalSafe
<1>5. tx'[t].step = "idle"
  BY <1>2 DEF TypeOK, Idle
<1>6. QED
  BY <1>4, <1>5

\* The pair of a row after a request's write.
LEMMA WrittenPair ==
    ASSUME TypeOK, NEW r \in Requests, NEW i \in Items, row[i] # Deleted,
           PairPatch(i, tx[r].patch[i]),
           Live(i) => Paired(row[i])
    PROVE  /\ Paired(Written(r, i))
           /\ Written(r, i).effective = NoDate /\ Live(i) /\ row[i].effective # NoDate
                => tx[r].patch[i].effective = NoDate
<1> DEFINE p == tx[r].patch[i]
           x == IF row[i] = Absent THEN BlankRow ELSE row[i]
           w == Written(r, i)
<1>0. r \in Txs /\ Keep # NoDate /\ TRUE # Keep /\ FALSE # Keep
  BY MarkersDistinct DEF Txs
<1>1. /\ w.cancelledAt = IF p.cancelledAt = Keep THEN x.cancelledAt ELSE p.cancelledAt
      /\ w.effective = IF p.effective = Keep THEN x.effective ELSE p.effective
  BY <1>0, WrittenColumns
<1>2. Paired(x)
  BY DEF Paired, BlankRow, Live
<1>3. Live(i) => x = row[i]
  BY DEF Live
<1>4. PairPatch(i, p)
  OBVIOUS
<1>5. p.cancelledAt = TRUE /\ p.effective = Keep /\ row[i] # Absent /\ row[i].effective # NoDate
          => x.effective # NoDate
  OBVIOUS
<1> HIDE DEF p, w, x
<1>6. Paired(w)
  <2>1. CASE p.cancelledAt = Keep /\ p.effective = Keep
    BY <1>1, <1>2, <2>1 DEF Paired
  <2>2. CASE p.cancelledAt = TRUE /\ p.effective \notin {Keep, NoDate}
    <3>1. w.cancelledAt = TRUE /\ w.effective # NoDate
      BY <1>0, <1>1, <2>2
    <3>2. QED
      BY <3>1 DEF Paired
  <2>3. CASE p.cancelledAt = FALSE /\ p.effective = NoDate
    <3>1. w.cancelledAt = FALSE /\ w.effective = NoDate
      BY <1>0, <1>1, <2>3
    <3>2. QED
      BY <3>1 DEF Paired
  <2>4. CASE /\ p.cancelledAt = TRUE /\ p.effective = Keep
             /\ row[i] # Absent /\ row[i].effective # NoDate
    <3>1. w.cancelledAt = TRUE /\ w.effective # NoDate
      BY <1>0, <1>1, <1>5, <2>4
    <3>2. QED
      BY <3>1 DEF Paired
  <2>5. QED
    BY <1>4, <2>1, <2>2, <2>3, <2>4 DEF PairPatch
<1>7. w.effective = NoDate /\ Live(i) /\ row[i].effective # NoDate => p.effective = NoDate
  BY <1>1, <1>3
<1>8. QED
  BY <1>6, <1>7 DEF w, p

\* PairsSafe is preserved by every step, for any number of requests.
LEMMA PairsInductive ==
    ASSUME TypeOK, PairsSafe, CancellationPaired, [Next]_vars
    PROVE  PairsSafe' /\ CancellationPaired'
<1>0. /\ Requests \subseteq Txs /\ Syncs \cap Requests = {} /\ Absent # Deleted
      /\ Keep # NoDate
  BY MarkersDistinct, TxsDistinct DEF Txs
<1>1. ASSUME NEW t \in Txs \ Requests, NEW i \in Items
      PROVE  tx'[t].patch[i].cancelledAt = Keep /\ tx'[t].patch[i].effective = Keep
  <2>1. tx[t].patch[i].cancelledAt = Keep /\ tx[t].patch[i].effective = Keep
    BY <1>1 DEF PairsSafe
  <2>2. PatchStep(t, i) /\ t \notin Requests
    BY <1>1, NextPatch
  <2>3. CASE Restated(t, i)
    <3>1. PICK status \in ProviderStatuses :
              tx'[t].patch[i] = [tx[t].patch[i] EXCEPT !.status = status]
      BY <2>3 DEF Restated
    <3>2. tx[t].patch[i] \in Patch
      BY DEF TypeOK
    <3>3. QED
      BY <2>1, <3>1, <3>2 DEF Patch
  <2>4. QED
    BY <2>1, <2>2, <2>3 DEF PatchStep, Fresh, NoPatch
<1>2. ASSUME NEW i \in Items \ outrun', Live(i)
      PROVE  Paired(row[i])
  BY <1>2, OutrunGrows DEF CancellationPaired, Paired
<1>3. ASSUME NEW t \in Requests, NEW i \in Items \ outrun', row[i] # Deleted,
             row'[i] = Written(t, i)
      PROVE  /\ Paired(row'[i])
             /\ row'[i].effective = NoDate /\ Live(i) /\ row[i].effective # NoDate
                  => tx[t].patch[i].effective = NoDate
  <2>1. PairPatch(i, tx[t].patch[i])
    BY OutrunGrows DEF PairsSafe
  <2>2. QED
    BY <1>2, <1>3, <2>1, WrittenPair
<1>4. ASSUME NEW t \in Txs \ Requests, NEW i \in Items, row[i] # Deleted,
             row'[i] = Written(t, i)
      PROVE  LET x == IF row[i] = Absent THEN BlankRow ELSE row[i]
             IN  row'[i].cancelledAt = x.cancelledAt /\ row'[i].effective = x.effective
  <2>1. tx[t].patch[i].cancelledAt = Keep /\ tx[t].patch[i].effective = Keep
    BY DEF PairsSafe
  <2>2. QED
    BY <1>4, <2>1, WrittenColumns
<1>5. ASSUME NEW i \in Items \ outrun', Live(i)'
      PROVE  Paired(row'[i])
  <2>1. CASE row'[i] = row[i]
    BY <1>2, <1>5, <2>1 DEF Live
  <2>2. ASSUME NEW s, NEW d, NEW auto,
               row'[i] = [BlankRow EXCEPT !.status = s, !.expires = d, !.autoRenew = auto]
        PROVE  Paired(row'[i])
    BY <2>2 DEF Paired, BlankRow
  <2>3. ASSUME NEW t \in Txs \ Requests, row[i] # Deleted, row'[i] = Written(t, i)
        PROVE  Paired(row'[i])
    <3>1. CASE row[i] = Absent
      BY <1>4, <2>3, <3>1 DEF Paired, BlankRow
    <3>2. CASE row[i] # Absent
      <4>1. Paired(row[i])
        BY <1>2, <2>3, <3>2 DEF Live
      <4>2. row'[i].cancelledAt = row[i].cancelledAt /\ row'[i].effective = row[i].effective
        BY <1>4, <2>3, <3>2
      <4>3. QED
        BY <4>1, <4>2 DEF Paired
    <3>3. QED
      BY <3>1, <3>2
  <2>4. RowStep(i) /\ row'[i] # Deleted
    BY <1>5, NextRow DEF Live
  <2>5. \/ row'[i] = row[i]
        \/ \E s, d, auto :
              row'[i] = [BlankRow EXCEPT !.status = s, !.expires = d, !.autoRenew = auto]
        \/ \E t \in Txs : row[i] # Deleted /\ row'[i] = Written(t, i)
    BY <2>4, Zenon DEF RowStep
  <2>6. CASE \E t \in Txs : row[i] # Deleted /\ row'[i] = Written(t, i)
    BY <1>3, <2>3, <2>6
  <2>7. QED
    BY <2>1, <2>2, <2>5, <2>6
\* A cancellation for the recorded date finds that date, or the row has been outrun.
<1>6. ASSUME NEW r \in Requests, NEW i \in Items \ outrun',
             Repeats(r, i), tx'[r].patch[i] = tx[r].patch[i],
             row[i] # Absent, row[i] # Deleted => row[i].effective # NoDate
      PROVE  row'[i] # Absent /\ (row'[i] # Deleted => row'[i].effective # NoDate)
  <2>1. ASSUME NEW t \in Txs, i \in tx[t].touched, row[i] # Deleted, row'[i] = Written(t, i),
               tx' = [tx EXCEPT ![t] = Idle],
               t \in Requests => outrun' = outrun \cup Outruns(t)
        PROVE  row'[i] # Absent /\ row'[i].effective # NoDate
    <3>1. row'[i] # Absent
      BY <2>1, WrittenType, MarkersDistinct
    <3>2. CASE t \notin Requests
      BY <1>4, <1>6, <2>1, <3>1, <3>2
    <3>3. CASE t \in Requests
      <4>1. t # r
        <5>1. t = r => tx'[r].patch[i] = NoPatch
          BY <2>1 DEF TypeOK, Idle
        <5>2. tx[r].patch[i].cancelledAt = TRUE
          BY <1>6 DEF Repeats
        <5>3. NoPatch.cancelledAt # TRUE
          BY MarkersDistinct DEF NoPatch
        <5>4. QED
          BY <1>6, <5>1, <5>2, <5>3
      <4>2. tx[t].patch[i].effective # NoDate
        BY <1>6, <2>1, <3>3, <4>1 DEF Outruns
      <4>3. QED
        BY <1>3, <1>6, <2>1, <3>1, <3>3, <4>2 DEF Live
    <3>4. QED
      BY <3>2, <3>3
  <2>2. RowStep(i)
    BY NextRow
  <2>3. QED
    BY <1>0, <1>6, <2>1, <2>2 DEF RowStep
<1>7. ASSUME NEW r \in Requests, NEW i \in Items \ outrun'
      PROVE  PairPatch(i, tx[r].patch[i])'
  <2>1. PatchStep(r, i)
    BY <1>0, <1>7, NextPatch
  <2>2. CASE tx'[r].patch[i] = NoPatch
    BY <2>2 DEF PairPatch, NoPatch
  <2>3. CASE Fresh(r, i)
    <3>1. PairPatch(i, tx'[r].patch[i]) /\ row' = row
      BY <1>2, <2>3 DEF Fresh
    <3>2. QED
      BY <3>1 DEF PairPatch
  <2>4. CASE tx'[r].patch[i] = tx[r].patch[i]
    <3>1. PairPatch(i, tx[r].patch[i])
      BY OutrunGrows DEF PairsSafe
    <3>2. QED
      BY <1>6, <2>4, <3>1 DEF PairPatch, Repeats
  <2>5. QED
    BY <1>0, <2>1, <2>2, <2>3, <2>4 DEF PatchStep, Restated
<1>8. CancellationPaired'
  BY <1>5 DEF CancellationPaired, Paired
<1>9. PairsSafe'
  BY <1>1, <1>7 DEF PairsSafe
<1>10. QED
  BY <1>8, <1>9

-----------------------------------------------------------------------------
(* The theorems *)

\* The initial state has no rows and no open patches.
LEMMA InitSafe ==
    Init => TypeOK /\ DatesSafe /\ RevivalSafe /\ PairsSafe /\ CancellationPaired
<1> SUFFICES ASSUME Init
             PROVE  TypeOK /\ DatesSafe /\ RevivalSafe /\ PairsSafe /\ CancellationPaired
  OBVIOUS
<1>1. TypeOK
  BY IdleType, BoundsOK DEF Init, TypeOK, Day, TxRec
<1>2. \A t \in Txs, i \in Items : tx[t].patch[i] = NoPatch /\ row[i] = Absent
  BY DEF Init, Idle
<1>3. Keep \notin {NoDate, "expired", "active"}
  BY MarkersDistinct DEF Status
<1>4. DatesSafe /\ RevivalSafe
  BY <1>2, <1>3 DEF DatesSafe, RevivalSafe, NoPatch, Items
<1>5. CancellationPaired
  <2>1. \A i \in Items : ~Live(i)
    BY DEF Init, Live
  <2>2. QED
    BY <2>1, Zenon DEF CancellationPaired
<1>6. PairsSafe
  BY <1>2 DEF PairsSafe, PairPatch, NoPatch, Txs
<1>7. QED
  BY <1>1, <1>4, <1>5, <1>6

\* Whatever transactions overlap, the tables and the open transactions are
\* well-typed: no handler, sync or job computes a value outside its column.
THEOREM TypeCorrect == Spec => []TypeOK
<1>1. Init => TypeOK
  BY InitSafe
<1>2. TypeOK /\ [Next]_vars => TypeOK'
  BY TypeInductive
<1>3. QED
  BY <1>1, <1>2, PTL DEF Spec

\* No licence and no organisation licence becomes expired without an expiry date,
\* however the job's read-compute-write overlaps edits and syncs.
THEOREM ExpiresOnlyWithDate == Spec => ExpiresWithDate
<1> DEFINE IInv == TypeOK /\ DatesSafe
           Expires(i) == /\ Live(i) /\ row[i].status # "expired"
                         /\ row'[i] # Deleted /\ row'[i].status = "expired"
           A == \A i \in Items \ Packages : Expires(i) => row'[i].expires # NoDate
<1>1. Init => IInv
  BY InitSafe
<1>2. IInv /\ [Next]_vars => IInv'
  BY TypeInductive, DatesInductive
<1>3. IInv /\ [Next]_vars => [A]_vars
  BY ExpiryStep
<1>4. ExpiresWithDate <=> [][A]_vars
  BY DEF ExpiresWithDate
<1> HIDE DEF IInv, A
<1>5. QED
  BY <1>1, <1>2, <1>3, <1>4, PTL DEF Spec

\* No interleaving of edits, syncs and the job brings a package or an
\* organisation licence back: only a renewal that clears the cancellation does.
THEOREM RevivalOnlyByRenewal == Spec => OnlyRenewalRevives
<1> DEFINE IInv == TypeOK /\ RevivalSafe
           Revived(i) == /\ Live(i) /\ row[i].status \in {"expired", "cancelled"}
                         /\ row'[i] # Deleted /\ row'[i].status = "active"
           ByRenewal == \E r \in Requests : tx[r].step = "renew" /\ tx'[r].step = "idle"
           A == \A i \in Packages \cup OrgLicenses : Revived(i) => ByRenewal
<1>1. Init => IInv
  BY InitSafe
<1>2. IInv /\ [Next]_vars => IInv'
  BY TypeInductive, RevivalInductive
<1>3. IInv /\ [Next]_vars => [A]_vars
  BY RevivalStep
<1>4. OnlyRenewalRevives <=> [][A]_vars
  BY DEF OnlyRenewalRevives
<1> HIDE DEF IInv, A
<1>5. QED
  BY <1>1, <1>2, <1>3, <1>4, PTL DEF Spec

\* However many requests, syncs and runs of the job overlap, a cancellation is stored
\* exactly with its effective date, except on a row where a renewal has cleared the
\* cancellation while another for the same date was under way.
THEOREM CancellationsPaired == Spec => []CancellationPaired
<1> DEFINE IInv == TypeOK /\ PairsSafe /\ CancellationPaired
<1>1. Init => IInv
  BY InitSafe
<1>2. IInv /\ [Next]_vars => IInv'
  BY TypeInductive, PairsInductive
<1>3. IInv => CancellationPaired
  OBVIOUS
<1> HIDE DEF IInv
<1>4. QED
  BY <1>1, <1>2, <1>3, PTL DEF Spec

=============================================================================
