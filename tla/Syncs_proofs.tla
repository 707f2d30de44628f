---------------------------- MODULE Syncs_proofs ------------------------------
(***************************************************************************)
(* Proofs about what is synchronised from outside: the runs over the       *)
(* providers (ProviderSync), the pages that a provider's client reads      *)
(* (ProviderFetch) and the employees of the HRIS (Directory).              *)
(***************************************************************************)
EXTENDS ProviderSync, ProviderFetch, Directory, Sums_proofs

-----------------------------------------------------------------------------
(***************************************************************************)
(* Proofs about ProviderSync for every set of providers, members, syncs    *)
(* and removals: the state is well typed, and every member that a sync was *)
(* credited with has a licence, while no provider is left in progress.     *)
(***************************************************************************)

-----------------------------------------------------------------------------
(* What the proofs know of the runs and the removals *)

\* A run in work has the provider at the head of its queue in progress, and no other.
Working(run) == run.at \in {"fetch", "write", "flush"}

Marked(run) ==
    /\ run.at \in {"fetch", "write", "flush"} => run.queue # <<>>
    /\ \A p \in SyncedProviders :
          run.result[p] = "in_progress" =>
              Working(run) /\ run.queue # <<>> /\ p = Head(run.queue)

\* What a run is credited with it has written; what the provider listed it has written or
\* has yet to write.
Credible(run) ==
    /\ run.credit \subseteq run.written
    /\ run.listing \subseteq run.toWrite \cup run.written
    /\ run.at = "flush" => run.current \in run.toWrite

RunTyped(run) == run \in SyncRunRow /\ Marked(run) /\ Credible(run)

\* What a removal deletes, the provider has agreed to remove.
RemovalTyped(rem) ==
    /\ rem \in RemovalRow
    /\ rem.deleted \subseteq rem.agreed
    /\ rem.at = "delete" => rem.current \in rem.agreed

Runs == syncRun \in [SyncRuns -> SyncRunRow] /\ \A s \in SyncRuns : RunTyped(syncRun[s])
RemovalsOK ==
    removal \in [Removals -> RemovalRow] /\ \A q \in Removals : RemovalTyped(removal[q])
SeatRows == team \subseteq TeamSeats /\ stored \subseteq TeamSeats /\ credited \subseteq TeamSeats
RunOutcomes == outcome \in [SyncedProviders -> {"none", "success", "failed"}]

\* The inductive invariant.
SyncInv == Runs /\ RemovalsOK /\ SeatRows /\ RunOutcomes /\ credited \subseteq stored

\* It implies the type invariant and the property.
LEMMA InvImplies == SyncInv => ProviderSyncTypeOK /\ SyncedMembersAreStored
BY DEF SyncInv, Runs, RemovalsOK, SeatRows, RunOutcomes, ProviderSyncTypeOK, SyncedMembersAreStored

\* The records of what is idle are well typed.
LEMMA IdleRunTyped == RunTyped(IdleRun)
<1>1. <<>> \in Seq(SyncedProviders)
    OBVIOUS
<1>2. IdleRun \in SyncRunRow
    BY <1>1 DEF IdleRun, SyncRunRow
<1> QED BY <1>2 DEF IdleRun, RunTyped, Marked, Credible, Working

LEMMA IdleRemovalTyped == RemovalTyped(IdleRemoval)
BY DEF IdleRemoval, RemovalRow, RemovalTyped

\* A run that becomes a well-typed one keeps the runs well typed.
LEMMA RunBecomes ==
    ASSUME Runs, NEW s \in SyncRuns, NEW run, RunTyped(run),
           syncRun' = [syncRun EXCEPT ![s] = run]
    PROVE  Runs'
BY DEF Runs, RunTyped

LEMMA RemovalBecomes ==
    ASSUME RemovalsOK, NEW q \in Removals, NEW rem, RemovalTyped(rem),
           removal' = [removal EXCEPT ![q] = rem]
    PROVE  RemovalsOK'
BY DEF RemovalsOK, RemovalTyped

\* Taking seats from the listings and the credits of the runs keeps them well typed.
LEMMA UncreditTyped ==
    ASSUME Runs, NEW ks, syncRun' = Uncredit(syncRun, ks)
    PROVE  Runs'
<1>1. ASSUME NEW s \in SyncRuns PROVE RunTyped(syncRun'[s])
    <2> DEFINE run == syncRun[s]
    <2>1. RunTyped(run)
        BY DEF Runs
    <2>2. syncRun'[s] = [run EXCEPT !.listing = @ \ ks, !.credit = @ \ ks]
        BY DEF Uncredit
    <2> HIDE DEF run
    <2>3. [run EXCEPT !.listing = @ \ ks, !.credit = @ \ ks] \in SyncRunRow
        BY <2>1 DEF RunTyped, SyncRunRow
    <2>4. /\ syncRun'[s].at = run.at /\ syncRun'[s].queue = run.queue
          /\ syncRun'[s].result = run.result /\ syncRun'[s].written = run.written
          /\ syncRun'[s].toWrite = run.toWrite /\ syncRun'[s].current = run.current
          /\ syncRun'[s].listing = run.listing \ ks /\ syncRun'[s].credit = run.credit \ ks
        BY <2>1, <2>2 DEF RunTyped, SyncRunRow
    <2> QED BY <2>1, <2>2, <2>3, <2>4 DEF RunTyped, Marked, Credible, Working
<1>2. syncRun' \in [SyncRuns -> SyncRunRow]
    BY <1>1 DEF Uncredit, RunTyped
<1> QED BY <1>1, <1>2 DEF Runs

\* The queue of a run over all providers, which come in some order.
LEMMA OrdersAreQueues ==
    ASSUME NEW ps \in SetToSeqs(SyncedProviders)
    PROVE  ps \in Seq(SyncedProviders)
<1>1. Cardinality(SyncedProviders) \in Nat
    BY SyncAssumptions, FS_CardinalityType
<1>2. ps \in [1 .. Cardinality(SyncedProviders) -> SyncedProviders]
    BY DEF SetToSeqs
<1> QED BY <1>1, <1>2

-----------------------------------------------------------------------------
(* The steps of a run *)

LEMMA RunTypedNow ==
    ASSUME SyncInv, NEW s \in SyncRuns
    PROVE  RunTyped(syncRun[s]) /\ syncRun[s] \in SyncRunRow
BY DEF SyncInv, Runs, RunTyped

\* A run begins with a queue of providers and no results.
LEMMA BeginRunTyped ==
    ASSUME SyncInv, NEW s \in SyncRuns, BeginSyncRun(s)
    PROVE  Runs'
<1>1. ASSUME NEW scope \in {"one", "all"}, NEW ps \in Seq(SyncedProviders)
      PROVE  RunTyped([IdleRun EXCEPT !.at = "next", !.scope = scope, !.queue = ps])
    <2> DEFINE run == [IdleRun EXCEPT !.at = "next", !.scope = scope, !.queue = ps]
    <2>1. IdleRun \in SyncRunRow
        BY IdleRunTyped DEF RunTyped
    <2>2. /\ run \in SyncRunRow /\ run.at = "next"
          /\ run.result = IdleRun.result /\ run.credit = IdleRun.credit
          /\ run.written = IdleRun.written /\ run.listing = IdleRun.listing
        BY <2>1 DEF SyncRunRow
    <2>3. /\ \A p \in SyncedProviders : IdleRun.result[p] = "none"
          /\ IdleRun.credit = {} /\ IdleRun.listing = {}
        BY DEF IdleRun
    <2> HIDE DEF run
    <2>4. RunTyped(run)
        BY <2>2, <2>3 DEF RunTyped, Marked, Credible
    <2> QED BY <2>4 DEF run
<1>2. CASE \E p \in SyncedProviders :
               syncRun' = [syncRun EXCEPT ![s] = [IdleRun EXCEPT !.at = "next", !.scope = "one",
                                                                 !.queue = <<p>>]]
    <2>1. PICK p \in SyncedProviders :
              syncRun' = [syncRun EXCEPT ![s] = [IdleRun EXCEPT !.at = "next", !.scope = "one",
                                                                !.queue = <<p>>]]
        BY <1>2
    <2>2. <<p>> \in Seq(SyncedProviders)
        OBVIOUS
    <2>3. RunTyped([IdleRun EXCEPT !.at = "next", !.scope = "one", !.queue = <<p>>])
        BY <1>1, <2>2
    <2> QED BY <2>1, <2>3, RunBecomes DEF SyncInv
<1>3. CASE \E ps \in SetToSeqs(SyncedProviders) :
               syncRun' = [syncRun EXCEPT ![s] = [IdleRun EXCEPT !.at = "next", !.scope = "all",
                                                                 !.queue = ps]]
    <2>1. PICK ps \in SetToSeqs(SyncedProviders) :
              syncRun' = [syncRun EXCEPT ![s] = [IdleRun EXCEPT !.at = "next", !.scope = "all",
                                                                !.queue = ps]]
        BY <1>3
    <2>2. RunTyped([IdleRun EXCEPT !.at = "next", !.scope = "all", !.queue = ps])
        BY <1>1, OrdersAreQueues
    <2> QED BY <2>1, <2>2, RunBecomes DEF SyncInv
<1> QED BY <1>2, <1>3 DEF BeginSyncRun

\* The mark goes to the head of the queue.
LEMMA MarkTyped ==
    ASSUME SyncInv, NEW s \in SyncRuns, MarkInProgress(s)
    PROVE  Runs'
<1> DEFINE run  == syncRun[s]
           p    == Head(run.queue)
           next == [run EXCEPT !.at = "fetch", !.result[p] = "in_progress"]
<1>1. RunTyped(run) /\ run \in SyncRunRow
    BY RunTypedNow
<1>2. run.at = "next" /\ run.queue # <<>> /\ syncRun' = [syncRun EXCEPT ![s] = next]
    BY DEF MarkInProgress
<1> HIDE DEF run
<1>3. p \in SyncedProviders
    BY <1>1, <1>2 DEF SyncRunRow
<1>4. /\ next \in SyncRunRow /\ next.at = "fetch" /\ next.queue = run.queue
      /\ next.result = [run.result EXCEPT ![p] = "in_progress"]
      /\ next.credit = run.credit /\ next.written = run.written
      /\ next.listing = run.listing /\ next.toWrite = run.toWrite
    BY <1>1, <1>3 DEF SyncRunRow
<1>5. \A x \in SyncedProviders : next.result[x] = "in_progress" => x = p
    BY <1>1, <1>2, <1>3, <1>4 DEF RunTyped, Marked, SyncRunRow, Working
<1> HIDE DEF next
<1>6. RunTyped(next)
    BY <1>1, <1>2, <1>4, <1>5 DEF RunTyped, Marked, Credible, Working
<1> QED BY <1>2, <1>6, RunBecomes DEF SyncInv

\* The members of one provider are listed.
LEMMA FetchStepTyped ==
    ASSUME SyncInv, NEW s \in SyncRuns, FetchMembers(s)
    PROVE  Runs'
<1> DEFINE run   == syncRun[s]
           found == team \cap SeatsOf(Head(run.queue))
           next  == [run EXCEPT !.at = "write", !.toWrite = found, !.listing = found]
<1>1. RunTyped(run) /\ run \in SyncRunRow
    BY RunTypedNow
<1>2. run.at = "fetch" /\ syncRun' = [syncRun EXCEPT ![s] = next]
    BY DEF FetchMembers
<1>3. found \subseteq TeamSeats
    BY DEF SeatsOf
<1> HIDE DEF run, found
<1>4. /\ next \in SyncRunRow /\ next.at = "write" /\ next.queue = run.queue
      /\ next.result = run.result /\ next.credit = run.credit
      /\ next.written = run.written /\ next.listing = found /\ next.toWrite = found
    BY <1>1, <1>3 DEF SyncRunRow
<1> HIDE DEF next
<1>5. RunTyped(next)
    BY <1>1, <1>2, <1>4 DEF RunTyped, Marked, Credible, Working
<1> QED BY <1>2, <1>5, RunBecomes DEF SyncInv

\* One of the listed members is looked up.
LEMMA LookTyped ==
    ASSUME SyncInv, NEW s \in SyncRuns, LookForLicence(s)
    PROVE  Runs'
<1> DEFINE run == syncRun[s]
<1>1. RunTyped(run) /\ run \in SyncRunRow
    BY RunTypedNow
<1>2. PICK k \in run.toWrite :
          syncRun' = [syncRun EXCEPT ![s] =
                         [run EXCEPT !.at = "flush", !.current = k, !.seen = k \in stored]]
    BY DEF LookForLicence
<1>3. run.at = "write"
    BY DEF LookForLicence
<1> DEFINE known == k \in stored
           next  == [run EXCEPT !.at = "flush", !.current = k, !.seen = known]
<1> HIDE DEF run
<1>4. k \in TeamSeats /\ known \in BOOLEAN
    BY <1>1 DEF SyncRunRow
<1> HIDE DEF known
<1>5. /\ next \in SyncRunRow /\ next.at = "flush" /\ next.queue = run.queue
      /\ next.result = run.result /\ next.credit = run.credit /\ next.current = k
      /\ next.written = run.written /\ next.listing = run.listing
      /\ next.toWrite = run.toWrite
    BY <1>1, <1>4 DEF SyncRunRow
<1> HIDE DEF next
<1>6. RunTyped(next)
    BY <1>1, <1>3, <1>5 DEF RunTyped, Marked, Credible, Working
<1> QED BY <1>2, <1>6, RunBecomes DEF SyncInv, next, known

\* A licence is written, or all is rolled back.
LEMMA FlushTyped ==
    ASSUME SyncInv, NEW s \in SyncRuns, FlushLicence(s)
    PROVE  Runs'
<1> DEFINE run  == syncRun[s]
           k    == run.current
           next == [run EXCEPT !.at = "write", !.current = NoSeat, !.seen = FALSE,
                               !.toWrite = @ \ {k}, !.written = @ \cup {k}]
<1>1. RunTyped(run) /\ run \in SyncRunRow
    BY RunTypedNow
<1>2. /\ run.at = "flush"
      /\ \/ syncRun' = [syncRun EXCEPT ![s] = next]
         \/ syncRun' = [syncRun EXCEPT ![s] = IdleRun]
    BY DEF FlushLicence
<1> HIDE DEF run
<1>3. k \in run.toWrite /\ k \in TeamSeats
    BY <1>1, <1>2 DEF RunTyped, Credible, SyncRunRow
<1>4. /\ next \in SyncRunRow /\ next.at = "write" /\ next.queue = run.queue
      /\ next.result = run.result /\ next.credit = run.credit
      /\ next.written = run.written \cup {k} /\ next.listing = run.listing
      /\ next.toWrite = run.toWrite \ {k}
    BY <1>1, <1>3 DEF SyncRunRow
<1> HIDE DEF next
<1>5. RunTyped(next)
    BY <1>1, <1>2, <1>4 DEF RunTyped, Marked, Credible, Working
<1> QED BY <1>2, <1>5, IdleRunTyped, RunBecomes DEF SyncInv

\* A provider is dealt with, and its mark goes.
LEMMA ThroughTyped ==
    ASSUME NEW run, RunTyped(run), Working(run), NEW result \in {"success", "failed"}
    PROVE  /\ RunTyped(Through(run, result))
           /\ Through(run, result).at = "next"
           /\ Through(run, result).written = run.written
           /\ Through(run, result).credit = run.credit
<1> DEFINE next == Through(run, result)
           p    == Head(run.queue)
<1>1. run \in SyncRunRow /\ run.queue # <<>>
    BY DEF RunTyped, Marked, Working
<1>2. p \in SyncedProviders /\ Tail(run.queue) \in Seq(SyncedProviders)
    BY <1>1 DEF SyncRunRow
<1>3. /\ next \in SyncRunRow /\ next.at = "next"
      /\ next.result = [run.result EXCEPT ![p] = result] /\ next.credit = run.credit
      /\ next.written = run.written /\ next.listing = {} /\ next.toWrite = {}
    BY <1>1, <1>2 DEF Through, SyncRunRow
<1> HIDE DEF next
<1>4. \A x \in SyncedProviders : next.result[x] # "in_progress"
    BY <1>1, <1>2, <1>3 DEF RunTyped, Marked, SyncRunRow
<1>5. RunTyped(next)
    BY <1>3, <1>4 DEF RunTyped, Marked, Credible
<1> QED BY <1>3, <1>5 DEF next

\* The sync of a provider succeeds: what it listed has been written.
LEMMA SyncedTyped ==
    ASSUME SyncInv, NEW s \in SyncRuns, ProviderSynced(s)
    PROVE  Runs'
<1> DEFINE run   == syncRun[s]
           ended == Through(run, "success")
           next  == [ended EXCEPT !.credit = @ \cup run.listing]
<1>1. /\ RunTyped(run) /\ run.at = "write" /\ run.toWrite = {}
      /\ syncRun' = [syncRun EXCEPT ![s] = next]
    BY RunTypedNow DEF ProviderSynced
<1> HIDE DEF run
<1>2. RunTyped(ended) /\ ended.at = "next" /\ ended.written = run.written
      /\ ended.credit = run.credit
    BY <1>1, ThroughTyped DEF Working
<1>3. run.listing \subseteq run.written /\ run.listing \subseteq TeamSeats
    BY <1>1 DEF RunTyped, Credible, SyncRunRow
<1> HIDE DEF ended
<1>4. /\ next \in SyncRunRow /\ next.at = "next" /\ next.queue = ended.queue
      /\ next.result = ended.result /\ next.credit = ended.credit \cup run.listing
      /\ next.written = ended.written /\ next.listing = ended.listing
      /\ next.toWrite = ended.toWrite
    BY <1>2, <1>3 DEF RunTyped, SyncRunRow
<1> HIDE DEF next
<1>5. RunTyped(next)
    BY <1>2, <1>3, <1>4 DEF RunTyped, Marked, Credible, Working
<1> QED BY <1>1, <1>5, RunBecomes DEF SyncInv

-----------------------------------------------------------------------------
(* The steps of a removal *)

LEMMA RemovalTypedNow ==
    ASSUME SyncInv, NEW q \in Removals
    PROVE  RemovalTyped(removal[q]) /\ removal[q] \in RemovalRow
BY DEF SyncInv, RemovalsOK, RemovalTyped

\* A removal begins with licences, and nothing is agreed yet.
LEMMA BeginRemovalTyped ==
    ASSUME SyncInv, NEW q \in Removals, NEW ks \in SUBSET stored, BeginRemoval(q, ks)
    PROVE  RemovalsOK'
<1> DEFINE next == [IdleRemoval EXCEPT !.at = "ask", !.targets = ks]
<1>1. ks \subseteq TeamSeats /\ removal' = [removal EXCEPT ![q] = next]
    BY DEF BeginRemoval, SyncInv, SeatRows
<1>2. IdleRemoval \in RemovalRow /\ IdleRemoval.deleted = {}
    BY IdleRemovalTyped DEF RemovalTyped, IdleRemoval
<1>3. next \in RemovalRow /\ next.at = "ask" /\ next.deleted = {}
    BY <1>1, <1>2 DEF RemovalRow
<1> HIDE DEF next
<1>4. RemovalTyped(next)
    BY <1>3 DEF RemovalTyped
<1> QED BY <1>1, <1>4, RemovalBecomes DEF SyncInv

\* The provider answers: only what it has removed is taken for agreed.
LEMMA AskTyped ==
    ASSUME SyncInv, NEW q \in Removals, NEW k \in TeamSeats, NEW answer, AskProvider(q, k, answer)
    PROVE  RemovalsOK'
<1> DEFINE rem    == removal[q]
           kept   == [rem EXCEPT !.targets = @ \ {k}]
           agreed == [rem EXCEPT !.at = "delete", !.current = k, !.targets = @ \ {k},
                                 !.agreed = @ \cup {k}]
<1>1. RemovalTyped(rem) /\ rem \in RemovalRow
    BY RemovalTypedNow
<1>2. /\ rem.at = "ask"
      /\ \/ removal' = [removal EXCEPT ![q] = agreed]
         \/ removal' = [removal EXCEPT ![q] = kept]
    BY DEF AskProvider, Agreed
<1> HIDE DEF rem
<1>3. /\ kept \in RemovalRow /\ kept.at = rem.at /\ kept.deleted = rem.deleted
      /\ kept.agreed = rem.agreed
    BY <1>1 DEF RemovalRow
<1>4. /\ agreed \in RemovalRow /\ agreed.current = k /\ agreed.deleted = rem.deleted
      /\ agreed.agreed = rem.agreed \cup {k}
    BY <1>1 DEF RemovalRow
<1> HIDE DEF kept, agreed
<1>5. RemovalTyped(kept) /\ RemovalTyped(agreed)
    BY <1>1, <1>2, <1>3, <1>4 DEF RemovalTyped
<1> QED BY <1>2, <1>5, RemovalBecomes DEF SyncInv

\* The licence of an agreed removal is deleted.
LEMMA DeleteSeatsTyped ==
    ASSUME SyncInv, NEW q \in Removals, DeleteRemoved(q)
    PROVE  RemovalsOK'
<1> DEFINE rem  == removal[q]
           more == {rem.current} \cap stored
           next == [rem EXCEPT !.at = "ask", !.current = NoSeat, !.deleted = @ \cup more]
<1>1. RemovalTyped(rem) /\ rem \in RemovalRow
    BY RemovalTypedNow
<1>2. rem.at = "delete" /\ removal' = [removal EXCEPT ![q] = next]
    BY DEF DeleteRemoved
<1>3. more \subseteq TeamSeats /\ more \subseteq rem.agreed
    BY <1>1, <1>2 DEF SyncInv, SeatRows, RemovalTyped
<1> HIDE DEF rem, more
<1>4. /\ next \in RemovalRow /\ next.at = "ask" /\ next.deleted = rem.deleted \cup more
      /\ next.agreed = rem.agreed
    BY <1>1, <1>3 DEF RemovalRow
<1> HIDE DEF next
<1>5. RemovalTyped(next)
    BY <1>1, <1>3, <1>4 DEF RemovalTyped
<1> QED BY <1>2, <1>5, RemovalBecomes DEF SyncInv

-----------------------------------------------------------------------------
(* Every step *)

\* A commit brings the credited seats' licences, and no provider is left in progress.
LEMMA CommitRunKeeps ==
    ASSUME SyncInv, NEW s \in SyncRuns, CommitSyncRun(s)
    PROVE  Runs' /\ SeatRows' /\ RunOutcomes' /\ (credited \subseteq stored)'
<1> DEFINE run == syncRun[s]
<1>1. /\ run.at = "next" /\ run.queue = <<>> /\ stored' = stored \cup run.written
      /\ outcome' = [p \in SyncedProviders |->
                        IF HasProvider(s, p) THEN run.result[p] ELSE outcome[p]]
      /\ credited' = {k \in credited : run.result[k[1]] # "success"} \cup run.credit
      /\ syncRun' = [syncRun EXCEPT ![s] = IdleRun] /\ team' = team
    BY DEF CommitSyncRun
<1>2. RunTyped(run) /\ run \in SyncRunRow
    BY RunTypedNow
<1>3. Runs'
    BY <1>1, IdleRunTyped, RunBecomes DEF SyncInv
<1>4. SeatRows' /\ (credited \subseteq stored)'
    BY <1>1, <1>2 DEF SyncInv, SeatRows, RunTyped, Credible, SyncRunRow
<1>5. ASSUME NEW p \in SyncedProviders, HasProvider(s, p)
      PROVE  run.result[p] \in {"success", "failed"}
    BY <1>1, <1>2, <1>5 DEF HasProvider, RunTyped, Marked, Working, SyncRunRow
<1>6. RunOutcomes'
    BY <1>1, <1>5 DEF SyncInv, RunOutcomes
<1> QED BY <1>3, <1>4, <1>6

\* Seats that are given up or deleted lose their credit, whatever else happens to them.
LEMMA UncreditKeeps ==
    ASSUME SyncInv, NEW ks, syncRun' = Uncredit(syncRun, ks), credited' = credited \ ks,
           team' \subseteq team, stored' \subseteq stored, stored \ ks \subseteq stored',
           UNCHANGED outcome
    PROVE  Runs' /\ SeatRows' /\ RunOutcomes' /\ (credited \subseteq stored)'
BY UncreditTyped DEF SyncInv, SeatRows, RunOutcomes

\* One step keeps the invariant.
LEMMA ProviderSyncStep ==
    ASSUME SyncInv, [ProviderSyncNext]_providerSyncVars
    PROVE  SyncInv'
<1> DEFINE Rest == SeatRows' /\ RunOutcomes' /\ (credited \subseteq stored)'
<1>1. UNCHANGED <<team, stored, outcome, credited>> => Rest
    BY DEF SyncInv, SeatRows, RunOutcomes
<1>2. UNCHANGED syncRun => Runs'
    BY DEF SyncInv, Runs, RunTyped, Marked, Credible, Working
<1>3. UNCHANGED removal => RemovalsOK'
    BY DEF SyncInv, RemovalsOK, RemovalTyped
<1>4. CASE UNCHANGED providerSyncVars
    BY <1>1, <1>2, <1>3, <1>4 DEF providerSyncVars, SyncInv
<1>5. ASSUME NEW s \in SyncRuns, SyncRunNext(s) PROVE SyncInv'
    <2>1. UNCHANGED removal
        BY <1>5 DEF SyncRunNext, BeginSyncRun, MarkInProgress, FetchMembers, LookForLicence,
           FlushLicence, ProviderSynced, ProviderFails, CommitSyncRun, RollBackSyncRun
    <2>2. CASE CommitSyncRun(s)
        BY <1>3, <2>1, <2>2, CommitRunKeeps DEF SyncInv
    <2>3. CASE ~CommitSyncRun(s)
        <3>1. UNCHANGED <<team, stored, outcome, credited>>
            BY <1>5, <2>3 DEF SyncRunNext, BeginSyncRun, MarkInProgress, FetchMembers,
               LookForLicence, FlushLicence, ProviderSynced, ProviderFails, RollBackSyncRun
        <3>2. CASE ProviderFails(s)
            <4>1. /\ Working(syncRun[s])
                  /\ syncRun' = [syncRun EXCEPT ![s] = Through(syncRun[s], "failed")]
                BY <3>2 DEF ProviderFails, Working
            <4>2. RunTyped(Through(syncRun[s], "failed"))
                BY <4>1, RunTypedNow, ThroughTyped
            <4> QED BY <1>1, <1>3, <2>1, <3>1, <4>1, <4>2, RunBecomes DEF SyncInv
        <3>3. CASE RollBackSyncRun(s)
            <4>1. syncRun' = [syncRun EXCEPT ![s] = IdleRun]
                BY <3>3 DEF RollBackSyncRun
            <4> QED BY <1>1, <1>3, <2>1, <3>1, <4>1, IdleRunTyped, RunBecomes DEF SyncInv
        <3>4. CASE ~ProviderFails(s) /\ ~RollBackSyncRun(s)
            <4>1. Runs'
                BY <1>5, <2>3, <3>4, BeginRunTyped, MarkTyped, FetchStepTyped, LookTyped, FlushTyped,
                   SyncedTyped DEF SyncRunNext
            <4> QED BY <1>1, <1>3, <2>1, <3>1, <4>1 DEF SyncInv
        <3> QED BY <3>2, <3>3, <3>4
    <2> QED BY <2>2, <2>3
<1>6. ASSUME NEW q \in Removals, NEW ks \in SUBSET stored, BeginRemoval(q, ks) PROVE SyncInv'
    BY <1>1, <1>2, <1>6, BeginRemovalTyped DEF BeginRemoval, SyncInv
<1>7. ASSUME NEW q \in Removals, NEW k \in TeamSeats, NEW answer, AskProvider(q, k, answer)
      PROVE  SyncInv'
    <2>1. RemovalsOK'
        BY <1>7, AskTyped
    <2>2. UNCHANGED <<stored, outcome>>
        BY <1>7 DEF AskProvider
    <2>3. CASE answer \in {"removed", "lost"}
        <3>1. /\ team' = team \ {k} /\ credited' = credited \ {k}
              /\ syncRun' = Uncredit(syncRun, {k})
            BY <1>7, <2>3 DEF AskProvider, Give
        <3> QED BY <2>1, <2>2, <3>1, UncreditKeeps DEF SyncInv
    <2>4. CASE answer \notin {"removed", "lost"}
        <3>1. UNCHANGED <<team, credited, syncRun>>
            BY <1>7, <2>4 DEF AskProvider
        <3> QED BY <1>1, <1>2, <2>1, <2>2, <3>1 DEF SyncInv
    <2> QED BY <2>3, <2>4
<1>8. ASSUME NEW q \in Removals, DeleteRemoved(q) PROVE SyncInv'
    BY <1>1, <1>2, <1>8, DeleteSeatsTyped DEF DeleteRemoved, SyncInv
<1>9. ASSUME NEW q \in Removals, CommitRemoval(q) PROVE SyncInv'
    <2>1. removal[q].deleted \subseteq removal[q].agreed
        BY RemovalTypedNow DEF RemovalTyped
    <2>2. Runs' /\ Rest
        BY <1>9, <2>1, UncreditKeeps DEF CommitRemoval
    <2>3. RemovalsOK'
        BY <1>9, IdleRemovalTyped, RemovalBecomes DEF CommitRemoval, SyncInv
    <2> QED BY <2>2, <2>3 DEF SyncInv
<1>10. ASSUME NEW q \in Removals, RemovalFails(q) PROVE SyncInv'
    <2>1. RemovalsOK'
        BY <1>10, IdleRemovalTyped, RemovalBecomes DEF RemovalFails, SyncInv
    <2> QED BY <1>1, <1>2, <1>10, <2>1 DEF RemovalFails, SyncInv
<1>11. ASSUME NEW k \in TeamSeats, Join(k) \/ CreateLocally(k) PROVE SyncInv'
    <2>1. Rest
        BY <1>11 DEF Join, CreateLocally, SyncInv, SeatRows, RunOutcomes
    <2> QED BY <1>2, <1>3, <1>11, <2>1 DEF Join, CreateLocally, SyncInv
<1>12. ASSUME NEW k \in TeamSeats, Leave(k) \/ DeleteLocally(k) PROVE SyncInv'
    <2>1. Runs' /\ Rest
        BY <1>12, UncreditKeeps DEF Leave, Give, DeleteLocally
    <2> QED BY <1>3, <1>12, <2>1 DEF Leave, DeleteLocally, SyncInv
<1>13. CASE SyncProcessCrashes
    <2>1. Runs'
        BY <1>13, IdleRunTyped DEF SyncProcessCrashes, Runs, RunTyped
    <2>2. RemovalsOK'
        BY <1>13, IdleRemovalTyped DEF SyncProcessCrashes, RemovalsOK, RemovalTyped
    <2> QED BY <1>1, <1>13, <2>1, <2>2 DEF SyncProcessCrashes, SyncInv
<1>14. ASSUME NEW q \in Removals, RemovalNext(q) PROVE SyncInv'
    BY <1>6, <1>7, <1>8, <1>9, <1>10, <1>14 DEF RemovalNext
<1> QED BY <1>4, <1>5, <1>11, <1>12, <1>13, <1>14 DEF ProviderSyncNext

\* The invariant holds before anything is synchronised.
LEMMA SyncInit == ProviderSyncInit => SyncInv
<1> SUFFICES ASSUME ProviderSyncInit PROVE SyncInv
    OBVIOUS
<1>1. Runs
    BY IdleRunTyped DEF ProviderSyncInit, Runs, RunTyped
<1>2. RemovalsOK
    BY IdleRemovalTyped DEF ProviderSyncInit, RemovalsOK, RemovalTyped
<1> QED BY <1>1, <1>2 DEF ProviderSyncInit, SyncInv, SeatRows, RunOutcomes

\* Seats, outcomes, runs and removals are well formed in every reachable state.
THEOREM SyncTypes == ProviderSyncSpec => []ProviderSyncTypeOK
BY InvImplies, SyncInit, ProviderSyncStep, PTL DEF ProviderSyncSpec

\* sync_service and remove_from_provider: every member that the last successful sync listed
\* has its licence as long as it stays one, unless somebody deleted it or the provider agreed
\* to a removal; and no provider is left "in progress".
THEOREM SyncedMembersStored == ProviderSyncSpec => []SyncedMembersAreStored
BY InvImplies, SyncInit, ProviderSyncStep, PTL DEF ProviderSyncSpec

-----------------------------------------------------------------------------

-----------------------------------------------------------------------------
(* Finite sets of numbers *)

LEMMA LargestNumber ==
    ASSUME NEW n \in Nat, NEW S \in SUBSET (0 .. n), S # {}
    PROVE  \E m \in S : \A x \in S : x <= m
<1> DEFINE T == {n - x : x \in S}
<1>1. T \in SUBSET Nat /\ T # {}
    <2>1. \A x \in S : x \in 0 .. n /\ n - x \in Nat
        OBVIOUS
    <2> QED BY <2>1
<1>2. PICK t \in T : \A y \in T : t <= y
    BY <1>1, SmallestNumber
<1>3. PICK m \in S : t = n - m
    BY <1>2
<1>4. ASSUME NEW x \in S
      PROVE  x <= m
    <2>1. n - x \in T /\ n - m <= n - x /\ x \in 0 .. n /\ m \in 0 .. n
        BY <1>2, <1>3
    <2> QED BY <2>1
<1> QED BY <1>3, <1>4

-----------------------------------------------------------------------------
(* Places in a list *)

RankIn(L, p) == Cardinality({q \in L : q <= p})
PageOf(L, b, c) == {p \in L : RankIn(L, p) \in b + 1 .. b + c}

LEMMA PeopleFinite ==
    ASSUME NEW L \in SUBSET People
    PROVE  IsFiniteSet(L) /\ L \subseteq Nat /\ L \subseteq 0 .. Members
<1>1. L \subseteq 1 .. Members /\ Members \in Nat
    BY FetchAssumptions DEF People
<1>2. IsFiniteSet(1 .. Members)
    BY <1>1, FS_Interval
<1>3. IsFiniteSet(L)
    BY <1>1, <1>2, FS_Subset
<1> QED BY <1>1, <1>3

LEMMA RankTyped ==
    ASSUME NEW L \in SUBSET People, NEW p
    PROVE  /\ IsFiniteSet({q \in L : q <= p}) /\ RankIn(L, p) \in Nat
           /\ RankIn(L, p) <= Cardinality(L) /\ Cardinality(L) \in Nat
<1>1. IsFiniteSet(L) /\ {q \in L : q <= p} \in SUBSET L
    BY PeopleFinite
<1>2. IsFiniteSet({q \in L : q <= p}) /\ Cardinality({q \in L : q <= p}) <= Cardinality(L)
    BY <1>1, FS_Subset
<1> QED BY <1>1, <1>2, FS_CardinalityType DEF RankIn

LEMMA RankMonotone ==
    ASSUME NEW L \in SUBSET People, NEW p \in Nat, NEW q \in Nat, p <= q
    PROVE  RankIn(L, p) <= RankIn(L, q)
<1> DEFINE P == {x \in L : x <= p}
           Q == {x \in L : x <= q}
<1>1. P \in SUBSET Q
    <2>1. L \subseteq Nat
        BY PeopleFinite
    <2>2. \A x \in L : x <= p => x <= q
        BY <2>1
    <2> QED BY <2>2
<1>2. IsFiniteSet(Q)
    BY RankTyped
<1> QED BY <1>1, <1>2, FS_Subset DEF RankIn

LEMMA RankStrict ==
    ASSUME NEW L \in SUBSET People, NEW p \in Nat, NEW q \in L, p < q
    PROVE  RankIn(L, p) < RankIn(L, q)
<1> DEFINE P == {x \in L : x <= p}
           Q == {x \in L : x <= q}
<1>1. L \subseteq Nat
    BY PeopleFinite
<1>2. q \notin P /\ P \cup {q} \in SUBSET Q
    <2>1. q \in Nat /\ ~(q <= p) /\ q <= q
        BY <1>1
    <2>2. \A x \in L : x <= p => x <= q
        BY <1>1, <2>1
    <2> QED BY <2>1, <2>2
<1>3. IsFiniteSet(P) /\ IsFiniteSet(Q) /\ Cardinality(P) \in Nat /\ Cardinality(Q) \in Nat
    BY RankTyped DEF RankIn
<1>4. Cardinality(P \cup {q}) = Cardinality(P) + 1
    BY <1>2, <1>3, FS_AddElement
<1>5. Cardinality(P \cup {q}) <= Cardinality(Q)
    BY <1>2, <1>3, FS_Subset
<1> QED BY <1>3, <1>4, <1>5 DEF RankIn

LEMMA RankPositive ==
    ASSUME NEW L \in SUBSET People, NEW p \in L
    PROVE  RankIn(L, p) > 0
<1>1. p \in Nat /\ p > 0
    BY FetchAssumptions DEF People
<1>2. RankIn(L, 0) < RankIn(L, p) /\ RankIn(L, 0) \in Nat /\ RankIn(L, p) \in Nat
    BY <1>1, RankStrict, RankTyped
<1> QED BY <1>2

\* No more people have the first n places.
LEMMA FirstPlaces ==
    ASSUME NEW L \in SUBSET People, NEW n \in Nat
    PROVE  /\ IsFiniteSet({p \in L : RankIn(L, p) <= n})
           /\ Cardinality({p \in L : RankIn(L, p) <= n}) \in Nat
           /\ Cardinality({p \in L : RankIn(L, p) <= n}) <= n
<1> DEFINE A == {p \in L : RankIn(L, p) <= n}
<1>1. IsFiniteSet(A) /\ Cardinality(A) \in Nat
    BY PeopleFinite, FS_Subset, FS_CardinalityType
<1>2. CASE A = {}
    BY <1>2, FS_EmptySet
<1>3. CASE A # {}
    <2>1. A \in SUBSET (0 .. Members) /\ Members \in Nat
        BY PeopleFinite, FetchAssumptions
    <2>2. PICK m \in A : \A x \in A : x <= m
        BY <1>3, <2>1, LargestNumber
    <2>3. A \in SUBSET {q \in L : q <= m}
        BY <2>2
    <2>4. Cardinality(A) <= RankIn(L, m)
        <3>1. IsFiniteSet({q \in L : q <= m})
            BY RankTyped
        <3> HIDE DEF A
        <3> QED BY <2>3, <3>1, FS_Subset DEF RankIn
    <2>5. RankIn(L, m) <= n /\ RankIn(L, m) \in Nat
        BY <2>2, RankTyped
    <2> QED BY <1>1, <2>4, <2>5
<1> QED BY <1>1, <1>2, <1>3

\* A page with somebody behind it is full.
LEMMA FullPage ==
    ASSUME NEW L \in SUBSET People, NEW b \in Nat, NEW c \in Nat,
           NEW p \in L, RankIn(L, p) > b + c
    PROVE  Cardinality(PageOf(L, b, c)) >= c
<1> DEFINE later == {q \in L : RankIn(L, q) > b + c}
<1>1. L \subseteq Nat /\ IsFiniteSet(L)
    BY PeopleFinite
<1>2. later \in SUBSET Nat /\ later # {}
    BY <1>1
<1>3. PICK s \in later : \A x \in later : s <= x
    BY <1>2, SmallestNumber
<1>4. s \in L /\ s \in Nat /\ RankIn(L, s) > b + c /\ RankIn(L, s) \in Nat
    BY <1>1, <1>3, RankTyped
<1> DEFINE before == {q \in L : q < s}
           A == {q \in L : RankIn(L, q) <= b}
           P == PageOf(L, b, c)
<1>5. /\ IsFiniteSet(before) /\ s \notin before /\ {q \in L : q <= s} = before \cup {s}
      /\ IsFiniteSet(A) /\ IsFiniteSet(P)
    <2>1. before \in SUBSET L /\ A \in SUBSET L /\ P \in SUBSET L
        BY DEF PageOf
    <2>2. s \notin before /\ {q \in L : q <= s} = before \cup {s}
        <3>1. \A q \in L : q <= s <=> (q < s \/ q = s)
            BY <1>1, <1>4
        <3>2. ~(s < s)
            BY <1>4
        <3> QED BY <1>4, <3>1, <3>2
    <2> QED BY <1>1, <2>1, <2>2, FS_Subset
<1>6. Cardinality(before) \in Nat /\ RankIn(L, s) = Cardinality(before) + 1
    BY <1>5, FS_AddElement, FS_CardinalityType DEF RankIn
<1>7. before \in SUBSET (A \cup P)
    <2> SUFFICES ASSUME NEW q \in before
                 PROVE  q \in A \cup P
        OBVIOUS
    <2>1. q \in L /\ q \notin later
        BY <1>1, <1>3, <1>4
    <2>2. RankIn(L, q) \in Nat /\ ~(RankIn(L, q) > b + c)
        BY <2>1, RankTyped
    <2> QED BY <2>1, <2>2 DEF PageOf
<1>8. /\ Cardinality(A) \in Nat /\ Cardinality(P) \in Nat /\ Cardinality(A) <= b
    BY <1>5, FirstPlaces, FS_CardinalityType
<1>9. /\ Cardinality(A \cup P) = Cardinality(A) + Cardinality(P) - Cardinality(A \cap P)
      /\ IsFiniteSet(A \cup P)
    BY <1>5, FS_Union
<1>10. IsFiniteSet(A \cap P) /\ Cardinality(A \cap P) \in Nat
    BY <1>5, FS_Intersection, FS_CardinalityType
<1>11. Cardinality(before) <= Cardinality(A \cup P) /\ Cardinality(A \cup P) \in Nat
    BY <1>7, <1>9, FS_Subset, FS_CardinalityType
<1> HIDE DEF before, A, P
<1> QED BY <1>4, <1>6, <1>8, <1>9, <1>10, <1>11 DEF P

\* No page is longer than asked for.
LEMMA PageBounded ==
    ASSUME NEW L \in SUBSET People, NEW b \in Nat, NEW c \in Nat
    PROVE  /\ IsFiniteSet(PageOf(L, b, c)) /\ Cardinality(PageOf(L, b, c)) \in Nat
           /\ Cardinality(PageOf(L, b, c)) <= c
<1> DEFINE P == PageOf(L, b, c)
           I == b + 1 .. b + c
           f == [x \in P |-> RankIn(L, x)]
<1>1. IsFiniteSet(P) /\ Cardinality(P) \in Nat /\ P \subseteq L /\ L \subseteq Nat
    <2>1. P \in SUBSET L
        BY DEF PageOf
    <2> QED BY <2>1, PeopleFinite, FS_Subset, FS_CardinalityType
<1>2. IsFiniteSet(I) /\ Cardinality(I) = c
    <2>1. b + 1 \in Int /\ b + c \in Int
        OBVIOUS
    <2> QED BY <2>1, FS_Interval
<1>3. f \in [P -> I]
    BY DEF PageOf
<1>4. \A x, y \in P : x # y => f[x] # f[y]
    <2> SUFFICES ASSUME NEW x \in P, NEW y \in P, x # y
                 PROVE  RankIn(L, x) # RankIn(L, y)
        OBVIOUS
    <2>1. x \in L /\ y \in L /\ x \in Nat /\ y \in Nat
        BY <1>1
    <2>2. RankIn(L, x) \in Nat /\ RankIn(L, y) \in Nat
        BY <2>1, RankTyped
    <2>3. RankIn(L, x) < RankIn(L, y) \/ RankIn(L, y) < RankIn(L, x)
        BY <2>1, RankStrict
    <2> QED BY <2>2, <2>3
<1> HIDE DEF P, I, f
<1>5. ~(Cardinality(I) < Cardinality(P))
    BY <1>1, <1>2, <1>3, <1>4, FS_PigeonHole
<1> QED BY <1>1, <1>2, <1>5 DEF P

\* When people only join, nobody moves up.
LEMMA RankGrows ==
    ASSUME NEW L \in SUBSET People, NEW M \in SUBSET People, L \subseteq M, NEW p
    PROVE  RankIn(L, p) <= RankIn(M, p)
<1>1. {q \in L : q <= p} \in SUBSET {q \in M : q <= p} /\ IsFiniteSet({q \in M : q <= p})
    BY RankTyped
<1> QED BY <1>1, FS_Subset DEF RankIn

-----------------------------------------------------------------------------
(* The clients *)

\* What asks for the next page goes with what ends a pass.
Styled(c) ==
    \/ c.step = "token" /\ c.last \in {"token", "short"}
    \/ c.step = "page" /\ c.last \in {"short", "empty", "short or total"}
    \/ c.step = "offset" /\ c.last \in {"short", "total"}
    \/ c.step = "items" /\ c.last = "total"
    \/ /\ c.step = "once" /\ c.last = "once" /\ c.counts = Everyone
       /\ Len(c.passes) = 1 /\ ~c.fallback

Lists(c, j) == c.passes[j].lists
Fails(c, j) == {c.passes[j].status, c.passes[j].exception}
FetchOutcomes == {"raise", "stop", "drop"}

\* Every standing that counts is asked for; after a fallback, by the last pass.
Asks(c) ==
    /\ Len(c.passes) \in 1 .. 3 /\ c.counts \subseteq Everyone
    /\ \A j \in 1 .. Len(c.passes) : Lists(c, j) \subseteq Everyone /\ Fails(c, j) \subseteq FetchOutcomes
    /\ \A s \in c.counts : \E j \in 1 .. Len(c.passes) : s \in Lists(c, j)
    /\ c.fallback => c.counts \subseteq Lists(c, Len(c.passes))

\* A client that reads everybody in one pass.
OnePass(passes) ==
    /\ Len(passes) = 1 /\ passes[1].lists = Everyone
    /\ {passes[1].status, passes[1].exception} \subseteq FetchOutcomes

LEMMA OnePassAsks ==
    ASSUME NEW passes, OnePass(passes), NEW step, NEW last
    PROVE  LET c == Client(passes, step, last) IN
           /\ Asks(c) /\ c.step = step /\ c.last = last
           /\ c.counts = Everyone /\ Len(c.passes) = 1 /\ ~c.fallback
<1> DEFINE c == Client(passes, step, last)
<1>1. /\ c.passes = passes /\ c.step = step /\ c.last = last
      /\ c.counts = Everyone /\ ~c.fallback
    BY DEF Client
<1> HIDE DEF c
<1>2. Len(c.passes) = 1 /\ 1 \in 1 .. 1 /\ \A j \in 1 .. 1 : j = 1
    BY <1>1 DEF OnePass
<1>3. Lists(c, 1) = Everyone /\ Fails(c, 1) \subseteq FetchOutcomes
    BY <1>1 DEF Lists, Fails, OnePass
<1>4. Asks(c)
    BY <1>1, <1>2, <1>3 DEF Asks
<1> QED BY <1>1, <1>2, <1>4 DEF c

LEMMA OnePassLists ==
    /\ OnePass(Strict) /\ OnePass(Lenient) /\ OnePass(<<HuggingFaceMembers>>)
    /\ OnePass(<<AnthropicUsers>>) /\ OnePass(<<Pass(Everyone, "drop", "drop")>>)
    /\ OnePass(<<Pass(Everyone, "stop", "stop")>>)
<1>1. OnePass(Strict) /\ OnePass(Lenient)
    BY DEF OnePass, FetchOutcomes, Strict, Lenient, Pass
<1>2. OnePass(<<HuggingFaceMembers>>) /\ OnePass(<<AnthropicUsers>>)
    BY DEF OnePass, FetchOutcomes, HuggingFaceMembers, AnthropicUsers, Pass
<1>3. /\ OnePass(<<Pass(Everyone, "drop", "drop")>>)
      /\ OnePass(<<Pass(Everyone, "stop", "stop")>>)
    BY DEF OnePass, FetchOutcomes, Pass
<1> QED BY <1>1, <1>2, <1>3

Goes(step, last) ==
    \/ step = "token" /\ last \in {"token", "short"}
    \/ step = "page" /\ last \in {"short", "empty", "short or total"}
    \/ step = "offset" /\ last \in {"short", "total"}
    \/ step = "items" /\ last = "total"
    \/ step = "once" /\ last = "once"

LEMMA OnePassStyled ==
    ASSUME NEW passes, OnePass(passes), NEW step, NEW last, Goes(step, last),
           NEW c, c = Client(passes, step, last)
    PROVE  Asks(c) /\ Styled(c)
<1>1. /\ Asks(c) /\ c.step = step /\ c.last = last
      /\ c.counts = Everyone /\ Len(c.passes) = 1 /\ ~c.fallback
    BY OnePassAsks
<1>2. Styled(c)
    BY <1>1 DEF Styled, Goes
<1> QED BY <1>1, <1>2

LEMMA OnePassClients ==
    \A c \in Clients \ {Google, Zoom, Microsoft} : Asks(c) /\ Styled(c)
<1>1. Asks(Slack) /\ Styled(Slack)
    <2>1. Slack = Client(Lenient, "token", "token")
        BY DEF Slack
    <2>2. Goes("token", "token") /\ OnePass(Lenient)
        BY OnePassLists DEF Goes
    <2> QED BY <2>1, <2>2, OnePassStyled
<1>2. Asks(GitLabInstance) /\ Styled(GitLabInstance)
    <2>1. GitLabInstance = Client(Lenient, "page", "short")
        BY DEF GitLabInstance
    <2>2. Goes("page", "short") /\ OnePass(Lenient)
        BY OnePassLists DEF Goes
    <2> QED BY <2>1, <2>2, OnePassStyled
<1>3. Asks(GitLabGroup) /\ Styled(GitLabGroup)
    <2>1. GitLabGroup = Client(Lenient, "page", "short")
        BY DEF GitLabGroup
    <2>2. Goes("page", "short") /\ OnePass(Lenient)
        BY OnePassLists DEF Goes
    <2> QED BY <2>1, <2>2, OnePassStyled
<1>4. Asks(MiroOrganisation) /\ Styled(MiroOrganisation)
    <2>1. MiroOrganisation = Client(Strict, "token", "token")
        BY DEF MiroOrganisation
    <2>2. Goes("token", "token") /\ OnePass(Strict)
        BY OnePassLists DEF Goes
    <2> QED BY <2>1, <2>2, OnePassStyled
<1>5. Asks(MiroTeams) /\ Styled(MiroTeams)
    <2>1. MiroTeams = Client(Lenient, "token", "token")
        BY DEF MiroTeams
    <2>2. Goes("token", "token") /\ OnePass(Lenient)
        BY OnePassLists DEF Goes
    <2> QED BY <2>1, <2>2, OnePassStyled
<1>6. Asks(Figma) /\ Styled(Figma)
    <2>1. Figma = Client(Strict, "offset", "total")
        BY DEF Figma
    <2>2. Goes("offset", "total") /\ OnePass(Strict)
        BY OnePassLists DEF Goes
    <2> QED BY <2>1, <2>2, OnePassStyled
<1>7. Asks(GitHub) /\ Styled(GitHub)
    <2>1. GitHub = Client(Strict, "page", "empty")
        BY DEF GitHub
    <2>2. Goes("page", "empty") /\ OnePass(Strict)
        BY OnePassLists DEF Goes
    <2> QED BY <2>1, <2>2, OnePassStyled
<1>8. Asks(HuggingFace) /\ Styled(HuggingFace)
    <2>1. HuggingFace = Client(<<HuggingFaceMembers>>, "token", "short")
        BY DEF HuggingFace
    <2>2. Goes("token", "short") /\ OnePass(<<HuggingFaceMembers>>)
        BY OnePassLists DEF Goes
    <2> QED BY <2>1, <2>2, OnePassStyled
<1>9. Asks(Cursor) /\ Styled(Cursor)
    <2>1. Cursor = Client(<<Pass(Everyone, "drop", "drop")>>, "once", "once")
        BY DEF Cursor
    <2>2. Goes("once", "once") /\ OnePass(<<Pass(Everyone, "drop", "drop")>>)
        BY OnePassLists DEF Goes
    <2> QED BY <2>1, <2>2, OnePassStyled
<1>10. Asks(Anthropic) /\ Styled(Anthropic)
    <2>1. Anthropic = Client(<<AnthropicUsers>>, "token", "token")
        BY DEF Anthropic
    <2>2. Goes("token", "token") /\ OnePass(<<AnthropicUsers>>)
        BY OnePassLists DEF Goes
    <2> QED BY <2>1, <2>2, OnePassStyled
<1>11. Asks(Mattermost) /\ Styled(Mattermost)
    <2>1. Mattermost = Client(Strict, "page", "empty")
        BY DEF Mattermost
    <2>2. Goes("page", "empty") /\ OnePass(Strict)
        BY OnePassLists DEF Goes
    <2> QED BY <2>1, <2>2, OnePassStyled
<1>12. Asks(Mailjet) /\ Styled(Mailjet)
    <2>1. Mailjet = Client(<<Pass(Everyone, "drop", "drop")>>, "once", "once")
        BY DEF Mailjet
    <2>2. Goes("once", "once") /\ OnePass(<<Pass(Everyone, "drop", "drop")>>)
        BY OnePassLists DEF Goes
    <2> QED BY <2>1, <2>2, OnePassStyled
<1>13. Asks(Atlassian) /\ Styled(Atlassian)
    <2>1. Atlassian = Client(Strict, "token", "token")
        BY DEF Atlassian
    <2>2. Goes("token", "token") /\ OnePass(Strict)
        BY OnePassLists DEF Goes
    <2> QED BY <2>1, <2>2, OnePassStyled
<1>14. Asks(Adobe) /\ Styled(Adobe)
    <2>1. Adobe = Client(Strict, "page", "short")
        BY DEF Adobe
    <2>2. Goes("page", "short") /\ OnePass(Strict)
        BY OnePassLists DEF Goes
    <2> QED BY <2>1, <2>2, OnePassStyled
<1>15. Asks(JetBrains) /\ Styled(JetBrains)
    <2>1. JetBrains = Client(<<Pass(Everyone, "stop", "stop")>>, "page", "short")
        BY DEF JetBrains
    <2>2. Goes("page", "short") /\ OnePass(<<Pass(Everyone, "stop", "stop")>>)
        BY OnePassLists DEF Goes
    <2> QED BY <2>1, <2>2, OnePassStyled
<1>16. Asks(Auth0) /\ Styled(Auth0)
    <2>1. Auth0 = Client(Strict, "page", "short or total")
        BY DEF Auth0
    <2>2. Goes("page", "short or total") /\ OnePass(Strict)
        BY OnePassLists DEF Goes
    <2> QED BY <2>1, <2>2, OnePassStyled
<1>17. Asks(OnePassword) /\ Styled(OnePassword)
    <2>1. OnePassword = Client(Strict, "items", "total")
        BY DEF OnePassword
    <2>2. Goes("items", "total") /\ OnePass(Strict)
        BY OnePassLists DEF Goes
    <2> QED BY <2>1, <2>2, OnePassStyled
<1>18. Asks(OpenAI) /\ Styled(OpenAI)
    <2>1. OpenAI = Client(Strict, "once", "once")
        BY DEF OpenAI
    <2>2. Goes("once", "once") /\ OnePass(Strict)
        BY OnePassLists DEF Goes
    <2> QED BY <2>1, <2>2, OnePassStyled
<1>19. Asks(HiBob) /\ Styled(HiBob)
    <2>1. HiBob = Client(Strict, "once", "once")
        BY DEF HiBob
    <2>2. Goes("once", "once") /\ OnePass(Strict)
        BY OnePassLists DEF Goes
    <2> QED BY <2>1, <2>2, OnePassStyled
<1>20. Asks(Personio) /\ Styled(Personio)
    <2>1. Personio = Client(Strict, "offset", "short")
        BY DEF Personio
    <2>2. Goes("offset", "short") /\ OnePass(Strict)
        BY OnePassLists DEF Goes
    <2> QED BY <2>1, <2>2, OnePassStyled
<1> QED BY <1>1, <1>2, <1>3, <1>4, <1>5, <1>6, <1>7, <1>8, <1>9, <1>10, <1>11, <1>12,
           <1>13, <1>14, <1>15, <1>16, <1>17, <1>18, <1>19, <1>20 DEF Clients

LEMMA ClientsGood == \A c \in Clients : Asks(c) /\ Styled(c)
<1>1. Asks(Google) /\ Styled(Google)
    <2> DEFINE passes == <<GoogleUsers, GoogleAssignments>>
    <2>1. /\ Len(passes) = 2 /\ passes[1].lists = Everyone /\ passes[2].lists = Licensed
          /\ {passes[1].status, passes[1].exception} \subseteq FetchOutcomes
          /\ {passes[2].status, passes[2].exception} \subseteq FetchOutcomes
        BY DEF Pass, GoogleUsers, GoogleAssignments, FetchOutcomes
    <2>2. /\ Google.passes = passes /\ Google.step = "token" /\ Google.last = "token"
          /\ Google.counts = Licensed /\ Google.fallback
        BY DEF Google, Client
    <2> HIDE DEF passes
    <2>3. Licensed \subseteq Everyone
        BY DEF Everyone
    <2>4. /\ Len(Google.passes) = 2 /\ 2 \in 1 .. 2 /\ \A j \in 1 .. 2 : j = 1 \/ j = 2
          /\ Lists(Google, 1) = Everyone /\ Lists(Google, 2) = Licensed
          /\ Fails(Google, 1) \subseteq FetchOutcomes /\ Fails(Google, 2) \subseteq FetchOutcomes
        BY <2>1, <2>2 DEF Lists, Fails
    <2> QED BY <2>2, <2>3, <2>4 DEF Asks, Styled
<1>2. Asks(Zoom) /\ Styled(Zoom)
    <2> DEFINE passes == <<Pass({"active"}, "raise", "raise"), Pass({"inactive"}, "stop", "raise"),
                           Pass({"free"}, "stop", "raise")>>
    <2>1. /\ Len(passes) = 3 /\ passes[1].lists = {"active"} /\ passes[2].lists = {"inactive"}
          /\ passes[3].lists = {"free"}
          /\ {passes[1].status, passes[1].exception} \subseteq FetchOutcomes
          /\ {passes[2].status, passes[2].exception} \subseteq FetchOutcomes
          /\ {passes[3].status, passes[3].exception} \subseteq FetchOutcomes
        BY DEF Pass, FetchOutcomes
    <2>2. /\ Zoom.passes = passes /\ Zoom.step = "token" /\ Zoom.last = "token"
          /\ Zoom.counts = Everyone /\ ~Zoom.fallback
        BY DEF Zoom, Client
    <2> HIDE DEF passes
    <2>3. Everyone = {"active", "inactive", "free"}
        BY DEF Everyone, Licensed
    <2>4. /\ Len(Zoom.passes) = 3 /\ {1, 2, 3} \subseteq 1 .. 3
          /\ \A j \in 1 .. 3 : j = 1 \/ j = 2 \/ j = 3
          /\ Lists(Zoom, 1) = {"active"} /\ Lists(Zoom, 2) = {"inactive"}
          /\ Lists(Zoom, 3) = {"free"}
          /\ Fails(Zoom, 1) \subseteq FetchOutcomes /\ Fails(Zoom, 2) \subseteq FetchOutcomes
          /\ Fails(Zoom, 3) \subseteq FetchOutcomes
        BY <2>1, <2>2 DEF Lists, Fails
    <2> QED BY <2>2, <2>3, <2>4 DEF Asks, Styled
<1>3. Asks(Microsoft) /\ Styled(Microsoft)
    <2> DEFINE passes == <<Pass(Everyone, "raise", "raise")>>
    <2>1. /\ Len(passes) = 1 /\ passes[1].lists = Everyone
          /\ {passes[1].status, passes[1].exception} \subseteq FetchOutcomes
        BY DEF Pass, FetchOutcomes
    <2>2. /\ Microsoft.passes = passes /\ Microsoft.step = "token" /\ Microsoft.last = "token"
          /\ Microsoft.counts = Licensed /\ ~Microsoft.fallback
        BY DEF Microsoft, Client, Strict
    <2> HIDE DEF passes
    <2>3. Licensed \subseteq Everyone
        BY DEF Everyone
    <2>4. /\ Len(Microsoft.passes) = 1 /\ 1 \in 1 .. 1 /\ \A j \in 1 .. 1 : j = 1
          /\ Lists(Microsoft, 1) = Everyone /\ Fails(Microsoft, 1) \subseteq FetchOutcomes
        BY <2>1, <2>2 DEF Lists, Fails
    <2> QED BY <2>2, <2>3, <2>4 DEF Asks, Styled
<1> QED BY <1>1, <1>2, <1>3, OnePassClients

-----------------------------------------------------------------------------
(* The invariant *)

FetchTyped ==
    /\ client \in Clients
    /\ standing \in [People -> Everyone \cup {"out"}]
    /\ changes \in 0 .. MaxChanges
    /\ fetch \in Fetch
    /\ fetch.phase = "pages" => fetch.cap \in PageCaps /\ fetch.pass <= Len(client.passes)

\* The exceptions that do not depend on what was read.
PassExcused(f) ==
    \/ f.cut
    \/ client.step # "token" /\ f.shifted
    \/ f.cap < PageSize /\ (client.step = "offset" \/ client.last \in {"short", "short or total"})

Holder(p) == standing[p] \in client.counts \/ client.fallback

ListingOf(j) == {p \in People : standing[p] \in Lists(client, j)}

\* The pages that were read hold everybody up to here.
Passed(p, j, at) ==
    IF client.step = "token" THEN p <= at ELSE RankIn(ListingOf(j), p) <= at

NobodyMissed(f) ==
    /\ \A p \in f.steady, j \in 1 .. f.pass - 1 :
          Holder(p) /\ p \in ListingOf(j) => p \in f.kept
    /\ \A p \in f.steady :
          Holder(p) /\ p \in ListingOf(f.pass) /\ Passed(p, f.pass, f.at) => p \in f.got

\* The pass has read its whole list.
WholePass(f) ==
    \A p \in f.steady : Holder(p) /\ p \in ListingOf(f.pass) => p \in f.got

ReadingGood ==
    /\ \A p \in fetch.steady : standing[p] # "out"
    /\ fetch.phase = "pages" => (PassExcused(fetch) \/ NobodyMissed(fetch))
    /\ fetch.phase = "pages" /\ client.step = "once"
           => fetch.at = 0 /\ fetch.got = {} /\ fetch.kept = {}

FetchInv == FetchTyped /\ ReadingGood /\ SuccessIsWhole

-----------------------------------------------------------------------------
(* One page *)

\* A client is reading.
Reading == FetchTyped /\ fetch.phase = "pages"

LEMMA PageFacts ==
    ASSUME Reading
    PROVE  /\ Listed = ListingOf(fetch.pass) /\ Listed \in SUBSET People
           /\ fetch.at \in Nat /\ fetch.cap \in Nat /\ fetch.cap > 0 /\ fetch.cap <= PageSize
           /\ ReadBefore \in Nat /\ Page = PageOf(Listed, ReadBefore, fetch.cap)
           /\ Page \subseteq Listed /\ \A p : Rank(p) = RankIn(Listed, p) /\ Rank(p) \in Nat
           /\ IsFiniteSet(Page) /\ Cardinality(Page) \in Nat /\ Cardinality(Page) <= fetch.cap
           /\ Cardinality(Listed) \in Nat
<1>1. Listed = ListingOf(fetch.pass) /\ Listed \in SUBSET People
    BY DEF Listed, ListingOf, ThisPass, Lists
<1>2. fetch.at \in Nat /\ fetch.cap \in PageCaps
    BY DEF Reading, FetchTyped, Fetch
<1>3. fetch.cap \in Nat /\ fetch.cap > 0 /\ fetch.cap <= PageSize
    <2>1. PageSize \in Nat /\ fetch.cap \in 1 .. PageSize
        BY <1>2, FetchAssumptions
    <2>2. \A n \in Nat : \A c \in 1 .. n : c \in Nat /\ c > 0 /\ c <= n
        OBVIOUS
    <2> QED BY <2>1, <2>2
<1>4. \A p : Rank(p) = RankIn(Listed, p)
    BY DEF Rank, RankIn
<1>5. \A p : RankIn(Listed, p) \in Nat
    BY <1>1, RankTyped
<1>6. ReadBefore \in Nat
    BY <1>2, <1>4, <1>5 DEF ReadBefore
<1>7. Page = PageOf(Listed, ReadBefore, fetch.cap)
    BY <1>4 DEF Page, PageOf
<1>8. Page \subseteq Listed
    BY DEF Page
<1>9. IsFiniteSet(Page) /\ Cardinality(Page) \in Nat /\ Cardinality(Page) <= fetch.cap
    BY <1>1, <1>3, <1>6, <1>7, PageBounded
<1>10. Cardinality(Listed) \in Nat
    BY <1>1, RankTyped
<1> QED BY <1>1, <1>2, <1>3, <1>4, <1>5, <1>6, <1>7, <1>8, <1>9, <1>10

LEMMA NextToken ==
    ASSUME Reading, client.step = "token"
    PROVE  /\ NextAt \in {fetch.at} \cup Page /\ NextAt \in Nat
           /\ \A p \in {fetch.at} \cup Page : p <= NextAt
<1> DEFINE S == {fetch.at} \cup Page
<1>1. fetch.at \in Nat /\ Page \subseteq People /\ Members \in Nat
    BY PageFacts, FetchAssumptions
<1>2. PICK n \in Nat : fetch.at <= n /\ Members <= n
    <2>1. CASE fetch.at <= Members
        BY <1>1, <2>1
    <2>2. CASE Members <= fetch.at
        BY <1>1, <2>2
    <2> QED BY <1>1, <2>1, <2>2
<1>3. S \in SUBSET (0 .. n) /\ S # {}
    <2>1. \A p \in People : p \in 0 .. n
        BY <1>1, <1>2 DEF People
    <2> QED BY <1>1, <1>2, <2>1
<1> HIDE DEF S
<1>4. \E m \in S : \A x \in S : x <= m
    BY <1>2, <1>3, LargestNumber
<1>5. \E m \in S : \A x \in S : m >= x
    <2>1. \A x, m \in 0 .. n : x <= m => m >= x
        BY <1>2
    <2> QED BY <1>3, <1>4, <2>1
<1>6. Max(S) \in S /\ \A x \in S : Max(S) >= x
    BY <1>5 DEF Max
<1>7. Max(S) \in Nat /\ \A x \in S : x <= Max(S)
    <2>1. \A x, m \in 0 .. n : m >= x => x <= m
        BY <1>2
    <2>2. \A x \in S : x \in 0 .. n
        BY <1>3
    <2>3. \A x \in S : x <= Max(S)
        BY <1>6, <2>1, <2>2
    <2>4. \A x \in 0 .. n : x \in Nat
        BY <1>2
    <2> QED BY <1>6, <2>2, <2>3, <2>4
<1>8. NextAt = Max(S)
    BY DEF NextAt, S
<1> QED BY <1>6, <1>7, <1>8 DEF S

LEMMA NextTyped ==
    ASSUME Reading, Styled(client)
    PROVE  NextAt \in Nat
<1>1. /\ fetch.at \in Nat /\ fetch.cap \in Nat /\ Cardinality(Page) \in Nat
      /\ PageSize \in Nat
    BY PageFacts, FetchAssumptions
<1>2. CASE client.step = "token"
    BY <1>2, NextToken
<1>3. CASE client.step = "page"
    BY <1>1, <1>3 DEF NextAt
<1>4. CASE client.step = "offset"
    BY <1>1, <1>4 DEF NextAt
<1>5. CASE client.step \in {"items", "once"}
    BY <1>1, <1>5 DEF NextAt
<1> QED BY <1>2, <1>3, <1>4, <1>5 DEF Styled

\* What is listed is before the page, on it or behind it.
LEMMA ThreePlaces ==
    ASSUME Reading, NEW p \in Listed
    PROVE  \/ Passed(p, fetch.pass, fetch.at) \/ p \in Page
           \/ /\ Rank(p) > ReadBefore + fetch.cap /\ Cardinality(Page) >= fetch.cap
<1>1. /\ Listed = ListingOf(fetch.pass) /\ Listed \in SUBSET People
      /\ fetch.at \in Nat /\ fetch.cap \in Nat
      /\ ReadBefore \in Nat /\ Page = PageOf(Listed, ReadBefore, fetch.cap)
      /\ \A q : Rank(q) = RankIn(Listed, q) /\ Rank(q) \in Nat
    BY PageFacts
<1>2. Rank(p) <= ReadBefore \/ Rank(p) \in ReadBefore + 1 .. ReadBefore + fetch.cap
          \/ Rank(p) > ReadBefore + fetch.cap
    BY <1>1
<1>3. CASE Rank(p) <= ReadBefore
    <2>1. CASE client.step = "token"
        <3>1. p \in Nat
            BY <1>1, PeopleFinite
        <3>2. ~(fetch.at < p)
            <4>1. fetch.at < p => RankIn(Listed, fetch.at) < RankIn(Listed, p)
                BY <1>1, RankStrict
            <4>2. ReadBefore = RankIn(Listed, fetch.at)
                BY <1>1, <2>1 DEF ReadBefore
            <4> QED BY <1>1, <1>3, <4>1, <4>2
        <3>3. p <= fetch.at
            BY <1>1, <3>1, <3>2
        <3> QED BY <2>1, <3>3 DEF Passed
    <2>2. CASE client.step # "token"
        BY <1>1, <1>3, <2>2 DEF Passed, ReadBefore
    <2> QED BY <2>1, <2>2
<1>4. CASE Rank(p) \in ReadBefore + 1 .. ReadBefore + fetch.cap
    BY <1>4 DEF Page
<1>5. CASE Rank(p) > ReadBefore + fetch.cap
    <2>1. RankIn(Listed, p) > ReadBefore + fetch.cap
        BY <1>1, <1>5
    <2>2. Cardinality(PageOf(Listed, ReadBefore, fetch.cap)) >= fetch.cap
        BY <1>1, <2>1, FullPage
    <2> QED BY <1>1, <1>5, <2>2
<1> QED BY <1>2, <1>3, <1>4, <1>5

\* Nobody behind the page is before the token.
LEMMA BehindTheToken ==
    ASSUME Reading, client.step = "token", NEW p \in Listed, p <= NextAt,
           Rank(p) > ReadBefore + fetch.cap
    PROVE  FALSE
<1>1. /\ Listed \in SUBSET People /\ fetch.at \in Nat /\ fetch.cap \in Nat
      /\ ReadBefore \in Nat /\ Page \subseteq Listed
      /\ \A q : Rank(q) = RankIn(Listed, q) /\ Rank(q) \in Nat
    BY PageFacts
<1>2. NextAt \in {fetch.at} \cup Page /\ NextAt \in Nat /\ p \in Nat
    BY <1>1, NextToken, PeopleFinite
<1>3. Rank(p) <= Rank(NextAt)
    BY <1>1, <1>2, RankMonotone
<1>4. CASE NextAt = fetch.at
    <2>1. ReadBefore = Rank(fetch.at)
        BY DEF ReadBefore
    <2> QED BY <1>1, <1>3, <1>4, <2>1
<1>5. CASE NextAt \in Page
    <2>1. Rank(NextAt) \in ReadBefore + 1 .. ReadBefore + fetch.cap
        BY <1>5 DEF Page
    <2> QED BY <1>1, <1>3, <2>1
<1> QED BY <1>2, <1>4, <1>5

\* The last page of a pass completes the list.
LEMMA EveryoneCovered ==
    ASSUME Reading, Styled(client), ~PassExcused(fetch), IsLast, NEW p \in Listed,
           client.step = "once" => Cardinality(Page) < fetch.cap
    PROVE  Passed(p, fetch.pass, fetch.at) \/ p \in Page
<1> SUFFICES ASSUME Rank(p) > ReadBefore + fetch.cap, Cardinality(Page) >= fetch.cap
             PROVE  FALSE
    BY ThreePlaces
<1>1. /\ fetch.at \in Nat /\ fetch.cap \in Nat /\ fetch.cap > 0 /\ Listed \in SUBSET People
      /\ ReadBefore \in Nat /\ PageSize \in Nat
      /\ Cardinality(Page) \in Nat /\ Cardinality(Page) <= fetch.cap
      /\ Cardinality(Listed) \in Nat /\ Rank(p) \in Nat /\ Rank(p) = RankIn(Listed, p)
    BY PageFacts, FetchAssumptions
<1>2. Rank(p) <= Cardinality(Listed)
    BY <1>1, RankTyped
<1>3. client.step # "token" => ReadBefore = fetch.at
    BY DEF ReadBefore
<1>4. Page # {}
    <2>1. Cardinality(Page) # 0
        BY <1>1
    <2> QED BY <2>1, FS_EmptySet
<1>5. client.last \in {"short", "short or total"} => ~(fetch.cap < PageSize)
    BY DEF PassExcused
<1>6. client.last \in {"short", "short or total"} => ~(Cardinality(Page) < PageSize)
    <2>1. ~(fetch.cap < PageSize) => ~(Cardinality(Page) < PageSize)
        <3> QED BY <1>1
    <2> QED BY <1>5, <2>1
<1>7. CASE client.last = "token"
    <2>1. client.step = "token" /\ p <= NextAt
        BY <1>7 DEF Styled, IsLast
    <2> QED BY <2>1, BehindTheToken
<1>8. CASE client.last = "short"
    BY <1>6, <1>8 DEF IsLast
<1>9. CASE client.last = "empty"
    BY <1>4, <1>9 DEF IsLast
<1>10. CASE client.last = "total"
    <2>1. fetch.at + Cardinality(Page) >= Cardinality(Listed) /\ client.step # "token"
        BY <1>4, <1>10 DEF Styled, IsLast
    <2> QED BY <1>1, <1>2, <1>3, <2>1
<1>11. CASE client.last = "short or total"
    <2>1. fetch.at + PageSize >= Cardinality(Listed) /\ client.step # "token"
        BY <1>6, <1>11 DEF Styled, IsLast
    <2>2. ~(fetch.cap < PageSize) /\ ReadBefore = fetch.at
        BY <1>3, <1>5, <1>11, <2>1
    <2> QED BY <1>1, <1>2, <2>1, <2>2
<1>12. CASE client.last = "once"
    <2>1. client.step = "once"
        BY <1>12 DEF Styled
    <2> QED BY <1>1, <2>1
<1> QED BY <1>7, <1>8, <1>9, <1>10, <1>11, <1>12 DEF Styled

\* What the client goes past is what it has read.
LEMMA MoreCovered ==
    ASSUME Reading, Styled(client), ~PassExcused(fetch), NEW p \in Listed,
           Passed(p, fetch.pass, NextAt)
    PROVE  Passed(p, fetch.pass, fetch.at) \/ p \in Page
<1> SUFFICES ASSUME Rank(p) > ReadBefore + fetch.cap
             PROVE  FALSE
    BY ThreePlaces
<1>1. /\ fetch.at \in Nat /\ fetch.cap \in Nat /\ PageSize \in Nat
      /\ ReadBefore \in Nat /\ Listed = ListingOf(fetch.pass)
      /\ Cardinality(Page) \in Nat /\ Cardinality(Page) <= fetch.cap
      /\ Rank(p) \in Nat /\ Rank(p) = RankIn(Listed, p)
    BY PageFacts, FetchAssumptions
<1>2. CASE client.step = "token"
    <2>1. p <= NextAt
        BY <1>2 DEF Passed
    <2> QED BY <1>2, <2>1, BehindTheToken
<1>3. client.step # "token" => ReadBefore = fetch.at /\ Rank(p) <= NextAt
    BY <1>1 DEF ReadBefore, Passed
<1>4. CASE client.step = "page"
    BY <1>1, <1>3, <1>4 DEF NextAt
<1>5. CASE client.step = "offset"
    <2>1. ~(fetch.cap < PageSize)
        BY <1>5 DEF PassExcused
    <2>2. NextAt = fetch.at + PageSize
        BY <1>5 DEF NextAt
    <2> QED BY <1>1, <1>3, <1>5, <2>1, <2>2
<1>6. CASE client.step \in {"items", "once"}
    <2>1. NextAt = fetch.at + Cardinality(Page)
        BY <1>6 DEF NextAt
    <2> QED BY <1>1, <1>3, <1>6, <2>1
<1> QED BY <1>2, <1>4, <1>5, <1>6 DEF Styled

-----------------------------------------------------------------------------
(* The end of a pass *)

LEMMA EndPassTyped ==
    ASSUME client \in Clients, NEW f \in Fetch, f.phase = "pages", f.cap \in PageCaps,
           f.pass <= Len(client.passes), EndPass(f), client' = client
    PROVE  /\ fetch' \in Fetch
           /\ fetch'.phase = "pages"
                  => fetch'.cap \in PageCaps /\ fetch'.pass <= Len(client'.passes)
<1>1. /\ f.number \in 0 .. MaxFetches /\ f.pass \in 1 .. 3 /\ f.at \in Nat
      /\ f.cap \in PageCaps \cup {0} /\ f.kept \subseteq People /\ f.got \subseteq People
      /\ f.steady \in SUBSET People /\ f.cut \in BOOLEAN /\ f.shifted \in BOOLEAN
    BY DEF Fetch
<1>2. Len(client.passes) \in 1 .. 3
    BY ClientsGood DEF Asks
<1>3. CASE f.pass < Len(client.passes)
    <2>1. fetch' = [f EXCEPT !.pass = @ + 1, !.at = 0, !.kept = @ \cup f.got, !.got = {}]
        BY <1>3 DEF EndPass, AtStart
    <2>2. f.pass + 1 \in 1 .. 3 /\ f.pass + 1 <= Len(client.passes)
        <3>1. \A n, m \in 1 .. 3 : m < n => m + 1 \in 1 .. 3 /\ m + 1 <= n
            OBVIOUS
        <3> QED BY <1>1, <1>2, <1>3, <3>1
    <2>3. f.kept \cup f.got \subseteq People
        BY <1>1
    <2>4. fetch' \in Fetch
        BY <2>1, <2>2, <2>3 DEF Fetch
    <2>5. fetch'.cap = f.cap /\ fetch'.pass = f.pass + 1
        BY <2>1 DEF Fetch
    <2> QED BY <2>1, <2>2, <2>4, <2>5
<1>4. CASE ~(f.pass < Len(client.passes))
    <2>1. fetch' = [f EXCEPT !.phase = "done", !.at = 0, !.kept = {}, !.got = Found(f)]
        BY <1>4 DEF EndPass
    <2>2. Found(f) \subseteq People
        BY <1>1 DEF Found
    <2> HIDE DEF Found
    <2>3. fetch' \in Fetch
        BY <2>1, <2>2 DEF Fetch
    <2>4. fetch'.phase = "done"
        BY <2>1 DEF Fetch
    <2> QED BY <2>1, <2>2, <2>3, <2>4
<1> QED BY <1>3, <1>4

\* A pass that ends early is excused, or has filled its one page; others have read everybody.
LEMMA EndPassReads ==
    ASSUME client \in Clients, standing \in [People -> Everyone \cup {"out"}],
           NEW f \in Fetch, f.phase = "pages", f.cap \in PageCaps,
           f.pass <= Len(client.passes), EndPass(f), UNCHANGED <<client, standing>>,
           \A p \in f.steady : standing[p] # "out",
           \/ PassExcused(f)
           \/ client.step = "once" /\ f.kept = {} /\ Cardinality(f.got) = f.cap
           \/ NobodyMissed(f) /\ WholePass(f)
    PROVE  ReadingGood' /\ SuccessIsWhole'
<1>1. /\ f.pass \in 1 .. 3 /\ f.steady \subseteq People
    BY DEF Fetch
<1>2. Asks(client) /\ Styled(client)
    BY ClientsGood
<1>3. Len(client.passes) \in 1 .. 3 /\ (client.step = "once" => Len(client.passes) = 1)
    BY <1>2 DEF Asks, Styled
<1>4. CASE f.pass < Len(client.passes)
    <2>1. fetch' = [f EXCEPT !.pass = @ + 1, !.at = 0, !.kept = @ \cup f.got, !.got = {}]
        BY <1>4 DEF EndPass, AtStart
    <2>2. /\ fetch'.phase = "pages" /\ fetch'.pass = f.pass + 1 /\ fetch'.at = 0
          /\ fetch'.kept = f.kept \cup f.got /\ fetch'.got = {} /\ fetch'.steady = f.steady
          /\ fetch'.cut = f.cut /\ fetch'.shifted = f.shifted /\ fetch'.cap = f.cap
        BY <2>1 DEF Fetch
    <2>3. client.step # "once"
        <3>1. \A m \in 1 .. 3 : ~(m < 1)
            OBVIOUS
        <3> QED BY <1>1, <1>3, <1>4, <3>1
    <2>4. PassExcused(f) => PassExcused(fetch)'
        BY <2>2 DEF PassExcused
    <2>5. ASSUME NobodyMissed(f), WholePass(f)
          PROVE  NobodyMissed(fetch)'
        <3>1. ASSUME NEW p \in f.steady, NEW j \in 1 .. f.pass, Holder(p), p \in ListingOf(j)
              PROVE  p \in f.kept \cup f.got
            <4>1. CASE j = f.pass
                BY <2>5, <3>1, <4>1 DEF WholePass
            <4>2. CASE j # f.pass
                <5>1. j \in 1 .. f.pass - 1
                    BY <1>1, <4>2
                <5> QED BY <2>5, <3>1, <5>1 DEF NobodyMissed
            <4> QED BY <4>1, <4>2
        <3>2. ASSUME NEW p \in f.steady, p \in ListingOf(f.pass + 1)
              PROVE  ~Passed(p, f.pass + 1, 0)
            <4>1. p \in Nat /\ p > 0
                BY <1>1, FetchAssumptions DEF People
            <4>2. ListingOf(f.pass + 1) \in SUBSET People
                BY DEF ListingOf
            <4>3. RankIn(ListingOf(f.pass + 1), p) > 0 /\ RankIn(ListingOf(f.pass + 1), p) \in Nat
                BY <3>2, <4>2, RankPositive, RankTyped
            <4> QED BY <4>1, <4>3 DEF Passed
        <3>3. \A j : ListingOf(j)' = ListingOf(j)
            BY DEF ListingOf, Lists
        <3>4. \A p : Holder(p)' = Holder(p)
            BY DEF Holder
        <3>5. f.pass + 1 - 1 = f.pass
            BY <1>1
        <3>6. \A p \in fetch'.steady, j \in 1 .. fetch'.pass - 1 :
                  Holder(p)' /\ p \in ListingOf(j)' => p \in fetch'.kept
            <4> SUFFICES ASSUME NEW p \in fetch'.steady, NEW j \in 1 .. fetch'.pass - 1,
                                Holder(p)', p \in ListingOf(j)'
                         PROVE  p \in fetch'.kept
                OBVIOUS
            <4>1. p \in f.steady /\ Holder(p) /\ p \in ListingOf(j)
                BY <2>2, <3>3, <3>4
            <4>2. j \in 1 .. f.pass
                <5>1. fetch'.pass - 1 = f.pass
                    <6>1. \A m \in 1 .. 3 : \A n : n = m + 1 => n - 1 = m
                        OBVIOUS
                    <6>2. fetch'.pass = f.pass + 1
                        BY <2>2
                    <6> QED BY <1>1, <6>1, <6>2
                <5> QED BY <5>1
            <4>3. p \in f.kept \cup f.got
                BY <3>1, <4>1, <4>2
            <4> QED BY <2>2, <4>3
        <3>7. \A p \in fetch'.steady :
                  p \in ListingOf(fetch'.pass) => ~Passed(p, fetch'.pass, fetch'.at)
            BY <2>2, <3>2
        <3>8. \A p : Passed(p, fetch.pass, fetch.at)' = Passed(p, fetch'.pass, fetch'.at)
            BY DEF Passed, ListingOf, Lists
        <3>9. ListingOf(fetch.pass)' = ListingOf(fetch'.pass)
            BY DEF ListingOf, Lists
        <3> QED BY <3>6, <3>7, <3>8, <3>9 DEF NobodyMissed
    <2>6. ReadingGood'
        BY <2>2, <2>3, <2>4, <2>5 DEF ReadingGood
    <2>7. SuccessIsWhole'
        BY <2>2 DEF SuccessIsWhole
    <2> QED BY <2>6, <2>7
<1>5. CASE ~(f.pass < Len(client.passes))
    <2>1. fetch' = [f EXCEPT !.phase = "done", !.at = 0, !.kept = {}, !.got = Found(f)]
        BY <1>5 DEF EndPass
    <2>2. /\ fetch'.phase = "done" /\ fetch'.got = Found(f) /\ fetch'.steady = f.steady
          /\ fetch'.cut = f.cut /\ fetch'.shifted = f.shifted /\ fetch'.cap = f.cap
        BY <2>1 DEF Fetch
    <2>3. ReadingGood'
        BY <2>2 DEF ReadingGood
    <2>4. f.pass = Len(client.passes)
        BY <1>1, <1>3, <1>5
    <2>5. PassExcused(f) => MayBeShort'
        BY <2>2 DEF PassExcused, MayBeShort
    <2>6. client.step = "once" /\ f.kept = {} /\ Cardinality(f.got) = f.cap => MayBeShort'
        <3>1. client.step = "once" => ~client.fallback
            BY <1>2 DEF Styled
        <3>2. client.step = "once" /\ f.kept = {} => Found(f) = f.got
            BY <3>1 DEF Found
        <3> QED BY <2>2, <3>2 DEF MayBeShort
    <2>7. ASSUME NobodyMissed(f), WholePass(f), NEW p \in f.steady, standing[p] \in client.counts
          PROVE  p \in Found(f)
        <3>1. Holder(p) /\ p \in People
            BY <1>1, <2>7 DEF Holder
        <3>2. CASE client.fallback
            <4>1. client.counts \subseteq Lists(client, f.pass)
                BY <1>2, <2>4, <3>2 DEF Asks
            <4>2. p \in ListingOf(f.pass)
                BY <2>7, <3>1, <4>1 DEF ListingOf
            <4>3. p \in f.got
                BY <2>7, <3>1, <4>2 DEF WholePass
            <4>4. f.got # {}
                BY <4>3
            <4>5. Found(f) = f.got
                BY <2>4, <3>2, <4>4 DEF Found
            <4> QED BY <4>3, <4>5
        <3>3. CASE ~client.fallback
            <4>1. PICK j \in 1 .. Len(client.passes) : standing[p] \in Lists(client, j)
                BY <1>2, <2>7 DEF Asks
            <4>2. p \in ListingOf(j)
                BY <3>1, <4>1 DEF ListingOf
            <4>3. j = f.pass \/ j \in 1 .. f.pass - 1
                BY <1>1, <2>4
            <4>4. p \in f.kept \/ p \in f.got
                BY <2>7, <3>1, <4>2, <4>3 DEF WholePass, NobodyMissed
            <4>5. Found(f) = f.kept \cup f.got
                BY <3>3 DEF Found
            <4> QED BY <4>4, <4>5
        <3> QED BY <3>2, <3>3
    <2>8. SuccessIsWhole'
        BY <2>2, <2>5, <2>6, <2>7 DEF SuccessIsWhole
    <2> QED BY <2>3, <2>8
<1> QED BY <1>4, <1>5

-----------------------------------------------------------------------------
(* Each step *)

LEMMA FetchStart == FetchInit => FetchInv
<1> SUFFICES ASSUME FetchInit
             PROVE  FetchInv
    OBVIOUS
<1>1. FetchTyped
    <2>1. standing \in [People -> Everyone \cup {"out"}]
        BY DEF FetchInit, Everyone, Licensed
    <2>2. fetch \in Fetch
        BY FetchAssumptions DEF FetchInit, NoFetch, Fetch
    <2>3. fetch.phase # "pages"
        BY DEF FetchInit, NoFetch
    <2> QED BY <2>1, <2>2, <2>3, FetchAssumptions DEF FetchInit, FetchTyped
<1>2. fetch.phase = "idle" /\ fetch.got = {} /\ fetch.kept = {} /\ fetch.steady = {}
    BY DEF FetchInit, NoFetch
<1> QED BY <1>1, <1>2 DEF FetchInv, ReadingGood, SuccessIsWhole

\* A step that leaves what was read alone.
LEMMA MoveGood ==
    ASSUME FetchInv, NEW p \in People, NEW s \in Everyone \cup {"out"}, Move(p, s)
    PROVE  FetchInv'
<1>1. /\ fetch' = [fetch EXCEPT !.steady = @ \ {p}, !.shifted = @ \/ standing[p] # "out"]
      /\ standing' = [standing EXCEPT ![p] = s] /\ changes' = changes + 1
      /\ changes < MaxChanges
      /\ UNCHANGED client
    BY DEF Move
<1>2. FetchTyped /\ ReadingGood /\ SuccessIsWhole
    BY DEF FetchInv
<1>3. /\ fetch'.phase = fetch.phase /\ fetch'.pass = fetch.pass /\ fetch'.at = fetch.at
      /\ fetch'.kept = fetch.kept /\ fetch'.got = fetch.got /\ fetch'.cap = fetch.cap
      /\ fetch'.cut = fetch.cut /\ fetch'.steady = fetch.steady \ {p}
      /\ fetch'.shifted = (fetch.shifted \/ standing[p] # "out")
    BY <1>1, <1>2 DEF FetchTyped, Fetch
<1>4. FetchTyped'
    <2>1. standing' \in [People -> Everyone \cup {"out"}]
        BY <1>1, <1>2 DEF FetchTyped
    <2>2. changes' \in 0 .. MaxChanges
        BY <1>1, <1>2, FetchAssumptions DEF FetchTyped
    <2>3. fetch' \in Fetch
        <3>1. PICK b \in BOOLEAN : b = (fetch.shifted \/ standing[p] # "out")
            OBVIOUS
        <3>2. fetch' = [fetch EXCEPT !.steady = fetch.steady \ {p}, !.shifted = b]
            BY <1>1, <3>1
        <3> QED BY <1>2, <3>2 DEF FetchTyped, Fetch
    <2> QED BY <1>1, <1>2, <1>3, <2>1, <2>2, <2>3 DEF FetchTyped
<1>6. \A q \in fetch'.steady : q \in fetch.steady /\ q # p /\ q \in People
          /\ standing'[q] = standing[q] /\ Holder(q)' = Holder(q)
    <2>1. fetch.steady \subseteq People /\ standing \in [People -> Everyone \cup {"out"}]
        BY <1>2 DEF FetchTyped, Fetch
    <2>2. \A q \in fetch'.steady : q \in fetch.steady /\ q # p /\ q \in People
        BY <1>3, <2>1
    <2>3. \A q \in fetch'.steady : standing'[q] = standing[q]
        BY <1>1, <2>1, <2>2
    <2>4. \A q \in fetch'.steady : Holder(q)' = Holder(q)
        BY <1>1, <2>3 DEF Holder
    <2> QED BY <2>2, <2>3, <2>4
<1>7. PassExcused(fetch) => PassExcused(fetch)'
    BY <1>1, <1>3 DEF PassExcused
<1>8. ASSUME fetch.phase = "pages", ~PassExcused(fetch)', NobodyMissed(fetch)
      PROVE  NobodyMissed(fetch)'
    <2>1. \A j, q : q \in fetch'.steady => (q \in ListingOf(j)' <=> q \in ListingOf(j))
        BY <1>1, <1>6 DEF ListingOf, Lists
    <2>2. client.step = "token" \/ standing[p] = "out"
        BY <1>1, <1>3, <1>8 DEF PassExcused
    <2>3. ASSUME NEW q \in fetch'.steady, Passed(q, fetch.pass, fetch.at)'
          PROVE  Passed(q, fetch.pass, fetch.at)
        <3>1. CASE client.step = "token"
            BY <1>1, <1>3, <2>3, <3>1 DEF Passed
        <3>2. CASE client.step # "token"
            <4> DEFINE L == ListingOf(fetch.pass)
                       M == {x \in People : standing'[x] \in Lists(client, fetch.pass)}
            <4>1. Lists(client, fetch.pass) \subseteq Everyone /\ "out" \notin Everyone
                <5>1. fetch.pass \in 1 .. 3 /\ fetch.pass <= Len(client.passes)
                    BY <1>2, <1>8 DEF FetchTyped, Fetch
                <5>2. Len(client.passes) \in 1 .. 3
                    BY <1>2, ClientsGood DEF Asks, FetchTyped
                <5>3. fetch.pass \in 1 .. Len(client.passes)
                    <6>1. \A m, n \in 1 .. 3 : m <= n => m \in 1 .. n
                        OBVIOUS
                    <6> QED BY <5>1, <5>2, <6>1
                <5> QED BY <1>2, <5>3, ClientsGood DEF Asks, FetchTyped, Everyone, Licensed
            <4>2. L \in SUBSET People /\ M \in SUBSET People
                BY DEF ListingOf
            <4>3. \A x \in L : x # p
                BY <2>2, <3>2, <4>1 DEF ListingOf
            <4>4. L \subseteq M
                BY <1>1, <1>2, <4>3 DEF ListingOf, FetchTyped
            <4>5. RankIn(L, q) <= RankIn(M, q) /\ RankIn(L, q) \in Nat /\ RankIn(M, q) \in Nat
                <5> HIDE DEF L, M
                <5> QED BY <4>2, <4>4, RankGrows, RankTyped
            <4>6. fetch.at \in Nat /\ RankIn(M, q) <= fetch.at
                <5>1. ListingOf(fetch.pass)' = M
                    BY <1>1, <1>3 DEF ListingOf, Lists
                <5>2. RankIn(M, q) <= fetch.at
                    <6>1. RankIn(ListingOf(fetch.pass)', q) <= fetch'.at
                        BY <1>1, <2>3, <3>2 DEF Passed
                    <6> QED BY <1>3, <5>1, <6>1
                <5> QED BY <1>2, <5>2 DEF FetchTyped, Fetch
            <4>7. RankIn(L, q) <= fetch.at
                <5> HIDE DEF L, M
                <5> QED BY <4>5, <4>6
            <4> QED BY <3>2, <4>7 DEF Passed
        <3> QED BY <3>1, <3>2
    <2>4. \A q \in fetch'.steady, j \in 1 .. fetch'.pass - 1 :
              Holder(q)' /\ q \in ListingOf(j)' => q \in fetch'.kept
        BY <1>3, <1>6, <1>8, <2>1 DEF NobodyMissed
    <2>5. \A q \in fetch'.steady :
              Holder(q)' /\ q \in ListingOf(fetch.pass)' /\ Passed(q, fetch.pass, fetch.at)'
                  => q \in fetch'.got
        <3>1. ListingOf(fetch.pass)' = {x \in People : standing'[x] \in Lists(client, fetch.pass)}
            BY <1>1, <1>3 DEF ListingOf, Lists
        <3>2. \A q \in fetch'.steady :
                  q \in ListingOf(fetch.pass)' => q \in ListingOf(fetch.pass)
            BY <1>6, <3>1 DEF ListingOf
        <3> QED BY <1>3, <1>6, <1>8, <2>3, <3>2 DEF NobodyMissed
    <2> QED BY <2>4, <2>5 DEF NobodyMissed
<1>9. ReadingGood'
    <2>1. \A q \in fetch'.steady : standing'[q] # "out"
        BY <1>2, <1>6 DEF ReadingGood
    <2> QED BY <1>1, <1>2, <1>3, <1>7, <1>8, <2>1 DEF ReadingGood
<1>10. SuccessIsWhole'
    <2>1. MayBeShort => MayBeShort'
        BY <1>1, <1>3 DEF MayBeShort
    <2> QED BY <1>1, <1>2, <1>3, <1>6, <2>1 DEF SuccessIsWhole
<1> QED BY <1>4, <1>9, <1>10 DEF FetchInv

LEMMA BeginFetchGood ==
    ASSUME FetchInv, NEW cap \in PageCaps, BeginFetch(cap)
    PROVE  FetchInv'
<1>1. PICK phase \in {"pages", "failed"} :
          /\ fetch' = [NoFetch EXCEPT !.phase = phase, !.number = fetch.number + 1, !.cap = cap,
                                      !.steady = {p \in People : standing[p] # "out"}]
          /\ fetch.number < MaxFetches
          /\ UNCHANGED <<client, standing, changes>>
    BY DEF BeginFetch
<1>2. FetchTyped
    BY DEF FetchInv
<1>3. /\ fetch'.phase = phase /\ fetch'.pass = 1 /\ fetch'.at = 0 /\ fetch'.kept = {}
      /\ fetch'.got = {} /\ fetch'.cap = cap
      /\ fetch'.steady = {p \in People : standing[p] # "out"}
    BY <1>1 DEF NoFetch
<1>4. FetchTyped'
    <2>1. fetch' \in Fetch
        <3>1. fetch.number + 1 \in 0 .. MaxFetches
            BY <1>1, <1>2, FetchAssumptions DEF FetchTyped, Fetch
        <3>2. fetch' = [phase |-> phase, number |-> fetch.number + 1, pass |-> 1, at |-> 0,
                        cap |-> cap, kept |-> {}, got |-> {},
                        steady |-> {p \in People : standing[p] # "out"},
                        cut |-> FALSE, shifted |-> FALSE]
            BY <1>1 DEF NoFetch
        <3> QED BY <3>1, <3>2 DEF Fetch
    <2>2. 1 <= Len(client.passes)
        <3>1. Len(client.passes) \in 1 .. 3
            BY <1>2, ClientsGood DEF FetchTyped, Asks
        <3>2. \A n \in 1 .. 3 : 1 <= n
            OBVIOUS
        <3> QED BY <3>1, <3>2
    <2> QED BY <1>1, <1>2, <1>3, <2>1, <2>2 DEF FetchTyped
<1>6. NobodyMissed(fetch)'
    <2>1. ASSUME NEW p \in People, p \in ListingOf(1)'
          PROVE  ~Passed(p, fetch.pass, fetch.at)'
        <3> DEFINE L == {x \in People : standing'[x] \in Lists(client', 1)}
        <3>1. L = ListingOf(1)' /\ L \in SUBSET People
            BY DEF ListingOf, Lists
        <3>2. p \in Nat /\ p > 0
            BY FetchAssumptions DEF People
        <3>3. RankIn(L, p) > 0 /\ RankIn(L, p) \in Nat
            <4> HIDE DEF L
            <4> QED BY <2>1, <3>1, RankPositive, RankTyped
        <3>4. L = ListingOf(fetch.pass)'
            BY <1>3 DEF ListingOf, Lists
        <3> QED BY <1>3, <3>2, <3>3, <3>4 DEF Passed
    <2>2. \A p \in fetch'.steady : p \in ListingOf(fetch.pass)' => ~Passed(p, fetch.pass, fetch.at)'
        BY <1>3, <2>1 DEF ListingOf, Lists
    <2>3. \A j \in 1 .. fetch'.pass - 1 : FALSE
        BY <1>3
    <2> QED BY <2>2, <2>3 DEF NobodyMissed
<1>7. ReadingGood'
    BY <1>1, <1>3, <1>6 DEF ReadingGood
<1>8. SuccessIsWhole'
    BY <1>3 DEF SuccessIsWhole
<1> QED BY <1>4, <1>7, <1>8 DEF FetchInv

\* What a page adds.
PageHolders == {p \in Page : standing[p] \in client.counts \/ client.fallback}

\* Everybody on the one page of such a client holds a licence.
LEMMA OnePageHeld ==
    ASSUME Reading, Styled(client), client.step = "once"
    PROVE  PageHolders = Page
<1>1. /\ IsFiniteSet(Page) /\ Listed \in SUBSET People /\ Page \subseteq Listed
    BY PageFacts
<1>2. \A p \in Page : standing[p] \in client.counts \/ client.fallback
    <2>1. Page \subseteq Listed /\ client.counts = Everyone
        BY <1>1 DEF Styled
    <2>2. \A p \in Listed : standing[p] \in Lists(client, fetch.pass)
        BY DEF Listed, ThisPass, Lists
    <2>3. Lists(client, fetch.pass) \subseteq Everyone
        <3>1. fetch.pass \in 1 .. 3 /\ fetch.pass <= Len(client.passes) /\ Asks(client)
            BY ClientsGood DEF Reading, FetchTyped, Fetch
        <3>2. Len(client.passes) \in 1 .. 3
            BY <3>1 DEF Asks
        <3>3. \A m, n \in 1 .. 3 : m <= n => m \in 1 .. n
            OBVIOUS
        <3> QED BY <3>1, <3>2, <3>3 DEF Asks
    <2> QED BY <2>1, <2>2, <2>3
<1> QED BY <1>2 DEF PageHolders

LEMMA ReadPageGood ==
    ASSUME FetchInv, ReadPage
    PROVE  FetchInv'
<1>1. /\ fetch.phase = "pages" /\ FetchTyped /\ ReadingGood /\ Reading
      /\ UNCHANGED <<client, standing, changes>>
    BY DEF FetchInv, ReadPage, Reading
<1>2. Asks(client) /\ Styled(client)
    BY <1>1, ClientsGood DEF FetchTyped
<1>3. LET f == [fetch EXCEPT !.at = NextAt, !.got = @ \cup PageHolders]
      IN IF IsLast THEN EndPass(f) ELSE fetch' = f
    BY DEF ReadPage, PageHolders
<1>4. PICK keys : keys = PageHolders
    OBVIOUS
<1>5. PICK n \in Nat : n = NextAt
    BY <1>1, <1>2, NextTyped
<1>6. keys \subseteq People /\ \A p \in Page : Holder(p) => p \in keys
    BY <1>1, <1>4, PageFacts DEF PageHolders, Holder
<1>7. PICK f : f = [fetch EXCEPT !.at = n, !.got = fetch.got \cup keys]
    OBVIOUS
<1>8. IF IsLast THEN EndPass(f) ELSE fetch' = f
    BY <1>3, <1>4, <1>5, <1>7
<1>9. /\ f \in Fetch /\ f.phase = "pages" /\ f.pass = fetch.pass /\ f.at = n /\ f.kept = fetch.kept
      /\ f.got = fetch.got \cup keys /\ f.cap = fetch.cap /\ f.cap \in PageCaps
      /\ f.cut = fetch.cut /\ f.steady = fetch.steady /\ f.shifted = fetch.shifted
      /\ f.pass <= Len(client.passes)
    <2>1. fetch \in Fetch /\ fetch.got \subseteq People
        BY <1>1 DEF FetchTyped, Fetch, People
    <2>2. fetch.got \cup keys \subseteq People
        BY <1>6, <2>1
    <2>3. f \in Fetch
        BY <1>7, <2>1, <2>2 DEF Fetch
    <2>4. /\ f.phase = fetch.phase /\ f.pass = fetch.pass /\ f.at = n /\ f.kept = fetch.kept
          /\ f.got = fetch.got \cup keys /\ f.cap = fetch.cap
          /\ f.cut = fetch.cut /\ f.steady = fetch.steady /\ f.shifted = fetch.shifted
        BY <1>7, <2>1 DEF Fetch
    <2> QED BY <1>1, <2>3, <2>4 DEF FetchTyped
<1>13. PassExcused(f) <=> PassExcused(fetch)
    BY <1>9 DEF PassExcused
<1>14. Listed = ListingOf(f.pass)
    BY <1>1, <1>9, PageFacts
<1>15. ASSUME ~PassExcused(fetch)
       PROVE  NobodyMissed(f)
    <2>1. NobodyMissed(fetch)
        BY <1>1, <1>15 DEF ReadingGood
    <2>2. ASSUME NEW p \in f.steady, Holder(p), p \in ListingOf(f.pass), Passed(p, f.pass, f.at)
          PROVE  p \in f.got
        <3>1. Passed(p, fetch.pass, fetch.at) \/ p \in Page
            BY <1>1, <1>2, <1>5, <1>9, <1>14, <1>15, <2>2, MoreCovered
        <3>2. p \in fetch.got \/ p \in keys
            BY <1>6, <1>9, <2>1, <2>2, <3>1 DEF NobodyMissed
        <3> QED BY <1>9, <3>2
    <2> QED BY <1>9, <2>1, <2>2 DEF NobodyMissed
<1>16. CASE IsLast
    <2>1. EndPass(f)
        BY <1>8, <1>16
    <2>2. /\ fetch' \in Fetch
          /\ fetch'.phase = "pages" => fetch'.cap \in PageCaps /\ fetch'.pass <= Len(client'.passes)
        BY <1>1, <1>9, <2>1, EndPassTyped DEF FetchTyped
    <2>3. FetchTyped'
        BY <1>1, <2>2 DEF FetchTyped
    <2>5. client.step = "once" => f.kept = {} /\ (Cardinality(Page) < fetch.cap
                                                     \/ Cardinality(f.got) = f.cap)
        <3> SUFFICES ASSUME client.step = "once"
                     PROVE  f.kept = {} /\ (Cardinality(Page) < fetch.cap
                                                \/ Cardinality(f.got) = f.cap)
            OBVIOUS
        <3>1. f.kept = {} /\ f.got = keys
            BY <1>1, <1>9 DEF ReadingGood
        <3>2. keys = Page
            BY <1>1, <1>2, <1>4, OnePageHeld
        <3>3. fetch.cap \in Nat /\ Cardinality(Page) \in Nat /\ Cardinality(Page) <= fetch.cap
            BY <1>1, PageFacts
        <3>4. Cardinality(Page) < fetch.cap \/ Cardinality(Page) = fetch.cap
            BY <3>3
        <3> QED BY <1>9, <3>1, <3>2, <3>4
    <2>6. ASSUME ~PassExcused(fetch), client.step = "once" => Cardinality(Page) < fetch.cap
          PROVE  WholePass(f)
        <3>1. ASSUME NEW p \in f.steady, Holder(p), p \in ListingOf(f.pass)
              PROVE  p \in f.got
            <4>1. Passed(p, fetch.pass, fetch.at) \/ p \in Page
                BY <1>1, <1>2, <1>14, <1>16, <2>6, <3>1, EveryoneCovered
            <4>2. NobodyMissed(fetch)
                BY <1>1, <2>6 DEF ReadingGood
            <4>3. p \in fetch.got \/ p \in keys
                BY <1>6, <1>9, <3>1, <4>1, <4>2 DEF NobodyMissed
            <4> QED BY <1>9, <4>3
        <3> QED BY <3>1 DEF WholePass
    <2>7. \/ PassExcused(f)
          \/ client.step = "once" /\ f.kept = {} /\ Cardinality(f.got) = f.cap
          \/ NobodyMissed(f) /\ WholePass(f)
        BY <1>13, <1>15, <2>5, <2>6
    <2>8. \A p \in f.steady : standing[p] # "out"
        BY <1>1, <1>9 DEF ReadingGood
    <2>9. ReadingGood' /\ SuccessIsWhole'
        BY <1>1, <1>9, <2>1, <2>7, <2>8, EndPassReads DEF FetchTyped
    <2> QED BY <2>3, <2>9 DEF FetchInv
<1>17. CASE ~IsLast
    <2>1. fetch' = f
        BY <1>8, <1>17
    <2>2. FetchTyped'
        BY <1>1, <1>9, <2>1 DEF FetchTyped
    <2>4. client.step # "once"
        <3>1. client.step = "once" => client.last = "once"
            BY <1>2 DEF Styled
        <3>2. client.last = "once" => IsLast
            BY DEF IsLast
        <3> QED BY <1>17, <3>1, <3>2
    <2>5. PassExcused(f) => PassExcused(fetch)'
        BY <1>1, <2>1 DEF PassExcused
    <2>6. NobodyMissed(f) => NobodyMissed(fetch)'
        BY <1>1, <2>1 DEF NobodyMissed, Holder, ListingOf, Lists, Passed
    <2>7. ReadingGood'
        BY <1>1, <1>9, <1>13, <1>15, <2>1, <2>4, <2>5, <2>6 DEF ReadingGood
    <2>8. SuccessIsWhole'
        BY <1>9, <2>1 DEF SuccessIsWhole
    <2> QED BY <2>2, <2>7, <2>8 DEF FetchInv
<1> QED BY <1>16, <1>17

LEMMA RequestFailsGood ==
    ASSUME FetchInv, RequestFails
    PROVE  FetchInv'
<1>1. /\ fetch.phase = "pages" /\ FetchTyped /\ ReadingGood
      /\ UNCHANGED <<client, standing, changes>>
    BY DEF FetchInv, RequestFails
<1>2. Asks(client) /\ fetch \in Fetch /\ fetch.cap \in PageCaps /\ fetch.pass <= Len(client.passes)
    BY <1>1, ClientsGood DEF FetchTyped
<1>3. PICK answer \in {ThisPass.status, ThisPass.exception} :
          LET cut == [fetch EXCEPT !.cut = TRUE] IN
          CASE answer = "raise" -> fetch' = [fetch EXCEPT !.phase = "failed"]
            [] answer = "stop" -> EndPass(cut)
            [] answer = "drop" -> EndPass([cut EXCEPT !.got = {}])
    BY DEF RequestFails
<1>4. answer \in FetchOutcomes
    <2>1. Len(client.passes) \in 1 .. 3 /\ fetch.pass \in 1 .. 3
        BY <1>2 DEF Asks, Fetch
    <2>2. \A m, n \in 1 .. 3 : m <= n => m \in 1 .. n
        OBVIOUS
    <2>3. fetch.pass \in 1 .. Len(client.passes)
        BY <1>2, <2>1, <2>2
    <2> QED BY <1>2, <1>3, <2>3 DEF Asks, Fails, ThisPass
<1>5. CASE answer = "raise"
    <2>1. fetch' = [fetch EXCEPT !.phase = "failed"]
        BY <1>3, <1>5
    <2>2. /\ fetch'.phase = "failed" /\ fetch'.kept = fetch.kept /\ fetch'.got = fetch.got
          /\ fetch'.steady = fetch.steady /\ fetch' \in Fetch
        BY <1>2, <2>1 DEF Fetch
    <2>3. FetchTyped'
        BY <1>1, <2>1, <2>2 DEF FetchTyped
    <2>5. ReadingGood' /\ SuccessIsWhole'
        BY <1>1, <2>2 DEF ReadingGood, SuccessIsWhole
    <2> QED BY <2>3, <2>5 DEF FetchInv
<1>6. CASE answer # "raise"
    <2>1. PICK got \in {fetch.got, {}} : EndPass([fetch EXCEPT !.cut = TRUE, !.got = got])
        <3>1. CASE answer = "stop"
            <4>1. EndPass([fetch EXCEPT !.cut = TRUE])
                BY <1>3, <3>1
            <4>2. [fetch EXCEPT !.cut = TRUE] = [fetch EXCEPT !.cut = TRUE, !.got = fetch.got]
                BY <1>2 DEF Fetch
            <4> QED BY <4>1, <4>2
        <3>2. CASE answer = "drop"
            <4>1. EndPass([[fetch EXCEPT !.cut = TRUE] EXCEPT !.got = {}])
                BY <1>3, <3>2
            <4>2. [[fetch EXCEPT !.cut = TRUE] EXCEPT !.got = {}]
                      = [fetch EXCEPT !.cut = TRUE, !.got = {}]
                OBVIOUS
            <4> QED BY <4>1, <4>2
        <3> QED BY <1>4, <1>6, <3>1, <3>2 DEF FetchOutcomes
    <2>2. PICK f : f = [fetch EXCEPT !.cut = TRUE, !.got = got]
        OBVIOUS
    <2>3. EndPass(f)
        BY <2>1, <2>2
    <2>4. /\ f \in Fetch /\ f.phase = "pages" /\ f.cap \in PageCaps /\ f.pass <= Len(client.passes)
          /\ f.cut /\ f.kept = fetch.kept /\ f.got = got /\ f.steady = fetch.steady
        <3>1. got \in SUBSET People
            BY <1>2 DEF Fetch
        <3>2. f \in Fetch
            BY <1>2, <2>2, <3>1 DEF Fetch
        <3>3. /\ f.phase = fetch.phase /\ f.cap = fetch.cap /\ f.pass = fetch.pass /\ f.cut
              /\ f.kept = fetch.kept /\ f.got = got /\ f.steady = fetch.steady
            BY <1>2, <2>2 DEF Fetch
        <3> QED BY <1>1, <1>2, <3>2, <3>3
    <2>5. /\ fetch' \in Fetch
          /\ fetch'.phase = "pages" => fetch'.cap \in PageCaps /\ fetch'.pass <= Len(client'.passes)
        BY <1>1, <2>3, <2>4, EndPassTyped DEF FetchTyped
    <2>6. FetchTyped'
        BY <1>1, <2>5 DEF FetchTyped
    <2>8. ReadingGood' /\ SuccessIsWhole'
        <3>1. PassExcused(f) /\ \A p \in f.steady : standing[p] # "out"
            BY <1>1, <2>4 DEF PassExcused, ReadingGood
        <3> QED BY <1>1, <2>3, <2>4, <3>1, EndPassReads DEF FetchTyped
    <2> QED BY <2>6, <2>8 DEF FetchInv
<1> QED BY <1>5, <1>6

-----------------------------------------------------------------------------
LEMMA FetchStep == FetchInv /\ [FetchNext]_fetchVars => FetchInv'
<1> SUFFICES ASSUME FetchInv, [FetchNext]_fetchVars
             PROVE  FetchInv'
    OBVIOUS
<1>1. CASE \E p \in People, s \in Everyone \cup {"out"} : Move(p, s)
    BY <1>1, MoveGood
<1>3. CASE \E cap \in PageCaps : BeginFetch(cap)
    BY <1>3, BeginFetchGood
<1>4. CASE ReadPage
    BY <1>4, ReadPageGood
<1>5. CASE RequestFails
    BY <1>5, RequestFailsGood
<1>6. CASE UNCHANGED fetchVars
    <2>1. UNCHANGED <<client, standing, changes>> /\ fetch' = fetch
        BY <1>6 DEF fetchVars
    <2>2. FetchTyped'
        BY <2>1 DEF FetchInv, FetchTyped
    <2>4. ReadingGood'
        BY <2>1 DEF FetchInv, ReadingGood, PassExcused, NobodyMissed, Holder, ListingOf,
                    Lists, Passed
    <2>5. SuccessIsWhole'
        BY <2>1 DEF FetchInv, SuccessIsWhole, MayBeShort
    <2> QED BY <2>2, <2>4, <2>5 DEF FetchInv
<1> QED BY <1>1, <1>3, <1>4, <1>5, <1>6 DEF FetchNext

LEMMA FetchInvariant == FetchSpec => []FetchInv
<1> QED BY FetchStart, FetchStep, PTL DEF FetchSpec

(* The variables of the provider clients keep their types.                 *)
THEOREM FetchTypes == FetchSpec => []FetchTypeOK
<1>1. FetchInv => FetchTypeOK
    BY DEF FetchInv, FetchTyped, FetchTypeOK
<1> QED BY <1>1, FetchInvariant, PTL

(* A synchronisation that reports success has read every member that was   *)
(* there from beginning to end (the fetch_licenses loops of providers/),   *)
(* for each of the clients, any directory and any sizes of pages, except   *)
(* where MayBeShort says that the code cannot know better.                 *)
THEOREM SuccessReadsEverybody == FetchSpec => []SuccessIsWhole
<1> QED BY FetchInvariant, PTL DEF FetchInv

-----------------------------------------------------------------------------

StaffTable == [StaffIds -> StaffRow]

\* What the table promises: an address per employee, and an employee per address.
Addressed(rows) ==
    /\ rows \in StaffTable
    /\ \A k \in Employed(rows) : rows[k].email \in MailAddresses
    /\ \A i, j \in Employed(rows) : rows[i].email = rows[j].email => i = j

LEMMA DirectoryNames ==
    /\ Nobody \notin StaffIds /\ Nobody \notin MailAddresses
    /\ HrisIds \cap ManualIds = {} /\ HrisIds \subseteq StaffIds /\ ManualIds \subseteq StaffIds
<1> QED BY DirectoryAssumptions DEF StaffIds

LEMMA EntryTyped ==
    ASSUME NEW entry \in HrisEntries
    PROVE  /\ entry.status \in {"active", "offboarded"} /\ entry.email \in MailAddresses
           /\ entry.boss \in MailAddresses \cup {Nobody}
<1> QED BY DirectoryAssumptions

\* What resolve_manager_ids leaves as it was.
SameButManagers(rows, next) ==
    /\ next \in StaffTable
    /\ \A k \in StaffIds :
          /\ next[k].status = rows[k].status
          /\ next[k].email = rows[k].email
          /\ next[k].boss = rows[k].boss
          /\ next[k] = [rows[k] EXCEPT !.manager = next[k].manager]
    /\ \A k \in StaffIds \ Employed(rows) : next[k] = rows[k]

LEMMA ResolveKeeps ==
    ASSUME NEW rows \in StaffTable
    PROVE  SameButManagers(rows, Resolve(rows))
<1> DEFINE Named(k) == CHOOSE m \in HoldersOf(rows, rows[k].boss) : TRUE
           Chosen(k) == /\ k \in Employed(rows) /\ rows[k].boss # Nobody
                       /\ HoldersOf(rows, rows[k].boss) \ {k} # {}
           next == Resolve(rows)
<1>1. \A k \in StaffIds : rows[k] \in StaffRow
    BY DEF StaffTable
<1>2. next = [k \in StaffIds |-> IF Chosen(k) THEN [rows[k] EXCEPT !.manager = Named(k)]
                                 ELSE rows[k]]
    BY DEF Resolve
<1>3. \A k \in StaffIds : Chosen(k) => Named(k) \in StaffIds
    BY DEF HoldersOf, Employed
<1>4. \A k \in StaffIds : ~Chosen(k) => next[k] = rows[k]
    BY <1>2
<1>5. \A k \in StaffIds : Chosen(k) => next[k] = [rows[k] EXCEPT !.manager = Named(k)]
    BY <1>2
<1>6. \A k \in StaffIds \ Employed(rows) : ~Chosen(k)
    OBVIOUS
<1>7. DOMAIN next = StaffIds /\ next = [k \in StaffIds |-> next[k]]
    BY <1>2
<1> HIDE DEF Chosen, Named, next
<1>8. ASSUME NEW k \in StaffIds
      PROVE  /\ next[k] \in StaffRow
             /\ next[k].status = rows[k].status
             /\ next[k].email = rows[k].email
             /\ next[k].boss = rows[k].boss
             /\ next[k] = [rows[k] EXCEPT !.manager = next[k].manager]
    <2>1. CASE Chosen(k)
        <3>1. PICK m \in StaffIds : next[k] = [rows[k] EXCEPT !.manager = m]
            BY <1>3, <1>5, <2>1
        <3> QED BY <1>1, <3>1 DEF StaffRow
    <2>2. CASE ~Chosen(k)
        BY <1>1, <1>4, <2>2 DEF StaffRow
    <2> QED BY <2>1, <2>2
<1>9. next \in StaffTable
    BY <1>7, <1>8 DEF StaffTable
<1> QED BY <1>4, <1>6, <1>8, <1>9 DEF SameButManagers, next

LEMMA ResolveAddressed ==
    ASSUME NEW rows, Addressed(rows), NEW next, SameButManagers(rows, next)
    PROVE  /\ Addressed(next) /\ Employed(next) = Employed(rows)
           /\ \A e : HoldersOf(next, e) = HoldersOf(rows, e)
<1>1. Employed(next) = Employed(rows)
    BY DEF Employed, SameButManagers
<1>2. \A e : HoldersOf(next, e) = HoldersOf(rows, e)
    BY <1>1 DEF HoldersOf, SameButManagers, Employed
<1>3. \A k \in Employed(rows) : k \in StaffIds
    BY DEF Employed
<1> QED BY <1>1, <1>2, <1>3 DEF Addressed, SameButManagers

\* A manager's address leads to the one employee who holds it.
LEMMA ResolveFinds ==
    ASSUME NEW rows, Addressed(rows), NEW k \in Employed(rows)
    PROVE  /\ \A m \in Employed(rows) \ {k} :
                 rows[m].email = rows[k].boss => Resolve(rows)[k].manager = m
           /\ Resolve(rows)[k].manager # rows[k].manager =>
                 /\ Resolve(rows)[k].manager \in Employed(rows) \ {k}
                 /\ rows[Resolve(rows)[k].manager].email = rows[k].boss
<1> DEFINE H == HoldersOf(rows, rows[k].boss)
           m0 == CHOOSE m \in H : TRUE
<1>1. k \in StaffIds /\ rows[k] \in StaffRow
    BY DEF Addressed, StaffTable, Employed
<1>2. \A m \in H : m \in Employed(rows) /\ rows[m].email = rows[k].boss
    BY DEF HoldersOf
<1>3. \A i, j \in H : i = j
    BY <1>2 DEF Addressed
<1>4. \A m \in Employed(rows) \ {k} : rows[m].email = rows[k].boss =>
          m \in H /\ rows[k].boss # Nobody /\ m0 = m
    <2>1. \A m \in Employed(rows) \ {k} : rows[m].email = rows[k].boss =>
              m \in H /\ rows[k].boss # Nobody
        BY DirectoryNames DEF HoldersOf, Addressed
    <2>2. \A m \in H : m0 \in H
        OBVIOUS
    <2> QED BY <1>3, <2>1, <2>2
<1>5. CASE rows[k].boss # Nobody /\ H \ {k} # {}
    <2>1. Resolve(rows)[k] = [rows[k] EXCEPT !.manager = m0]
        BY <1>1, <1>5 DEF Resolve
    <2>2. Resolve(rows)[k].manager = m0
        BY <1>1, <2>1 DEF StaffRow
    <2>3. m0 \in H /\ m0 # k
        BY <1>3, <1>5
    <2> HIDE DEF m0, H
    <2> QED BY <1>2, <1>4, <2>2, <2>3
<1>6. CASE ~(rows[k].boss # Nobody /\ H \ {k} # {})
    <2>1. Resolve(rows)[k] = rows[k]
        BY <1>1, <1>6 DEF Resolve
    <2> HIDE DEF m0, H
    <2> QED BY <1>4, <1>6, <2>1
<1> QED BY <1>5, <1>6

-----------------------------------------------------------------------------
UpsertResult == [ok : BOOLEAN, rows : StaffTable]

LEMMA UpsertStep ==
    ASSUME NEW result \in UpsertResult, Addressed(result.rows),
           NEW k \in HrisIds, NEW entry \in HrisEntries,
           NEW next, next = Upsert(result, k, entry)
    PROVE  /\ next \in UpsertResult /\ Addressed(next.rows)
           /\ next.ok => /\ result.ok
                         /\ next.rows[k] = [status |-> entry.status, email |-> entry.email,
                                boss |-> entry.boss, manager |-> result.rows[k].manager]
                         /\ \A j \in StaffIds \ {k} : next.rows[j] = result.rows[j]
<1> DEFINE rows == result.rows
           row == [status |-> entry.status, email |-> entry.email,
                   boss |-> entry.boss, manager |-> rows[k].manager]
<1>1. CASE ~result.ok \/ HoldersOf(rows, entry.email) \ {k} # {}
    <2>1. next = [result EXCEPT !.ok = FALSE]
        BY <1>1 DEF Upsert
    <2>2. next \in UpsertResult /\ next.rows = rows /\ ~next.ok
        BY <2>1 DEF UpsertResult
    <2> QED BY <2>2
<1>2. CASE ~(~result.ok \/ HoldersOf(rows, entry.email) \ {k} # {})
    <2>0. k \in StaffIds /\ rows \in StaffTable
        BY DirectoryNames DEF UpsertResult
    <2>1. next = [result EXCEPT !.rows[k] = row]
        BY <1>2 DEF Upsert
    <2>2. next.ok = result.ok /\ next.rows = [rows EXCEPT ![k] = row]
          /\ next = [ok |-> result.ok, rows |-> [rows EXCEPT ![k] = row]]
        BY <2>1 DEF UpsertResult
    <2>3. row \in StaffRow
        BY <2>0, EntryTyped DEF StaffRow, StaffTable
    <2> DEFINE new == [rows EXCEPT ![k] = row]
    <2>4. new \in StaffTable /\ new[k] = row /\ \A j \in StaffIds \ {k} : new[j] = rows[j]
        BY <2>0, <2>3 DEF StaffTable
    <2>5. row.email \in MailAddresses /\ row.email = entry.email
        BY EntryTyped
    <2>6. \A j \in Employed(new) : j # k => j \in Employed(rows) /\ new[j] = rows[j]
        BY <2>4 DEF Employed
    <2>7. \A j \in Employed(rows) : j # k => rows[j].email # entry.email
        BY <1>2 DEF HoldersOf
    <2> HIDE DEF new, row
    <2>8. Addressed(new)
        BY <2>4, <2>5, <2>6, <2>7 DEF Addressed
    <2> QED BY <1>2, <2>0, <2>2, <2>4, <2>8 DEF UpsertResult, new, row
<1> QED BY <1>1, <1>2

\* f holds the results after each of the first n of an order.
UpsertsUpTo(n, f, rows, list, order) ==
    /\ DOMAIN f = 0 .. n
    /\ \A i \in 0 .. n :
          f[i] = IF i = 0 THEN [ok |-> TRUE, rows |-> rows]
                 ELSE Upsert(f[i - 1], order[i], list[order[i]])

LEMMA UpsertsExist ==
    ASSUME NEW rows, NEW list, NEW order
    PROVE  \A n \in Nat : \E f : UpsertsUpTo(n, f, rows, list, order)
<1> DEFINE T == {n \in Nat : ~\E f : UpsertsUpTo(n, f, rows, list, order)}
<1>1. SUFFICES ASSUME T # {}
               PROVE  FALSE
    OBVIOUS
<1>2. PICK m \in T : \A x \in T : m <= x
    BY <1>1, SmallestNumber
<1>3. m # 0
    <2> DEFINE f == [i \in 0 .. 0 |-> [ok |-> TRUE, rows |-> rows]]
    <2>1. UpsertsUpTo(0, f, rows, list, order)
        BY DEF UpsertsUpTo
    <2> QED BY <1>2, <2>1
<1>4. m \in Nat /\ m - 1 \in Nat /\ m - 1 \notin T
    BY <1>2, <1>3
<1>5. PICK f : UpsertsUpTo(m - 1, f, rows, list, order)
    BY <1>4
<1> DEFINE last == Upsert(f[m - 1], order[m], list[order[m]])
           g == [i \in 0 .. m |-> IF i = m THEN last ELSE f[i]]
<1>6. g[m] = last /\ \A i \in 0 .. m : i # m => g[i] = f[i]
    BY <1>4
<1>7. DOMAIN g = 0 .. m
    OBVIOUS
<1>8. \A i \in 0 .. m : /\ i # m => i \in 0 .. m - 1
                        /\ i # 0 => i - 1 \in 0 .. m - 1 /\ i - 1 \in 0 .. m /\ i - 1 # m
    BY <1>4
<1> HIDE DEF g
<1>9. ASSUME NEW i \in 0 .. m
      PROVE  g[i] = IF i = 0 THEN [ok |-> TRUE, rows |-> rows]
                    ELSE Upsert(g[i - 1], order[i], list[order[i]])
    <2>1. i # 0 => g[i - 1] = f[i - 1]
        BY <1>6, <1>8
    <2>2. CASE i = m
        BY <1>3, <1>6, <2>1, <2>2
    <2>3. CASE i # m
        <3>1. g[i] = f[i] /\ i \in 0 .. m - 1
            BY <1>6, <1>8, <2>3
        <3> QED BY <1>5, <2>1, <3>1 DEF UpsertsUpTo
    <2> QED BY <2>2, <2>3
<1>10. UpsertsUpTo(m, g, rows, list, order)
    BY <1>7, <1>9 DEF UpsertsUpTo
<1> QED BY <1>2, <1>10

\* What the recursion of upsert_all computes.
LEMMA UpsertAllIs ==
    ASSUME NEW rows, NEW list, NEW order, Len(order) \in Nat
    PROVE  \E f : UpsertsUpTo(Len(order), f, rows, list, order)
                    /\ UpsertAll(rows, list, order) = f[Len(order)]
<1> DEFINE L == Len(order)
           Is(f) == f = [n \in 0 .. L |->
                            IF n = 0 THEN [ok |-> TRUE, rows |-> rows]
                            ELSE Upsert(f[n - 1], order[n], list[order[n]])]
           After == CHOOSE f : Is(f)
<1>1. \E f : Is(f)
    <2>1. PICK f : UpsertsUpTo(L, f, rows, list, order)
        BY UpsertsExist
    <2> DEFINE g == [n \in 0 .. L |-> IF n = 0 THEN [ok |-> TRUE, rows |-> rows]
                                      ELSE Upsert(f[n - 1], order[n], list[order[n]])]
    <2>2. \A n \in 0 .. L : g[n] = f[n]
        BY <2>1 DEF UpsertsUpTo
    <2>3. \A n \in 0 .. L : n # 0 => n - 1 \in 0 .. L
        OBVIOUS
    <2>4. Is(g)
        BY <2>2, <2>3
    <2> QED BY <2>4
<1>2. Is(After)
    BY <1>1
<1>3. UpsertAll(rows, list, order) = After[L]
    BY DEF UpsertAll
<1> HIDE DEF After
<1>4. UpsertsUpTo(L, After, rows, list, order)
    BY <1>2 DEF UpsertsUpTo
<1> QED BY <1>3, <1>4

\* The rows after the first n of an order: those are as listed, the others as before.
ListedSoFar(n, result, rows, list, order) ==
    /\ result \in UpsertResult /\ Addressed(result.rows)
    /\ result.ok =>
          /\ \A i \in 1 .. n :
                result.rows[order[i]] =
                    [status |-> list[order[i]].status, email |-> list[order[i]].email,
                     boss |-> list[order[i]].boss, manager |-> rows[order[i]].manager]
          /\ \A k \in StaffIds : (\A i \in 1 .. n : order[i] # k) => result.rows[k] = rows[k]

LEMMA UpsertsList ==
    ASSUME NEW rows, Addressed(rows), NEW list, NEW N \in Nat, NEW order,
           \A i \in 1 .. N : order[i] \in HrisIds /\ list[order[i]] \in HrisEntries,
           \A i, j \in 1 .. N : order[i] = order[j] => i = j,
           NEW f, UpsertsUpTo(N, f, rows, list, order)
    PROVE  \A n \in 0 .. N : ListedSoFar(n, f[n], rows, list, order)
<1> DEFINE T == {n \in 0 .. N : ~ListedSoFar(n, f[n], rows, list, order)}
<1>1. SUFFICES ASSUME T # {}
               PROVE  FALSE
    OBVIOUS
<1>2. PICK m \in T : \A x \in T : m <= x
    <2>1. T \in SUBSET Nat
        OBVIOUS
    <2> QED BY <1>1, <2>1, SmallestNumber
<1>3. m \in 0 .. N /\ m \in Nat
    BY <1>2
<1>4. m # 0
    <2>1. SUFFICES ASSUME m = 0
                   PROVE  FALSE
        OBVIOUS
    <2>2. f[0] = [ok |-> TRUE, rows |-> rows]
        BY <2>1 DEF UpsertsUpTo
    <2>3. f[0] \in UpsertResult /\ f[0].rows = rows
        BY <2>2 DEF UpsertResult, Addressed
    <2>4. \A i \in 1 .. 0 : FALSE
        OBVIOUS
    <2>5. ListedSoFar(0, f[0], rows, list, order)
        BY <2>3, <2>4 DEF ListedSoFar
    <2> QED BY <1>2, <2>1, <2>5
<1>5. m - 1 \in 0 .. N /\ m - 1 \notin T /\ m \in 1 .. N
    BY <1>2, <1>3, <1>4
<1>6. ListedSoFar(m - 1, f[m - 1], rows, list, order)
    BY <1>5
<1> DEFINE k == order[m]
           entry == list[k]
           next == Upsert(f[m - 1], k, entry)
<1>7. f[m] = next
    BY <1>3, <1>4 DEF UpsertsUpTo
<1>8. k \in HrisIds /\ entry \in HrisEntries /\ k \in StaffIds
    BY <1>5, DirectoryNames
<1>9. f[m - 1] \in UpsertResult /\ Addressed(f[m - 1].rows)
    BY <1>6 DEF ListedSoFar
<1> HIDE DEF next, entry
<1>10. /\ next \in UpsertResult /\ Addressed(next.rows)
       /\ next.ok => /\ f[m - 1].ok
                     /\ next.rows[k] = [status |-> entry.status, email |-> entry.email,
                            boss |-> entry.boss, manager |-> f[m - 1].rows[k].manager]
                     /\ \A j \in StaffIds \ {k} : next.rows[j] = f[m - 1].rows[j]
    BY <1>8, <1>9, UpsertStep DEF next
<1>11. \A i \in 1 .. m : i = m \/ i \in 1 .. m - 1
    BY <1>3
<1>12. \A i \in 1 .. m - 1 : i \in 1 .. m /\ i \in 1 .. N /\ i # m /\ order[i] # k
    BY <1>3, <1>5
<1>13. ListedSoFar(m, next, rows, list, order)
    <2>1. SUFFICES ASSUME next.ok
                   PROVE  /\ \A i \in 1 .. m :
                                next.rows[order[i]] =
                                    [status |-> list[order[i]].status,
                                     email |-> list[order[i]].email,
                                     boss |-> list[order[i]].boss,
                                     manager |-> rows[order[i]].manager]
                          /\ \A j \in StaffIds : (\A i \in 1 .. m : order[i] # j)
                                                    => next.rows[j] = rows[j]
        BY <1>10 DEF ListedSoFar
    <2>2. f[m - 1].rows[k] = rows[k]
        BY <1>6, <1>8, <1>10, <1>12, <2>1 DEF ListedSoFar
    <2>3. \A i \in 1 .. m - 1 : next.rows[order[i]] = f[m - 1].rows[order[i]]
        BY <1>10, <1>12, <2>1, DirectoryNames
    <2>4. ASSUME NEW i \in 1 .. m
          PROVE  next.rows[order[i]] =
                     [status |-> list[order[i]].status, email |-> list[order[i]].email,
                      boss |-> list[order[i]].boss, manager |-> rows[order[i]].manager]
        <3>1. CASE i = m
            BY <1>10, <2>1, <2>2, <3>1 DEF entry
        <3>2. CASE i \in 1 .. m - 1
            BY <1>6, <1>10, <2>1, <2>3, <3>2 DEF ListedSoFar
        <3> QED BY <1>11, <3>1, <3>2
    <2>5. ASSUME NEW j \in StaffIds, \A i \in 1 .. m : order[i] # j
          PROVE  next.rows[j] = rows[j]
        <3>1. j # k /\ \A i \in 1 .. m - 1 : order[i] # j
            BY <1>5, <1>12, <2>5
        <3> QED BY <1>6, <1>10, <2>1, <3>1 DEF ListedSoFar
    <2> QED BY <2>4, <2>5
<1> QED BY <1>2, <1>7, <1>13

-----------------------------------------------------------------------------
\* What a sync makes of the table, whatever order the list came in.
SyncResult(rows, list, next) ==
    /\ Addressed(next)
    /\ \A k \in OnTheList(list) : /\ next[k].status = list[k].status
                                  /\ next[k].email = list[k].email
                                  /\ next[k].boss = list[k].boss
    /\ \A k \in StaffIds \ OnTheList(list) :
          next[k] = [rows[k] EXCEPT !.manager = next[k].manager]
    /\ \A k \in Employed(next) :
          /\ \A m \in Employed(next) \ {k} :
                next[m].email = next[k].boss => next[k].manager = m
          /\ next[k].manager # rows[k].manager =>
                next[k].manager \in StaffIds \ {k} /\ next[next[k].manager].email = next[k].boss

LEMMA SyncDoes ==
    ASSUME NEW rows, Addressed(rows), NEW list \in HrisLists,
           NEW order \in OrdersOf(OnTheList(list)),
           NEW result, result = SyncHrisEmployees(rows, list, order)
    PROVE  result.ok => SyncResult(rows, list, result.rows)
<1>1. PICK N \in 0 .. 3 : order \in [1 .. N -> OnTheList(list)]
    BY DEF OrdersOf
<1>2. /\ {order[i] : i \in DOMAIN order} = OnTheList(list)
      /\ \A i, j \in DOMAIN order : order[i] = order[j] => i = j
    BY DEF OrdersOf
<1>3. N \in Nat /\ DOMAIN order = 1 .. N
    BY <1>1
<1>4. Len(order) = N
    BY <1>1, <1>3
<1>5. \A k \in OnTheList(list) : k \in HrisIds /\ list[k] \in HrisEntries
    BY DEF OnTheList, HrisLists
<1>6. PICK f : UpsertsUpTo(N, f, rows, list, order) /\ UpsertAll(rows, list, order) = f[N]
    BY <1>3, <1>4, UpsertAllIs
<1> DEFINE mid == f[N]
<1>7. ListedSoFar(N, mid, rows, list, order)
    <2>1. \A i \in 1 .. N : order[i] \in HrisIds /\ list[order[i]] \in HrisEntries
        BY <1>1, <1>5
    <2>2. \A i, j \in 1 .. N : order[i] = order[j] => i = j
        BY <1>2, <1>3
    <2>3. \A n \in 0 .. N : ListedSoFar(n, f[n], rows, list, order)
        BY <1>3, <1>6, <2>1, <2>2, UpsertsList
    <2> QED BY <1>3, <2>3
<1>8. mid \in UpsertResult /\ Addressed(mid.rows) /\ mid.rows \in StaffTable
    BY <1>7 DEF ListedSoFar, UpsertResult
<1>9. result = [mid EXCEPT !.rows = Resolve(mid.rows)]
    BY <1>6, <1>8 DEF SyncHrisEmployees
<1>10. result.ok = mid.ok /\ result.rows = Resolve(mid.rows)
    BY <1>8, <1>9 DEF UpsertResult
<1> HIDE DEF mid
<1> SUFFICES ASSUME mid.ok
             PROVE  SyncResult(rows, list, Resolve(mid.rows))
    BY <1>10
<1> DEFINE last == Resolve(mid.rows)
<1>11. SameButManagers(mid.rows, last)
    BY <1>8, ResolveKeeps
<1>12. Addressed(last) /\ Employed(last) = Employed(mid.rows)
    BY <1>8, <1>11, ResolveAddressed
<1>13. \A k \in Employed(mid.rows) :
           /\ \A m \in Employed(mid.rows) \ {k} :
                 mid.rows[m].email = mid.rows[k].boss => last[k].manager = m
           /\ last[k].manager # mid.rows[k].manager =>
                 /\ last[k].manager \in Employed(mid.rows) \ {k}
                 /\ mid.rows[last[k].manager].email = mid.rows[k].boss
    BY <1>8, ResolveFinds
<1>14. \A k \in OnTheList(list) :
           mid.rows[k] = [status |-> list[k].status, email |-> list[k].email,
                          boss |-> list[k].boss, manager |-> rows[k].manager]
    BY <1>2, <1>3, <1>7 DEF ListedSoFar
<1>15. \A k \in StaffIds \ OnTheList(list) : mid.rows[k] = rows[k]
    BY <1>1, <1>7 DEF ListedSoFar
<1>16. \A k \in OnTheList(list) : /\ mid.rows[k].status = list[k].status
                                  /\ mid.rows[k].email = list[k].email
                                  /\ mid.rows[k].boss = list[k].boss
                                  /\ mid.rows[k].manager = rows[k].manager
    <2>1. SUFFICES ASSUME NEW k \in OnTheList(list)
                   PROVE  /\ mid.rows[k].status = list[k].status
                          /\ mid.rows[k].email = list[k].email
                          /\ mid.rows[k].boss = list[k].boss
                          /\ mid.rows[k].manager = rows[k].manager
        OBVIOUS
    <2>2. mid.rows[k] = [status |-> list[k].status, email |-> list[k].email,
                         boss |-> list[k].boss, manager |-> rows[k].manager]
        BY <1>14
    <2> QED BY <2>2
<1>22. \A k \in StaffIds : mid.rows[k].manager = rows[k].manager
    <2>1. SUFFICES ASSUME NEW k \in StaffIds
                   PROVE  mid.rows[k].manager = rows[k].manager
        OBVIOUS
    <2>2. CASE k \in OnTheList(list)
        BY <1>16, <2>2
    <2>3. CASE k \notin OnTheList(list)
        <3>1. mid.rows[k] = rows[k]
            BY <1>15, <2>3
        <3> QED BY <3>1
    <2> QED BY <2>2, <2>3
<1>17. \A k \in Employed(mid.rows) : k \in StaffIds
    BY DEF Employed
<1>18. \A k \in OnTheList(list) : k \in StaffIds
    BY <1>5, DirectoryNames
<1> HIDE DEF last
<1>19. \A k \in OnTheList(list) : /\ last[k].status = list[k].status
                                  /\ last[k].email = list[k].email
                                  /\ last[k].boss = list[k].boss
    BY <1>11, <1>16, <1>18 DEF SameButManagers
<1>20. \A k \in StaffIds \ OnTheList(list) :
           last[k] = [rows[k] EXCEPT !.manager = last[k].manager]
    BY <1>11, <1>15 DEF SameButManagers
<1>21. ASSUME NEW k \in Employed(last)
       PROVE  /\ \A m \in Employed(last) \ {k} :
                    last[m].email = last[k].boss => last[k].manager = m
              /\ last[k].manager # rows[k].manager =>
                    last[k].manager \in StaffIds \ {k} /\ last[last[k].manager].email = last[k].boss
    <2>1. k \in Employed(mid.rows) /\ k \in StaffIds
        BY <1>12, <1>17
    <2>2. last[k].boss = mid.rows[k].boss /\ \A m \in StaffIds : last[m].email = mid.rows[m].email
        BY <1>11, <2>1 DEF SameButManagers
    <2>3. \A m \in Employed(last) \ {k} : last[m].email = last[k].boss => last[k].manager = m
        BY <1>12, <1>13, <1>17, <2>1, <2>2
    <2>4. mid.rows[k].manager = rows[k].manager
        BY <1>22, <2>1
    <2>5. last[k].manager # rows[k].manager =>
              /\ last[k].manager \in Employed(mid.rows) \ {k}
              /\ mid.rows[last[k].manager].email = mid.rows[k].boss
        BY <1>13, <2>1, <2>4
    <2>6. last[k].manager # rows[k].manager =>
              last[k].manager \in StaffIds \ {k} /\ last[last[k].manager].email = last[k].boss
        BY <1>17, <2>2, <2>5
    <2> QED BY <2>3, <2>6
<1> QED BY <1>12, <1>19, <1>20, <1>21 DEF SyncResult, last

-----------------------------------------------------------------------------
(* What the transactions have written *)

\* The rows of one transaction: typed, an address each, and none that another row has.
OwnFits(rows, own) ==
    /\ DOMAIN own \subseteq StaffIds
    /\ \A k \in DOMAIN own :
          own[k] \in StaffRow /\ own[k].status # "none" /\ own[k].email \in MailAddresses
    /\ \A i, j \in DOMAIN own : own[i].email = own[j].email => i = j
    /\ \A k \in DOMAIN own, j \in Employed(rows) \ DOMAIN own : rows[j].email # own[k].email

WrittenFits(rows, written) ==
    /\ OwnFits(rows, written.own)
    /\ DOMAIN written.links \subseteq StaffIds
    /\ \A k \in DOMAIN written.links : written.links[k] \in StaffIds \cup {Nobody}

\* Two transactions write different rows and give different addresses.
Apart(own, other) ==
    \A i \in DOMAIN own, j \in DOMAIN other : i # j /\ own[i].email # other[j].email

WroteGood(rows, wr) ==
    /\ DOMAIN wr = StaffWriters
    /\ \A w \in StaffWriters : WrittenFits(rows, wr[w])
    /\ \A w, x \in StaffWriters : w # x => Apart(wr[w].own, wr[x].own)

\* What WithWrites makes of the table.
Merges(rows, p, next) ==
    /\ next \in StaffTable
    /\ \A k \in DOMAIN p.own : next[k] = p.own[k]
    /\ \A k \in StaffIds \ DOMAIN p.own :
          /\ next[k].status = rows[k].status
          /\ next[k].email = rows[k].email
          /\ next[k] = [rows[k] EXCEPT !.manager = next[k].manager]
    /\ \A k \in StaffIds \ (DOMAIN p.own \cup DOMAIN p.links) : next[k] = rows[k]

LEMMA WritesMerge ==
    ASSUME NEW rows, Addressed(rows), NEW p, WrittenFits(rows, p)
    PROVE  Merges(rows, p, WithWrites(rows, p))
<1> DEFINE next == WithWrites(rows, p)
<1>1. /\ \A k \in StaffIds : rows[k] \in StaffRow
      /\ DOMAIN p.own \subseteq StaffIds /\ \A k \in DOMAIN p.own : p.own[k] \in StaffRow
      /\ \A k \in DOMAIN p.links : p.links[k] \in StaffIds \cup {Nobody}
    BY DEF Addressed, StaffTable, WrittenFits, OwnFits
<1>2. next = [k \in StaffIds |->
                 IF k \in DOMAIN p.own THEN p.own[k]
                 ELSE IF k \in DOMAIN p.links THEN [rows[k] EXCEPT !.manager = p.links[k]]
                 ELSE rows[k]]
    BY DEF WithWrites
<1>3. \A k \in DOMAIN p.own : next[k] = p.own[k]
    BY <1>1, <1>2
<1>4. \A k \in StaffIds \ (DOMAIN p.own \cup DOMAIN p.links) : next[k] = rows[k]
    BY <1>2
<1>5. \A k \in StaffIds \ DOMAIN p.own :
          k \in DOMAIN p.links => next[k] = [rows[k] EXCEPT !.manager = p.links[k]]
    BY <1>2
<1>6. DOMAIN next = StaffIds /\ next = [k \in StaffIds |-> next[k]]
    BY <1>2
<1> HIDE DEF next
<1>7. ASSUME NEW k \in StaffIds \ DOMAIN p.own
      PROVE  /\ next[k] \in StaffRow /\ next[k].status = rows[k].status
             /\ next[k].email = rows[k].email
             /\ next[k] = [rows[k] EXCEPT !.manager = next[k].manager]
    <2>1. CASE k \in DOMAIN p.links
        <3>1. PICK m \in StaffIds \cup {Nobody} : next[k] = [rows[k] EXCEPT !.manager = m]
            BY <1>1, <1>5, <2>1
        <3> QED BY <1>1, <3>1 DEF StaffRow
    <2>2. CASE k \notin DOMAIN p.links
        BY <1>1, <1>4, <2>2 DEF StaffRow
    <2> QED BY <2>1, <2>2
<1>8. \A k \in StaffIds : next[k] \in StaffRow
    BY <1>1, <1>3, <1>7
<1>9. next \in StaffTable
    BY <1>6, <1>8 DEF StaffTable
<1> QED BY <1>3, <1>4, <1>7, <1>9 DEF Merges, next

LEMMA MergeAddressed ==
    ASSUME NEW rows, Addressed(rows), NEW p, WrittenFits(rows, p)
    PROVE  Addressed(WithWrites(rows, p))
<1> DEFINE next == WithWrites(rows, p)
<1>1. /\ next \in StaffTable
      /\ \A k \in DOMAIN p.own : next[k] = p.own[k]
      /\ \A k \in StaffIds \ DOMAIN p.own :
            next[k].status = rows[k].status /\ next[k].email = rows[k].email
    <2>1. Merges(rows, p, next)
        BY WritesMerge
    <2> QED BY <2>1 DEF Merges
<1> HIDE DEF next
<1>2. \A k \in Employed(next) : k \in StaffIds
    BY DEF Employed
<1>3. \A k \in Employed(next) \ DOMAIN p.own : k \in Employed(rows) /\ next[k].email = rows[k].email
    BY <1>1 DEF Employed
<1>4. ASSUME NEW k \in Employed(next)
      PROVE  next[k].email \in MailAddresses
    <2>1. CASE k \in DOMAIN p.own
        BY <1>1, <2>1 DEF WrittenFits, OwnFits
    <2>2. CASE k \notin DOMAIN p.own
        BY <1>3, <2>2 DEF Addressed
    <2> QED BY <2>1, <2>2
<1>5. ASSUME NEW i \in Employed(next), NEW j \in Employed(next), next[i].email = next[j].email
      PROVE  i = j
    <2>1. CASE i \in DOMAIN p.own /\ j \in DOMAIN p.own
        BY <1>1, <1>5, <2>1 DEF WrittenFits, OwnFits
    <2>2. CASE i \in DOMAIN p.own /\ j \notin DOMAIN p.own
        BY <1>1, <1>3, <1>5, <2>2 DEF WrittenFits, OwnFits
    <2>3. CASE i \notin DOMAIN p.own /\ j \in DOMAIN p.own
        BY <1>1, <1>3, <1>5, <2>3 DEF WrittenFits, OwnFits
    <2>4. CASE i \notin DOMAIN p.own /\ j \notin DOMAIN p.own
        BY <1>3, <1>5, <2>4 DEF Addressed
    <2> QED BY <2>1, <2>2, <2>3, <2>4
<1> QED BY <1>1, <1>4, <1>5 DEF Addressed, next

\* What another has written still fits when one transaction commits.
LEMMA OthersFit ==
    ASSUME NEW rows, Addressed(rows), NEW p, WrittenFits(rows, p), NEW q, WrittenFits(rows, q),
           Apart(p.own, q.own)
    PROVE  WrittenFits(WithWrites(rows, p), q)
<1> DEFINE next == WithWrites(rows, p)
<1>1. /\ \A k \in DOMAIN p.own : next[k] = p.own[k]
      /\ \A k \in StaffIds \ DOMAIN p.own :
            next[k].status = rows[k].status /\ next[k].email = rows[k].email
    <2>1. Merges(rows, p, next)
        BY WritesMerge
    <2> QED BY <2>1 DEF Merges
<1> HIDE DEF next
<1>2. ASSUME NEW k \in DOMAIN q.own, NEW j \in Employed(next) \ DOMAIN q.own
      PROVE  next[j].email # q.own[k].email
    <2>1. CASE j \in DOMAIN p.own
        BY <1>1, <2>1 DEF Apart
    <2>2. CASE j \notin DOMAIN p.own
        <3>1. j \in Employed(rows) \ DOMAIN q.own /\ next[j].email = rows[j].email
            BY <1>1, <2>2 DEF Employed
        <3> QED BY <3>1 DEF WrittenFits, OwnFits
    <2> QED BY <2>1, <2>2
<1> QED BY <1>2 DEF WrittenFits, OwnFits, next

LEMMA NoWritesFit ==
    ASSUME NEW rows
    PROVE  WrittenFits(rows, NoWrites) /\ DOMAIN NoWrites.own = {}
<1>1. DOMAIN NoWrites.own = {} /\ DOMAIN NoWrites.links = {}
    BY DEF NoWrites
<1> QED BY <1>1 DEF WrittenFits, OwnFits

\* A transaction that ends has written nothing any more.
LEMMA EndFits ==
    ASSUME NEW rows, NEW wr, WroteGood(rows, wr), NEW w \in StaffWriters
    PROVE  WroteGood(rows, [wr EXCEPT ![w] = NoWrites])
<1> DEFINE new == [wr EXCEPT ![w] = NoWrites]
<1>1. DOMAIN new = StaffWriters /\ new[w] = NoWrites
      /\ \A x \in StaffWriters : x # w => new[x] = wr[x]
    BY DEF WroteGood
<1> HIDE DEF new
<1>2. \A x \in StaffWriters : WrittenFits(rows, new[x])
    BY <1>1, NoWritesFit DEF WroteGood
<1>3. \A x, y \in StaffWriters : x # y => Apart(new[x].own, new[y].own)
    BY <1>1, NoWritesFit DEF WroteGood, Apart
<1> QED BY <1>1, <1>2, <1>3 DEF WroteGood, new

LEMMA CommitFits ==
    ASSUME NEW rows, Addressed(rows), NEW wr, WroteGood(rows, wr), NEW w \in StaffWriters
    PROVE  /\ Addressed(WithWrites(rows, wr[w]))
           /\ WroteGood(WithWrites(rows, wr[w]), [wr EXCEPT ![w] = NoWrites])
<1> DEFINE next == WithWrites(rows, wr[w])
           new == [wr EXCEPT ![w] = NoWrites]
<1>1. DOMAIN new = StaffWriters /\ new[w] = NoWrites
      /\ \A x \in StaffWriters : x # w => new[x] = wr[x]
    BY DEF WroteGood
<1>2. Addressed(next)
    BY MergeAddressed DEF WroteGood
<1>3. WroteGood(rows, new)
    BY EndFits
<1>4. ASSUME NEW x \in StaffWriters
      PROVE  WrittenFits(next, new[x])
    <2>1. CASE x = w
        BY <1>1, <2>1, NoWritesFit
    <2>2. CASE x # w
        <3>1. WrittenFits(rows, wr[w]) /\ WrittenFits(rows, wr[x]) /\ Apart(wr[w].own, wr[x].own)
            BY <2>2 DEF WroteGood
        <3>2. WrittenFits(next, wr[x])
            BY <3>1, OthersFit
        <3> QED BY <1>1, <2>2, <3>2
    <2> QED BY <2>1, <2>2
<1> HIDE DEF next, new
<1> QED BY <1>2, <1>3, <1>4 DEF WroteGood, next, new

\* A table that has lost employees.
LEMMA FewerFit ==
    ASSUME NEW rows, NEW wr, WroteGood(rows, wr), NEW next,
           \A j \in Employed(next) : j \in Employed(rows) /\ next[j].email = rows[j].email
    PROVE  WroteGood(next, wr)
<1> QED BY DEF WroteGood, WrittenFits, OwnFits

\* What Writes stores of a new table: the rows K and the managers of the others.
Stores(rows, next, K, p) ==
    LET linked == {k \in StaffIds \ K : next[k].manager # rows[k].manager} IN
    p.own = [k \in K |-> next[k]] /\ p.links = [k \in linked |-> next[k].manager]

\* What is stored of a new table makes the new table of the old one.
LEMMA StoredIsNext ==
    ASSUME NEW rows \in StaffTable, NEW next \in StaffTable, NEW K \in SUBSET StaffIds,
           \A k \in StaffIds \ K : next[k] = [rows[k] EXCEPT !.manager = next[k].manager],
           NEW p, Stores(rows, next, K, p)
    PROVE  WithWrites(rows, p) = next
<1> DEFINE after == WithWrites(rows, p)
           linked == {k \in StaffIds \ K : next[k].manager # rows[k].manager}
<1>1. after = [k \in StaffIds |->
                  IF k \in K THEN next[k]
                  ELSE IF k \in linked THEN [rows[k] EXCEPT !.manager = next[k].manager]
                  ELSE rows[k]]
    BY DEF WithWrites, Stores
<1>2. \A k \in StaffIds : rows[k] \in StaffRow /\ next[k] \in StaffRow
    BY DEF StaffTable
<1>3. ASSUME NEW k \in (StaffIds \ K) \ linked
      PROVE  next[k] = rows[k]
    <2>1. next[k] = [rows[k] EXCEPT !.manager = rows[k].manager]
        BY <1>3
    <2> QED BY <1>2, <2>1 DEF StaffRow
<1> HIDE DEF linked
<1>4. \A k \in StaffIds : after[k] = next[k]
    BY <1>1, <1>3
<1>5. after = [k \in StaffIds |-> after[k]] /\ next = [k \in StaffIds |-> next[k]]
    BY <1>1 DEF StaffTable
<1> HIDE DEF after
<1>6. after = next
    BY <1>4, <1>5
<1> QED BY <1>6 DEF after

-----------------------------------------------------------------------------
(* What a sync has written *)

\* Everybody's manager is whoever holds the address of the manager, but for the rows since.
Linked(rows, next, since) ==
    \A k \in Employed(next) :
       /\ \A m \in Employed(next) \ {k} :
             next[m].email = next[k].boss => next[k].manager = m \/ {k, m} \cap since # {}
       /\ LET m == next[k].manager IN
          m # rows[k].manager => \/ m \in StaffIds \ {k} /\ next[m].email = next[k].boss
                                 \/ {k, m} \cap since # {}

SyncSound(rows, sync, p) ==
    sync.phase = "written" =>
        /\ DOMAIN p.own = OnTheList(sync.list)
        /\ \A k \in OnTheList(sync.list) : /\ p.own[k].status = sync.list[k].status
                                           /\ p.own[k].email = sync.list[k].email
                                           /\ p.own[k].boss = sync.list[k].boss
        /\ Linked(rows, WithWrites(rows, p), sync.since)

\* What a request commits meanwhile touches only rows that count as committed since.
LEMMA LinkedSince ==
    ASSUME NEW rows, Addressed(rows), NEW p, WrittenFits(rows, p), NEW s, WrittenFits(rows, s),
           Apart(p.own, s.own), NEW since,
           Linked(rows, WithWrites(rows, s), since)
    PROVE  Linked(WithWrites(rows, p), WithWrites(WithWrites(rows, p), s),
                  since \cup (DOMAIN p.own \cup DOMAIN p.links))
<1> DEFINE after == WithWrites(rows, p)
           old == WithWrites(rows, s)
           new == WithWrites(after, s)
           T == DOMAIN p.own \cup DOMAIN p.links
<1>1. \A k \in StaffIds \ T : after[k] = rows[k]
    BY WritesMerge DEF Merges
<1>2. \A k \in StaffIds \ T : new[k] = old[k]
    BY <1>1 DEF WithWrites
<1>3. \A k \in Employed(new) : k \in StaffIds
    BY DEF Employed
<1>4. \A k \in Employed(new) \ T : k \in Employed(old)
    BY <1>2, <1>3 DEF Employed
<1>5. Linked(rows, old, since)
    OBVIOUS
<1> HIDE DEF after, old, new, T
<1>6. ASSUME NEW k \in Employed(new), NEW m \in Employed(new) \ {k},
             new[m].email = new[k].boss, {k, m} \cap (since \cup T) = {}
      PROVE  new[k].manager = m
    <2>1. k \in Employed(old) /\ m \in Employed(old) \ {k} /\ new[k] = old[k] /\ new[m] = old[m]
        BY <1>2, <1>3, <1>4, <1>6
    <2>2. old[m].email = old[k].boss /\ {k, m} \cap since = {}
        BY <1>6, <2>1
    <2> QED BY <1>5, <2>1, <2>2 DEF Linked
<1>7. ASSUME NEW k \in Employed(new), NEW m, m = new[k].manager, m # after[k].manager,
             {k, m} \cap (since \cup T) = {}
      PROVE  m \in StaffIds \ {k} /\ new[m].email = new[k].boss
    <2>1. k \in Employed(old) /\ new[k] = old[k] /\ after[k] = rows[k]
        BY <1>1, <1>2, <1>3, <1>4, <1>7
    <2>2. m = old[k].manager /\ m # rows[k].manager /\ {k, m} \cap since = {}
        BY <1>7, <2>1
    <2>3. m \in StaffIds \ {k} /\ old[m].email = old[k].boss
        BY <1>5, <2>1, <2>2 DEF Linked
    <2>4. new[m] = old[m]
        BY <1>2, <1>7, <2>3
    <2> QED BY <2>1, <2>3, <2>4
<1>8. Linked(after, new, since \cup T)
    BY <1>6, <1>7 DEF Linked
<1> QED BY <1>8 DEF after, new, T

-----------------------------------------------------------------------------
(* The invariant *)

\* Whoever is being created has been given an address.
CreationsNamed(q) == q.op = "create" => q.email \in MailAddresses

StaffRequestSet == [op : {"none", "create", "update", "clear", "written"},
                    id : ManualIds \cup {Nobody},
                    email : MailAddresses \cup {Nobody}, boss : MailAddresses \cup {Nobody}]

StaffReqGood(q) == /\ q \in [StaffRequests -> StaffRequestSet]
                   /\ \A r \in StaffRequests : CreationsNamed(q[r])

SyncTyped(sync) == sync \in [phase : {"idle", "fetched", "written"}, list : HrisLists,
                             since : SUBSET StaffIds]

StaffInv ==
    /\ Addressed(staff)
    /\ SyncTyped(hrisSync)
    /\ StaffReqGood(staffReq)
    /\ WroteGood(staff, wrote)
    /\ SyncSound(staff, hrisSync, wrote[HrisRun])
    /\ behind \subseteq StaffWriters \X StaffWriters

LEMMA StaffInvAgain ==
    ASSUME NEW rows, staff' = rows, Addressed(rows),
           NEW sync, hrisSync' = sync, SyncTyped(sync),
           NEW req, staffReq' = req, StaffReqGood(req),
           NEW wr, wrote' = wr, WroteGood(rows, wr), SyncSound(rows, sync, wr[HrisRun]),
           behind' \subseteq StaffWriters \X StaffWriters
    PROVE  StaffInv'
<1>1. Addressed(staff)'
    BY DEF Addressed, Employed, StaffTable
<1>2. SyncTyped(hrisSync)' /\ StaffReqGood(staffReq)'
    BY DEF SyncTyped, StaffReqGood, StaffRequestSet, CreationsNamed
<1>3. WroteGood(staff, wrote)'
    BY DEF WroteGood, WrittenFits, OwnFits, Apart, Employed, StaffWriters
<1>4. SyncSound(staff, hrisSync, wrote[HrisRun])'
    BY DEF SyncSound, Linked, OnTheList, WithWrites, Employed
<1> QED BY <1>1, <1>2, <1>3, <1>4 DEF StaffInv

LEMMA StaffInvSays ==
    ASSUME StaffInv
    PROVE  /\ Addressed(staff) /\ staff \in StaffTable
           /\ SyncTyped(hrisSync) /\ hrisSync.list \in HrisLists
           /\ StaffReqGood(staffReq)
           /\ WroteGood(staff, wrote) /\ WrittenFits(staff, wrote[HrisRun])
           /\ SyncSound(staff, hrisSync, wrote[HrisRun])
<1>1. HrisRun \in StaffWriters
    BY DEF StaffWriters
<1> QED BY <1>1 DEF StaffInv, Addressed, SyncTyped, WroteGood

LEMMA StaffInvTypes == StaffInv => DirectoryTypeOK
<1> SUFFICES ASSUME StaffInv
             PROVE  DirectoryTypeOK
    OBVIOUS
<1>1. staff \in [StaffIds -> StaffRow]
    BY StaffInvSays DEF StaffTable
<1>2. \A w \in StaffWriters : WrittenFits(staff, wrote[w])
    BY StaffInvSays DEF WroteGood
<1> QED BY <1>1, <1>2 DEF StaffInv, SyncTyped, StaffReqGood, StaffRequestSet, WrittenFits, OwnFits,
                          DirectoryTypeOK

LEMMA StaffRequestsStay ==
    ASSUME NEW req, StaffReqGood(req), NEW r \in StaffRequests, NEW q \in StaffRequestSet,
           CreationsNamed(q)
    PROVE  StaffReqGood([req EXCEPT ![r] = q])
<1> QED BY DEF StaffReqGood

LEMMA IdleStaffTyped ==
    /\ IdleStaffRequest \in StaffRequestSet /\ CreationsNamed(IdleStaffRequest)
    /\ [IdleStaffRequest EXCEPT !.op = "written"] \in StaffRequestSet
    /\ CreationsNamed([IdleStaffRequest EXCEPT !.op = "written"])
<1> QED BY DEF IdleStaffRequest, StaffRequestSet, CreationsNamed

LEMMA NotSyncingTyped == SyncTyped(NotSyncing) /\ NotSyncing.phase = "idle"
<1> QED BY DEF NotSyncing, SyncTyped, HrisLists

LEMMA NotWrittenSound ==
    ASSUME NEW rows, NEW sync, sync.phase # "written", NEW p
    PROVE  SyncSound(rows, sync, p)
<1> QED BY DEF SyncSound

-----------------------------------------------------------------------------
(* The steps *)

HasWritten(w, next, K) ==
    /\ \E p : /\ wrote' = [wrote EXCEPT ![w] = p]
              /\ WroteGood(staff, [wrote EXCEPT ![w] = p])
              /\ Stores(staff, next, K, p)
    /\ behind' \subseteq StaffWriters \X StaffWriters

\* A transaction writes the rows K of its own, which no other holds, with addresses that no
\* other has.
LEMMA WritesFit ==
    ASSUME StaffInv, NEW w \in StaffWriters, NEW K \in SUBSET StaffIds, NEW next \in StaffTable,
           Writes(w, next, K),
           \A k \in K : /\ next[k].status # "none" /\ next[k].email \in MailAddresses
                        /\ ~RowHeld(w, k) /\ ~AddressHeld(w, next[k].email),
           \A i, j \in K : next[i].email = next[j].email => i = j,
           \A k \in K, j \in Employed(staff) \ K : staff[j].email # next[k].email
    PROVE  HasWritten(w, next, K)
<1> DEFINE linked == {k \in StaffIds \ K : next[k].manager # staff[k].manager}
           p == [own |-> [k \in K |-> next[k]], links |-> [k \in linked |-> next[k].manager]]
           new == [wrote EXCEPT ![w] = p]
<1>1. wrote' = new /\ behind' \subseteq StaffWriters \X StaffWriters
    BY DEF Writes, StaffInv
<1>2. /\ p.own = [k \in K |-> next[k]] /\ p.links = [k \in linked |-> next[k].manager]
      /\ DOMAIN p.own = K /\ DOMAIN p.links = linked
    OBVIOUS
<1>3. \A k \in StaffIds : next[k] \in StaffRow /\ next[k].manager \in StaffIds \cup {Nobody}
    BY DEF StaffTable, StaffRow
<1>4. /\ \A k \in K : p.own[k] = next[k]
      /\ \A k \in linked : k \in StaffIds /\ p.links[k] = next[k].manager
    OBVIOUS
<1>5. DOMAIN new = StaffWriters /\ new[w] = p
      /\ \A x \in StaffWriters : x # w => new[x] = wrote[x]
    BY StaffInvSays DEF WroteGood
<1> HIDE DEF p, new, linked
<1>6. OwnFits(staff, p.own)
    BY <1>2, <1>3, <1>4 DEF OwnFits
<1>7. DOMAIN p.links \subseteq StaffIds
      /\ \A k \in DOMAIN p.links : p.links[k] \in StaffIds \cup {Nobody}
    BY <1>2, <1>3, <1>4
<1>8. WrittenFits(staff, p)
    BY <1>6, <1>7 DEF WrittenFits
<1>9. ASSUME NEW x \in StaffWriters \ {w}
      PROVE  Apart(p.own, wrote[x].own) /\ Apart(wrote[x].own, p.own)
    <2>1. ASSUME NEW k \in K, NEW j \in DOMAIN wrote[x].own
          PROVE  k # j /\ next[k].email # wrote[x].own[j].email
        <3>1. j \in Touched(x)
            BY DEF Touched
        <3>2. k # j
            BY <3>1 DEF RowHeld
        <3>3. next[k].email # wrote[x].own[j].email
            BY DEF AddressHeld
        <3> QED BY <3>2, <3>3
    <2> QED BY <1>2, <1>4, <2>1 DEF Apart
<1>10. \A x \in StaffWriters : WrittenFits(staff, new[x])
    BY <1>5, <1>8, StaffInvSays DEF WroteGood
<1>11. \A x, y \in StaffWriters : x # y => Apart(new[x].own, new[y].own)
    BY <1>5, <1>9, StaffInvSays DEF WroteGood
<1>12. WroteGood(staff, new)
    BY <1>5, <1>10, <1>11 DEF WroteGood
<1>13. Stores(staff, next, K, p)
    BY <1>2 DEF Stores, linked
<1> QED BY <1>1, <1>12, <1>13 DEF HasWritten, new

LEMMA SyncWritesKeeps ==
    ASSUME StaffInv, SyncWrites
    PROVE  StaffInv'
<1> DEFINE list == hrisSync.list
           listed == OnTheList(list)
<1>0. HrisRun \in StaffWriters /\ list \in HrisLists /\ listed \subseteq StaffIds
      /\ \A k \in listed : list[k] \in HrisEntries
    BY StaffInvSays, DirectoryNames DEF StaffWriters, OnTheList, HrisLists
<1>1. staff' = staff /\ staffReq' = staffReq
    BY DEF SyncWrites
<1>2. PICK order \in OrdersOf(listed) :
          LET result == SyncHrisEmployees(staff, list, order) IN
          IF result.ok
          THEN /\ Writes(HrisRun, result.rows, listed)
               /\ hrisSync' = [hrisSync EXCEPT !.phase = "written"]
          ELSE hrisSync' = NotSyncing /\ UNCHANGED <<wrote, behind>>
    BY DEF SyncWrites
<1> DEFINE result == SyncHrisEmployees(staff, list, order)
           next == result.rows
<1>3. result.ok => SyncResult(staff, list, next)
    BY <1>0, StaffInvSays, SyncDoes
<1> HIDE DEF result
<1>4. CASE ~result.ok
    <2>1. hrisSync' = NotSyncing /\ wrote' = wrote /\ behind' = behind
        BY <1>2, <1>4 DEF result
    <2>2. SyncTyped(NotSyncing) /\ SyncSound(staff, NotSyncing, wrote[HrisRun])
        BY NotSyncingTyped, NotWrittenSound
    <2>3. behind' \subseteq StaffWriters \X StaffWriters
        BY <2>1 DEF StaffInv
    <2> QED BY <1>1, <2>1, <2>2, <2>3, StaffInvSays, StaffInvAgain
<1>5. CASE result.ok
    <2>1. Writes(HrisRun, next, listed) /\ hrisSync' = [hrisSync EXCEPT !.phase = "written"]
        BY <1>2, <1>5 DEF result
    <2>2. SyncResult(staff, list, next)
        BY <1>3, <1>5
    <2>3. /\ \A k \in listed : ~RowHeld(HrisRun, k) /\ ~AddressHeld(HrisRun, list[k].email)
        BY DEF SyncWrites
    <2> DEFINE sync == [hrisSync EXCEPT !.phase = "written"]
    <2>4. SyncTyped(sync) /\ sync.list = list /\ sync.since = hrisSync.since
        BY StaffInvSays DEF SyncTyped
    <2> HIDE DEF next, list, listed, sync
    <2>0. listed \in SUBSET StaffIds
        BY <1>0
    <2>5. Addressed(next) /\ next \in StaffTable
        BY <2>2 DEF SyncResult, Addressed
    <2>6. /\ \A k \in listed : /\ next[k].status = list[k].status
                               /\ next[k].email = list[k].email
                               /\ next[k].boss = list[k].boss
          /\ \A k \in StaffIds \ listed :
                next[k] = [staff[k] EXCEPT !.manager = next[k].manager]
        BY <2>2 DEF SyncResult, listed
    <2>7. \A k \in listed : /\ k \in Employed(next)
                            /\ next[k].status # "none" /\ next[k].email \in MailAddresses
                            /\ ~RowHeld(HrisRun, k) /\ ~AddressHeld(HrisRun, next[k].email)
        <3>1. \A k \in listed : list[k].status # "none" /\ list[k].email \in MailAddresses
            BY <1>0, EntryTyped
        <3> QED BY <1>0, <2>3, <2>6, <3>1 DEF Employed
    <2>8. \A i, j \in listed : next[i].email = next[j].email => i = j
        BY <2>5, <2>7 DEF Addressed
    <2>9. ASSUME NEW k \in listed, NEW j \in Employed(staff) \ listed
          PROVE  staff[j].email # next[k].email
        <3>1. j \in StaffIds /\ staff[j] \in StaffRow /\ staff[j].status # "none"
            BY StaffInvSays DEF Employed, StaffTable
        <3>2. next[j] = [staff[j] EXCEPT !.manager = next[j].manager]
            BY <2>6, <3>1
        <3>3. next[j].status = staff[j].status /\ next[j].email = staff[j].email
            BY <3>1, <3>2 DEF StaffRow
        <3>4. j \in Employed(next)
            BY <3>1, <3>3 DEF Employed
        <3> QED BY <2>5, <2>7, <3>3, <3>4 DEF Addressed
    <2>10. HasWritten(HrisRun, next, listed)
        <3>1. \A k \in listed : /\ next[k].status # "none" /\ next[k].email \in MailAddresses
                                /\ ~RowHeld(HrisRun, k) /\ ~AddressHeld(HrisRun, next[k].email)
            BY <2>7
        <3>2. \A k \in listed, j \in Employed(staff) \ listed : staff[j].email # next[k].email
            BY <2>9
        <3> QED BY <1>0, <2>0, <2>1, <2>5, <2>8, <3>1, <3>2, WritesFit
    <2>11. PICK p : /\ wrote' = [wrote EXCEPT ![HrisRun] = p]
                    /\ WroteGood(staff, [wrote EXCEPT ![HrisRun] = p])
                    /\ Stores(staff, next, listed, p)
        BY <2>10 DEF HasWritten
    <2>12. WithWrites(staff, p) = next
        BY <2>0, <2>5, <2>6, <2>11, StoredIsNext, StaffInvSays
    <2>13. Linked(staff, next, hrisSync.since)
        BY <2>2 DEF SyncResult, Linked
    <2>14. SyncSound(staff, sync, p)
        <3>1. DOMAIN p.own = listed /\ \A k \in listed : p.own[k] = next[k]
            BY <2>11 DEF Stores
        <3> QED BY <2>4, <2>6, <2>12, <2>13, <3>1 DEF SyncSound, listed
    <2>15. [wrote EXCEPT ![HrisRun] = p][HrisRun] = p
        BY <1>0, StaffInvSays DEF WroteGood
    <2> DEFINE wr == [wrote EXCEPT ![HrisRun] = p]
    <2>16. wrote' = wr /\ WroteGood(staff, wr) /\ wr[HrisRun] = p /\ hrisSync' = sync
        BY <2>1, <2>11, <2>15 DEF sync
    <2> HIDE DEF wr
    <2>17. behind' \subseteq StaffWriters \X StaffWriters
        BY <2>10 DEF HasWritten
    <2> QED BY <1>1, <2>4, <2>14, <2>16, <2>17, StaffInvSays, StaffInvAgain
<1> QED BY <1>4, <1>5

LEMMA EndsKeeps ==
    ASSUME StaffInv, NEW w \in StaffWriters, Ends(w)
    PROVE  /\ wrote' = [wrote EXCEPT ![w] = NoWrites]
           /\ behind' \subseteq StaffWriters \X StaffWriters
<1> QED BY DEF Ends, StaffInv

LEMMA SyncStepsKeep ==
    ASSUME StaffInv, SyncFetches \/ SyncCommits \/ SyncFails
    PROVE  StaffInv'
<1>0. HrisRun \in StaffWriters /\ WroteGood(staff, wrote) /\ Addressed(staff)
    BY StaffInvSays DEF StaffWriters
<1>1. CASE SyncFetches
    <2>1. PICK list \in HrisLists : hrisSync' = [phase |-> "fetched", list |-> list, since |-> {}]
        BY <1>1 DEF SyncFetches
    <2>2. SyncTyped([phase |-> "fetched", list |-> list, since |-> {}])
        BY DEF SyncTyped
    <2>3. SyncSound(staff, [phase |-> "fetched", list |-> list, since |-> {}], wrote[HrisRun])
        BY NotWrittenSound
    <2>4. staff' = staff /\ staffReq' = staffReq /\ wrote' = wrote
          /\ behind' \subseteq StaffWriters \X StaffWriters
        BY <1>1 DEF SyncFetches, StaffInv
    <2> QED BY <2>1, <2>2, <2>3, <2>4, StaffInvSays, StaffInvAgain
<1> DEFINE wr == [wrote EXCEPT ![HrisRun] = NoWrites]
<1>2. SyncTyped(NotSyncing) /\ \A rows : SyncSound(rows, NotSyncing, wr[HrisRun])
    BY NotSyncingTyped, NotWrittenSound
<1>3. CASE SyncFails
    <2>1. /\ wrote' = wr /\ behind' \subseteq StaffWriters \X StaffWriters
          /\ staff' = staff /\ staffReq' = staffReq /\ hrisSync' = NotSyncing
        BY <1>0, <1>3, EndsKeeps DEF SyncFails
    <2>2. WroteGood(staff, wr)
        BY <1>0, EndFits
    <2> HIDE DEF wr
    <2> QED BY <1>2, <2>1, <2>2, StaffInvSays, StaffInvAgain
<1>4. CASE SyncCommits
    <2> DEFINE next == WithWrites(staff, wrote[HrisRun])
    <2>1. /\ wrote' = wr /\ behind' \subseteq StaffWriters \X StaffWriters
          /\ staff' = next /\ staffReq' = staffReq /\ hrisSync' = NotSyncing
        BY <1>0, <1>4, EndsKeeps DEF SyncCommits, Commits
    <2>2. Addressed(next) /\ WroteGood(next, wr)
        BY <1>0, CommitFits
    <2> HIDE DEF wr, next
    <2> QED BY <1>2, <2>1, <2>2, StaffInvSays, StaffInvAgain
<1> QED BY <1>1, <1>3, <1>4

-----------------------------------------------------------------------------
\* A table whose employees other than k are as they were and hold other addresses than k.
LEMMA AddressedRow ==
    ASSUME NEW rows, Addressed(rows), NEW k \in StaffIds, NEW row \in StaffRow,
           row.email \in MailAddresses, HoldersOf(rows, row.email) \ {k} = {},
           NEW next, next = [rows EXCEPT ![k] = row]
    PROVE  Addressed(next)
<1>1. next \in StaffTable /\ next[k] = row /\ \A j \in StaffIds \ {k} : next[j] = rows[j]
    BY DEF Addressed, StaffTable
<1>2. \A j \in Employed(next) : j # k => j \in Employed(rows) /\ next[j] = rows[j]
    BY <1>1 DEF Employed
<1>3. \A j \in Employed(rows) : j # k => rows[j].email # row.email
    BY DEF HoldersOf
<1>4. \A j \in Employed(next) : next[j].email \in MailAddresses
    BY <1>1, <1>2 DEF Addressed
<1>5. \A i, j \in Employed(next) : next[i].email = next[j].email => i = j
    BY <1>1, <1>2, <1>3 DEF Addressed
<1> QED BY <1>1, <1>4, <1>5 DEF Addressed

LEMMA RequestTypedNow ==
    ASSUME StaffInv, NEW r \in StaffRequests
    PROVE  /\ r \in StaffWriters
           /\ staffReq[r].id \in ManualIds \cup {Nobody}
           /\ staffReq[r].email \in MailAddresses \cup {Nobody}
           /\ staffReq[r].boss \in MailAddresses \cup {Nobody}
           /\ staffReq[r].op = "create" => staffReq[r].email \in MailAddresses
<1>1. staffReq[r] \in StaffRequestSet /\ CreationsNamed(staffReq[r])
    BY StaffInvSays DEF StaffReqGood
<1> QED BY <1>1 DEF StaffRequestSet, CreationsNamed, StaffWriters

\* A request gives one employee a row, with an address that nobody else has.
LEMMA RequestWritesKeeps ==
    ASSUME StaffInv, NEW r \in StaffRequests, NEW k \in StaffIds, NEW row \in StaffRow,
           row.status # "none", row.email \in MailAddresses,
           HoldersOf(staff, row.email) \ {k} = {},
           ~RowHeld(r, k), ~AddressHeld(r, row.email),
           NEW next, \/ next = [staff EXCEPT ![k] = row]
                     \/ next = Resolve([staff EXCEPT ![k] = row]),
           RequestWrites(r, next, k), UNCHANGED <<staff, hrisSync>>
    PROVE  StaffInv'
<1> DEFINE rows == [staff EXCEPT ![k] = row]
<1>0. rows[k] = row /\ staff \in StaffTable
    BY StaffInvSays DEF StaffTable
<1>1. Addressed(rows)
    BY AddressedRow, StaffInvSays
<1> HIDE DEF rows
<1>2. SameButManagers(rows, Resolve(rows))
    BY <1>1, ResolveKeeps DEF Addressed
<1>3. next \in StaffTable /\ next[k].status = row.status /\ next[k].email = row.email
    <2>1. CASE next = rows
        BY <1>0, <1>1, <2>1 DEF Addressed
    <2>2. CASE next = Resolve(rows)
        BY <1>0, <1>2, <2>2 DEF SameButManagers
    <2> QED BY <2>1, <2>2 DEF rows
<1>4. \A j \in Employed(staff) \ {k} : staff[j].email # row.email
    BY DEF HoldersOf
<1>5. Writes(r, next, {k})
    BY DEF RequestWrites
<1>6. r \in StaffWriters /\ {k} \in SUBSET StaffIds
    BY RequestTypedNow
<1>7. HasWritten(r, next, {k})
    <2>1. \A j \in {k} : /\ next[j].status # "none" /\ next[j].email \in MailAddresses
                         /\ ~RowHeld(r, j) /\ ~AddressHeld(r, next[j].email)
        BY <1>3
    <2>2. \A i, j \in {k} : next[i].email = next[j].email => i = j
        OBVIOUS
    <2>3. \A i \in {k}, j \in Employed(staff) \ {k} : staff[j].email # next[i].email
        BY <1>3, <1>4
    <2> QED BY <1>3, <1>5, <1>6, <2>1, <2>2, <2>3, WritesFit
<1>8. PICK p : /\ wrote' = [wrote EXCEPT ![r] = p]
               /\ WroteGood(staff, [wrote EXCEPT ![r] = p])
    BY <1>7 DEF HasWritten
<1> DEFINE wr == [wrote EXCEPT ![r] = p]
<1>9. wr[HrisRun] = wrote[HrisRun]
    BY DirectoryAssumptions
<1>10. SyncSound(staff, hrisSync, wr[HrisRun])
    BY <1>9, StaffInvSays
<1> DEFINE req == [staffReq EXCEPT ![r] = [IdleStaffRequest EXCEPT !.op = "written"]]
<1>11. staffReq' = req /\ StaffReqGood(req)
    BY IdleStaffTyped, StaffInvSays, StaffRequestsStay DEF RequestWrites
<1>12. behind' \subseteq StaffWriters \X StaffWriters
    BY <1>7 DEF HasWritten
<1>13. wrote' = wr /\ WroteGood(staff, wr)
    BY <1>8
<1> HIDE DEF wr, req
<1> QED BY <1>10, <1>11, <1>12, <1>13, StaffInvSays, StaffInvAgain

\* A request that only changes what it is doing.
LEMMA StaffRequestMoves ==
    ASSUME StaffInv, UNCHANGED <<staff, hrisSync, wrote, behind>>,
           NEW req, staffReq' = req, StaffReqGood(req)
    PROVE  StaffInv'
<1>1. behind' \subseteq StaffWriters \X StaffWriters
    BY DEF StaffInv
<1> QED BY <1>1, StaffInvSays, StaffInvAgain

LEMMA RefuseKeeps ==
    ASSUME StaffInv, NEW r \in StaffRequests, Refuse(r), UNCHANGED <<staff, hrisSync>>
    PROVE  StaffInv'
<1>1. StaffReqGood([staffReq EXCEPT ![r] = IdleStaffRequest])
    BY IdleStaffTyped, StaffInvSays, StaffRequestsStay
<1> QED BY <1>1, StaffRequestMoves DEF Refuse, CloseStaffRequest

LEMMA CreateKeeps ==
    ASSUME StaffInv, NEW r \in StaffRequests, CreateWrites(r)
    PROVE  StaffInv'
<1> DEFINE e == staffReq[r].email
           b == staffReq[r].boss
           row == [NoStaff EXCEPT !.status = "active", !.email = e, !.boss = b]
<1>1. e \in MailAddresses /\ b \in MailAddresses \cup {Nobody}
    BY RequestTypedNow DEF CreateWrites
<1>2. CASE HoldersOf(staff, e) = {}
    <2>1. PICK k \in {k \in ManualIds \ Employed(staff) : ~RowHeld(r, k)} :
              RequestWrites(r, IF b = Nobody THEN [staff EXCEPT ![k] = row]
                               ELSE Resolve([staff EXCEPT ![k] = row]), k)
        BY <1>2 DEF CreateWrites
    <2>2. row \in StaffRow /\ row.email = e /\ row.status # "none"
        BY <1>1 DEF NoStaff, StaffRow
    <2>3. ~AddressHeld(r, e) /\ UNCHANGED <<staff, hrisSync>>
        BY DEF CreateWrites
    <2>4. k \in StaffIds /\ ~RowHeld(r, k)
        BY DirectoryNames
    <2> HIDE DEF row, e, b
    <2>5. PICK next : /\ \/ next = [staff EXCEPT ![k] = row]
                         \/ next = Resolve([staff EXCEPT ![k] = row])
                      /\ RequestWrites(r, next, k)
        BY <2>1
    <2>6. HoldersOf(staff, row.email) \ {k} = {} /\ row.email \in MailAddresses
          /\ ~AddressHeld(r, row.email)
        BY <1>1, <1>2, <2>2, <2>3
    <2> QED BY <2>2, <2>3, <2>4, <2>5, <2>6, RequestWritesKeeps
<1>3. CASE HoldersOf(staff, e) # {}
    BY <1>3, RefuseKeeps DEF CreateWrites
<1> QED BY <1>2, <1>3

LEMMA UpdateKeeps ==
    ASSUME StaffInv, NEW r \in StaffRequests, UpdateWrites(r)
    PROVE  StaffInv'
<1> DEFINE k == staffReq[r].id
           e == IF staffReq[r].email = Nobody THEN staff[k].email ELSE staffReq[r].email
           b == staffReq[r].boss
<1>1. CASE k \in Employed(staff) /\ HoldersOf(staff, e) \ {k} = {}
    <2>1. k \in StaffIds /\ staff[k] \in StaffRow /\ staff[k].status # "none"
          /\ e \in MailAddresses /\ b \in MailAddresses \cup {Nobody}
        BY <1>1, RequestTypedNow, StaffInvSays DEF Employed, Addressed, StaffTable
    <2> DEFINE moved == [staff[k] EXCEPT !.email = e]
               named == [staff[k] EXCEPT !.email = e, !.boss = b, !.manager = Nobody]
    <2>2. RequestWrites(r, IF staffReq[r].op = "update" /\ b = Nobody
                           THEN [staff EXCEPT ![k] = moved]
                           ELSE Resolve([staff EXCEPT ![k] = named]), k)
        BY <1>1 DEF UpdateWrites
    <2>3. ~RowHeld(r, k) /\ ~AddressHeld(r, e) /\ UNCHANGED <<staff, hrisSync>>
        BY DEF UpdateWrites
    <2> HIDE DEF e
    <2>4. moved \in StaffRow /\ moved.email = e /\ moved.status # "none"
          /\ named \in StaffRow /\ named.email = e /\ named.status # "none"
        BY <2>1 DEF StaffRow
    <2> HIDE DEF moved, named, b, k
    <2>5. PICK row \in {moved, named} :
              \/ RequestWrites(r, [staff EXCEPT ![k] = row], k)
              \/ RequestWrites(r, Resolve([staff EXCEPT ![k] = row]), k)
        BY <2>2
    <2>6. row \in StaffRow /\ row.email = e /\ row.status # "none"
        BY <2>4
    <2>7. HoldersOf(staff, row.email) \ {k} = {} /\ row.email \in MailAddresses
          /\ ~AddressHeld(r, row.email)
        BY <1>1, <2>1, <2>3, <2>6
    <2> QED BY <2>1, <2>3, <2>5, <2>6, <2>7, RequestWritesKeeps
<1>2. CASE ~(k \in Employed(staff) /\ HoldersOf(staff, e) \ {k} = {})
    BY <1>2, RefuseKeeps DEF UpdateWrites
<1> QED BY <1>1, <1>2

LEMMA BulkKeeps ==
    ASSUME StaffInv, NEW r \in StaffRequests, NEW e \in MailAddresses,
           NEW b \in MailAddresses \cup {Nobody}, BulkImportEmployee(r, e, b)
    PROVE  StaffInv'
<1>0. ~AddressHeld(r, e) /\ UNCHANGED <<staff, hrisSync>>
    BY DEF BulkImportEmployee
<1>1. CASE \E k \in HoldersOf(staff, e) \cap ManualIds :
               ~RowHeld(r, k) /\ RequestWrites(r, Resolve([staff EXCEPT ![k].boss = b]), k)
    <2>1. PICK k \in HoldersOf(staff, e) :
              ~RowHeld(r, k) /\ RequestWrites(r, Resolve([staff EXCEPT ![k].boss = b]), k)
        BY <1>1
    <2>2. k \in StaffIds /\ staff[k] \in StaffRow /\ staff[k].email = e
          /\ staff[k].status # "none" /\ k \in Employed(staff)
        BY StaffInvSays DEF HoldersOf, Employed, StaffTable
    <2> DEFINE row == [staff[k] EXCEPT !.boss = b]
    <2>3. row \in StaffRow /\ row.email = e /\ row.status # "none"
        BY <2>2 DEF StaffRow
    <2>4. [staff EXCEPT ![k].boss = b] = [staff EXCEPT ![k] = row]
        OBVIOUS
    <2>5. HoldersOf(staff, e) \ {k} = {}
        BY <2>2, StaffInvSays DEF HoldersOf, Addressed
    <2> HIDE DEF row
    <2>6. RequestWrites(r, Resolve([staff EXCEPT ![k] = row]), k)
        BY <2>1, <2>4
    <2> QED BY <1>0, <2>1, <2>2, <2>3, <2>5, <2>6, RequestWritesKeeps
<1>2. CASE /\ HoldersOf(staff, e) = {}
           /\ \E k \in {k \in ManualIds \ Employed(staff) : ~RowHeld(r, k)} :
                 RequestWrites(r, Resolve([staff EXCEPT ![k] =
                     [status |-> "active", email |-> e, boss |-> b, manager |-> Nobody]]), k)
    <2> DEFINE row == [status |-> "active", email |-> e, boss |-> b, manager |-> Nobody]
    <2>1. PICK k \in {k \in ManualIds \ Employed(staff) : ~RowHeld(r, k)} :
              RequestWrites(r, Resolve([staff EXCEPT ![k] = row]), k)
        BY <1>2
    <2>2. k \in StaffIds /\ ~RowHeld(r, k)
          /\ row \in StaffRow /\ row.email = e /\ row.status # "none"
        BY DirectoryNames DEF StaffRow
    <2> HIDE DEF row
    <2>3. HoldersOf(staff, e) \ {k} = {}
        BY <1>2
    <2> QED BY <1>0, <2>1, <2>2, <2>3, RequestWritesKeeps
<1> QED BY <1>1, <1>2 DEF BulkImportEmployee

LEMMA RequestEnds ==
    ASSUME StaffInv, NEW r \in StaffRequests, RequestCommits(r) \/ StaffRequestFails(r)
    PROVE  StaffInv'
<1> DEFINE p == wrote[r]
           wr == [wrote EXCEPT ![r] = NoWrites]
           req == [staffReq EXCEPT ![r] = IdleStaffRequest]
<1>1. r \in StaffWriters /\ HrisRun \in StaffWriters /\ r # HrisRun
    BY DirectoryAssumptions DEF StaffWriters
<1>2. WroteGood(staff, wrote) /\ Addressed(staff)
    BY StaffInvSays
<1>3. wrote' = wr /\ behind' \subseteq StaffWriters \X StaffWriters
    BY <1>1, EndsKeeps DEF RequestCommits, StaffRequestFails, Commits
<1>4. staffReq' = req /\ StaffReqGood(req)
    BY IdleStaffTyped, StaffInvSays, StaffRequestsStay
       DEF RequestCommits, StaffRequestFails, CloseStaffRequest
<1>5. wr[HrisRun] = wrote[HrisRun]
    BY <1>1
<1>6. CASE StaffRequestFails(r)
    <2>1. WroteGood(staff, wr) /\ SyncSound(staff, hrisSync, wr[HrisRun])
        BY <1>1, <1>2, <1>5, EndFits, StaffInvSays
    <2>2. staff' = staff /\ hrisSync' = hrisSync
        BY <1>6 DEF StaffRequestFails
    <2> HIDE DEF wr, req
    <2> QED BY <1>3, <1>4, <2>1, <2>2, StaffInvSays, StaffInvAgain
<1>7. CASE RequestCommits(r)
    <2> DEFINE next == WithWrites(staff, p)
               T == DOMAIN p.own \cup DOMAIN p.links
               sync == IF hrisSync.phase = "written"
                       THEN [hrisSync EXCEPT !.since = @ \cup T] ELSE hrisSync
    <2>1. staff' = next /\ hrisSync' = sync
        BY <1>7 DEF RequestCommits, Commits, Touched
    <2>2. Addressed(next) /\ WroteGood(next, wr)
        BY <1>1, <1>2, CommitFits
    <2>3. WrittenFits(staff, p) /\ WrittenFits(staff, wrote[HrisRun])
          /\ Apart(p.own, wrote[HrisRun].own) /\ T \subseteq StaffIds
        BY <1>1, <1>2 DEF WroteGood, WrittenFits, OwnFits
    <2>4. SyncTyped(sync) /\ sync.phase = hrisSync.phase /\ sync.list = hrisSync.list
          /\ (hrisSync.phase = "written" => sync.since = hrisSync.since \cup T)
        BY <2>3, StaffInvSays DEF SyncTyped
    <2>5. SyncSound(next, sync, wrote[HrisRun])
        <3>1. SUFFICES ASSUME hrisSync.phase = "written"
                       PROVE  SyncSound(next, sync, wrote[HrisRun])
            BY <2>4, NotWrittenSound
        <3>2. SyncSound(staff, hrisSync, wrote[HrisRun])
            BY StaffInvSays
        <3>3. Linked(staff, WithWrites(staff, wrote[HrisRun]), hrisSync.since)
            BY <3>1, <3>2 DEF SyncSound
        <3>4. Linked(next, WithWrites(next, wrote[HrisRun]), hrisSync.since \cup T)
            BY <1>2, <2>3, <3>3, LinkedSince
        <3> HIDE DEF next, sync, T
        <3> QED BY <2>4, <3>1, <3>2, <3>4 DEF SyncSound
    <2> HIDE DEF next, sync, wr, req
    <2> QED BY <1>3, <1>4, <1>5, <2>1, <2>2, <2>4, <2>5, StaffInvAgain
<1> QED BY <1>6, <1>7

-----------------------------------------------------------------------------
(* The deletion of an employee *)

\* The table without k, and nobody's manager is k.
WithoutEmployee(rows, k, after) ==
    /\ after \in StaffTable /\ after[k] = NoStaff
    /\ \A j \in StaffIds \ {k} :
          /\ after[j].status = rows[j].status
          /\ after[j].email = rows[j].email
          /\ after[j].boss = rows[j].boss
          /\ rows[j].manager # k => after[j] = rows[j]

LEMMA LinkedWithout ==
    ASSUME NEW rows, Addressed(rows), NEW s, WrittenFits(rows, s), NEW k \in StaffIds,
           NEW after, WithoutEmployee(rows, k, after), NEW since,
           \A j \in DOMAIN s.own \cup DOMAIN s.links :
              j # k /\ rows[j].manager # k /\ WithWrites(rows, s)[j].manager # k,
           Linked(rows, WithWrites(rows, s), since)
    PROVE  Linked(after, WithWrites(after, s), since)
<1> DEFINE old == WithWrites(rows, s)
           new == WithWrites(after, s)
           T == DOMAIN s.own \cup DOMAIN s.links
<1>1. \A j \in T : j \in StaffIds /\ j # k /\ rows[j].manager # k /\ old[j].manager # k
    BY DEF WrittenFits, OwnFits
<1>2. \A j \in T : after[j] = rows[j]
    BY <1>1 DEF WithoutEmployee
<1>3. \A j \in T : new[j] = old[j]
    BY <1>1, <1>2 DEF WithWrites
<1>4. \A j \in StaffIds \ T : old[j] = rows[j] /\ new[j] = after[j]
    BY DEF WithWrites
<1>5. Linked(rows, old, since)
    OBVIOUS
<1> HIDE DEF old, new, T
<1>6. \A j \in StaffIds \ {k} : new[j].status = old[j].status /\ new[j].email = old[j].email
                                /\ new[j].boss = old[j].boss
    BY <1>3, <1>4 DEF WithoutEmployee
<1>7. \A j \in Employed(new) : j \in StaffIds \ {k} /\ j \in Employed(old)
    <2>1. new[k].status = "none"
        BY <1>1, <1>4 DEF WithoutEmployee, NoStaff
    <2> QED BY <1>6, <2>1 DEF Employed
<1>8. ASSUME NEW j \in Employed(new), NEW m \in Employed(new) \ {j},
             new[m].email = new[j].boss, {j, m} \cap since = {}
      PROVE  new[j].manager = m
    <2>1. old[j].manager = m
        BY <1>5, <1>6, <1>7, <1>8 DEF Linked
    <2>2. CASE j \in T
        BY <1>3, <2>1, <2>2
    <2>3. CASE j \notin T
        <3>1. rows[j].manager = m /\ m # k
            BY <1>4, <1>7, <2>1, <2>3
        <3>2. after[j] = rows[j]
            BY <1>7, <3>1 DEF WithoutEmployee
        <3> QED BY <1>4, <1>7, <2>3, <3>1, <3>2
    <2> QED BY <2>2, <2>3
<1>9. ASSUME NEW j \in Employed(new), NEW m, m = new[j].manager, m # after[j].manager,
             {j, m} \cap since = {}
      PROVE  m \in StaffIds \ {j} /\ new[m].email = new[j].boss
    <2>1. j \in T
        BY <1>4, <1>7, <1>9
    <2>2. m = old[j].manager /\ m # rows[j].manager /\ m # k
        BY <1>1, <1>2, <1>3, <1>9, <2>1
    <2>3. m \in StaffIds \ {j} /\ old[m].email = old[j].boss
        BY <1>5, <1>7, <1>9, <2>2 DEF Linked
    <2> QED BY <1>6, <1>7, <2>2, <2>3
<1>10. Linked(after, new, since)
    BY <1>8, <1>9 DEF Linked
<1> QED BY <1>10 DEF new

LEMMA DeleteKeeps ==
    ASSUME StaffInv, NEW k \in ManualIds, DeleteEmployee(k)
    PROVE  StaffInv'
<1>1. k \in StaffIds /\ HrisRun \in StaffWriters
    BY DirectoryNames DEF StaffWriters
<1>2. \A j \in StaffIds : staff[j] \in StaffRow
    BY StaffInvSays DEF StaffTable
<1> DEFINE after == [j \in StaffIds |->
                        IF j = k THEN NoStaff
                        ELSE IF staff[j].manager = k THEN [staff[j] EXCEPT !.manager = Nobody]
                        ELSE staff[j]]
<1>3. /\ staff' = after /\ hrisSync' = hrisSync /\ staffReq' = staffReq /\ wrote' = wrote
      /\ behind' = behind
    BY DEF DeleteEmployee
<1>4. ASSUME NEW j \in StaffIds
      PROVE  /\ after[j] \in StaffRow
             /\ j # k => /\ after[j].status = staff[j].status
                         /\ after[j].email = staff[j].email
                         /\ after[j].boss = staff[j].boss
                         /\ staff[j].manager # k => after[j] = staff[j]
             /\ j = k => after[j] = NoStaff
    <2>1. NoStaff \in StaffRow
        BY DEF NoStaff, StaffRow
    <2>2. CASE j = k
        BY <2>1, <2>2
    <2>3. CASE j # k /\ staff[j].manager = k
        <3>1. after[j] = [staff[j] EXCEPT !.manager = Nobody]
            BY <2>3
        <3> QED BY <1>2, <2>3, <3>1 DEF StaffRow
    <2>4. CASE j # k /\ staff[j].manager # k
        <3>1. after[j] = staff[j]
            BY <2>4
        <3> QED BY <1>2, <2>4, <3>1
    <2> QED BY <2>2, <2>3, <2>4
<1>5. after = [j \in StaffIds |-> after[j]] /\ DOMAIN after = StaffIds
    OBVIOUS
<1> HIDE DEF after
<1>6. after \in StaffTable
    BY <1>4, <1>5 DEF StaffTable
<1>7. WithoutEmployee(staff, k, after)
    BY <1>1, <1>4, <1>6 DEF WithoutEmployee
<1>8. \A j \in Employed(after) : j \in Employed(staff) /\ after[j].email = staff[j].email
    BY <1>4 DEF Employed, NoStaff
<1>9. Addressed(after)
    BY <1>6, <1>8, StaffInvSays DEF Addressed
<1>10. WroteGood(after, wrote)
    BY <1>8, FewerFit, StaffInvSays
<1>11. SyncSound(after, hrisSync, wrote[HrisRun])
    <2>1. SUFFICES ASSUME hrisSync.phase = "written"
                   PROVE  SyncSound(after, hrisSync, wrote[HrisRun])
        BY NotWrittenSound
    <2>2. SyncSound(staff, hrisSync, wrote[HrisRun])
        BY StaffInvSays
    <2>3. Linked(staff, WithWrites(staff, wrote[HrisRun]), hrisSync.since)
        BY <2>1, <2>2 DEF SyncSound
    <2> DEFINE s == wrote[HrisRun]
    <2>4. \A j \in DOMAIN s.own \cup DOMAIN s.links :
             j # k /\ staff[j].manager # k /\ WithWrites(staff, s)[j].manager # k
        BY <1>1 DEF DeleteEmployee, Touched
    <2>5. Addressed(staff) /\ WrittenFits(staff, s)
        BY StaffInvSays
    <2> HIDE DEF s
    <2>6. Linked(after, WithWrites(after, s), hrisSync.since)
        BY <1>1, <1>7, <2>3, <2>4, <2>5, LinkedWithout DEF s
    <2> QED BY <2>1, <2>2, <2>6 DEF SyncSound, s
<1>12. behind' \subseteq StaffWriters \X StaffWriters
    BY <1>3 DEF StaffInv
<1> QED BY <1>3, <1>9, <1>10, <1>11, <1>12, StaffInvSays, StaffInvAgain

-----------------------------------------------------------------------------
(* The invariant holds, and what a sync commits *)

LEMMA DirectoryStarts == DirectoryInit => StaffInv
<1> SUFFICES ASSUME DirectoryInit
             PROVE  StaffInv
    OBVIOUS
<1>1. NoStaff \in StaffRow
    BY DEF NoStaff, StaffRow
<1>2. staff \in StaffTable /\ \A k \in StaffIds : staff[k].status = "none"
    BY <1>1 DEF DirectoryInit, StaffTable, NoStaff
<1>3. Employed(staff) = {}
    BY <1>2 DEF Employed
<1>4. Addressed(staff)
    BY <1>2, <1>3 DEF Addressed
<1>5. SyncTyped(hrisSync) /\ SyncSound(staff, hrisSync, wrote[HrisRun])
    BY NotSyncingTyped, NotWrittenSound DEF DirectoryInit
<1>6. StaffReqGood(staffReq)
    BY IdleStaffTyped DEF DirectoryInit, StaffReqGood
<1>7. WroteGood(staff, wrote)
    <2>1. DOMAIN wrote = StaffWriters /\ \A w \in StaffWriters : wrote[w] = NoWrites
        BY DEF DirectoryInit
    <2>2. \A w \in StaffWriters : WrittenFits(staff, wrote[w])
        BY <2>1, NoWritesFit
    <2>3. \A w, x \in StaffWriters : Apart(wrote[w].own, wrote[x].own)
        BY <2>1, NoWritesFit DEF Apart
    <2> QED BY <2>1, <2>2, <2>3 DEF WroteGood
<1>8. behind = {}
    BY DEF DirectoryInit
<1> QED BY <1>4, <1>5, <1>6, <1>7, <1>8 DEF StaffInv

LEMMA RequestBegins ==
    ASSUME StaffInv, NEW r \in StaffRequests, NEW b \in MailAddresses \cup {Nobody},
           \/ \E e \in MailAddresses : CreateBegins(r, e, b)
           \/ \E k \in ManualIds, e \in MailAddresses \cup {Nobody} : UpdateBegins(r, k, e, b)
    PROVE  StaffInv'
<1>1. PICK q \in StaffRequestSet : CreationsNamed(q) /\ staffReq' = [staffReq EXCEPT ![r] = q]
    <2>1. CASE \E e \in MailAddresses : CreateBegins(r, e, b)
        BY <2>1 DEF CreateBegins, StaffRequestSet, CreationsNamed
    <2>2. CASE \E k \in ManualIds, e \in MailAddresses \cup {Nobody} : UpdateBegins(r, k, e, b)
        <3>1. PICK k \in ManualIds, e \in MailAddresses \cup {Nobody} : UpdateBegins(r, k, e, b)
            BY <2>2
        <3>2. PICK op \in {"update", "clear"} :
                  staffReq' = [staffReq EXCEPT ![r] =
                      [op |-> op, id |-> k,
                       email |-> IF e = staff[k].email THEN Nobody ELSE e,
                       boss |-> IF b = staff[k].boss THEN Nobody ELSE b]]
            BY <3>1 DEF UpdateBegins
        <3> DEFINE q == [op |-> op, id |-> k,
                         email |-> IF e = staff[k].email THEN Nobody ELSE e,
                         boss |-> IF b = staff[k].boss THEN Nobody ELSE b]
        <3>3. q \in StaffRequestSet /\ CreationsNamed(q)
            BY DEF StaffRequestSet, CreationsNamed
        <3> QED BY <3>2, <3>3
    <2> QED BY <2>1, <2>2
<1>2. StaffReqGood([staffReq EXCEPT ![r] = q])
    BY <1>1, StaffInvSays, StaffRequestsStay
<1>3. UNCHANGED <<staff, hrisSync, wrote, behind>>
    BY DEF CreateBegins, UpdateBegins
<1> QED BY <1>1, <1>2, <1>3, StaffRequestMoves

LEMMA DirectoryStep == StaffInv /\ [DirectoryNext]_staffVars => StaffInv'
<1> SUFFICES ASSUME StaffInv, [DirectoryNext]_staffVars
             PROVE  StaffInv'
    OBVIOUS
<1>1. CASE UNCHANGED staffVars
    BY <1>1, StaffRequestMoves, StaffInvSays DEF staffVars
<1>2. CASE SyncFetches \/ SyncWrites \/ SyncCommits \/ SyncFails
    BY <1>2, SyncStepsKeep, SyncWritesKeeps
<1>3. ASSUME NEW r \in StaffRequests, NEW e \in MailAddresses,
             NEW b \in MailAddresses \cup {Nobody},
             CreateBegins(r, e, b) \/ BulkImportEmployee(r, e, b)
      PROVE  StaffInv'
    BY <1>3, RequestBegins, BulkKeeps
<1>4. ASSUME NEW r \in StaffRequests, NEW k \in ManualIds, NEW e \in MailAddresses \cup {Nobody},
             NEW b \in MailAddresses \cup {Nobody}, UpdateBegins(r, k, e, b)
      PROVE  StaffInv'
    BY <1>4, RequestBegins
<1>5. ASSUME NEW r \in StaffRequests,
             CreateWrites(r) \/ UpdateWrites(r) \/ RequestCommits(r) \/ StaffRequestFails(r)
      PROVE  StaffInv'
    BY <1>5, CreateKeeps, UpdateKeeps, RequestEnds
<1>6. ASSUME NEW k \in ManualIds, DeleteEmployee(k)
      PROVE  StaffInv'
    BY <1>6, DeleteKeeps
<1> QED BY <1>1, <1>2, <1>3, <1>4, <1>5, <1>6 DEF DirectoryNext

LEMMA StaffKept == DirectorySpec => []StaffInv
<1> QED BY DirectoryStarts, DirectoryStep, PTL DEF DirectorySpec

(* The employees, the fetched list, the requests and what transactions     *)
(* have written and not committed are always well formed, whoever commits. *)
THEOREM DirectoryTypes == DirectorySpec => []DirectoryTypeOK
<1> QED BY StaffInvTypes, StaffKept, PTL

LEMMA SyncsAreCommitted ==
    ASSUME [DirectoryNext]_staffVars, SyncTakesEffect
    PROVE  hrisSync.phase = "written" /\ staff' = WithWrites(staff, wrote[HrisRun])
<1>1. hrisSync.phase = "written" /\ hrisSync'.phase = "idle" /\ staff' # staff
    BY DEF SyncTakesEffect
<1>2. hrisSync' # hrisSync /\ ~UNCHANGED staffVars
    BY <1>1 DEF staffVars
<1>3. ASSUME NEW r \in StaffRequests, RequestCommits(r)
      PROVE  FALSE
    <2>1. hrisSync' = [hrisSync EXCEPT !.since = @ \cup Touched(r)]
        BY <1>1, <1>3 DEF RequestCommits
    <2> QED BY <1>1, <2>1
<1>4. SyncCommits
    BY <1>1, <1>2, <1>3 DEF DirectoryNext, SyncFetches, SyncWrites, SyncFails, CreateBegins,
            UpdateBegins, CreateWrites, UpdateWrites, DeleteEmployee, BulkImportEmployee,
            StaffRequestFails
<1> QED BY <1>1, <1>4 DEF SyncCommits, Commits

(* sync_service, for any number of employees, requests and orders: a sync  *)
(* that changes the table when it commits leaves everybody on the list of  *)
(* the HRIS as listed, the others as they were, and everybody's manager is *)
(* whoever holds the manager's address, but for the rows that a request    *)
(* committed between the resolution and the commit of the sync.            *)
THEOREM SyncsFollowTheList == DirectorySpec => SyncFollowsTheList
<1>1. ASSUME StaffInv, [DirectoryNext]_staffVars, SyncTakesEffect, NEW k \in Employed(staff')
      PROVE  /\ k \in OnTheList(hrisSync.list) =>
                   /\ staff'[k].status = hrisSync.list[k].status
                   /\ staff'[k].email = hrisSync.list[k].email
                   /\ staff'[k].boss = hrisSync.list[k].boss
             /\ k \notin OnTheList(hrisSync.list) =>
                   staff'[k] = [staff[k] EXCEPT !.manager = staff'[k].manager]
             /\ \A m \in StaffIds \ {k} :
                   m \in Employed(staff') /\ staff'[m].email = staff'[k].boss
                       => staff'[k].manager = m \/ {k, m} \cap hrisSync.since # {}
             /\ LET m == staff'[k].manager IN
                m # staff[k].manager =>
                   \/ m # k /\ staff'[m].email = staff'[k].boss
                   \/ {k, m} \cap hrisSync.since # {}
    <2> DEFINE p == wrote[HrisRun]
    <2>1. PICK next : next = WithWrites(staff, p) /\ staff' = next /\ hrisSync.phase = "written"
        BY <1>1, SyncsAreCommitted
    <2>2. Addressed(staff) /\ WrittenFits(staff, p) /\ SyncSound(staff, hrisSync, p)
        BY <1>1, StaffInvSays
    <2>3. Merges(staff, p, next)
        BY <2>1, <2>2, WritesMerge
    <2>4. /\ DOMAIN p.own = OnTheList(hrisSync.list)
          /\ \A j \in OnTheList(hrisSync.list) : /\ p.own[j].status = hrisSync.list[j].status
                                                 /\ p.own[j].email = hrisSync.list[j].email
                                                 /\ p.own[j].boss = hrisSync.list[j].boss
          /\ Linked(staff, next, hrisSync.since)
        BY <2>1, <2>2 DEF SyncSound
    <2>5. k \in StaffIds /\ k \in Employed(next)
        BY <1>1, <2>1 DEF Employed
    <2> HIDE DEF p
    <2>6. k \in OnTheList(hrisSync.list) => /\ next[k].status = hrisSync.list[k].status
                                            /\ next[k].email = hrisSync.list[k].email
                                            /\ next[k].boss = hrisSync.list[k].boss
        BY <2>3, <2>4 DEF Merges
    <2>7. k \notin OnTheList(hrisSync.list) =>
              next[k] = [staff[k] EXCEPT !.manager = next[k].manager]
        BY <2>3, <2>4, <2>5 DEF Merges
    <2>8. \A m \in Employed(next) \ {k} : next[m].email = next[k].boss
              => next[k].manager = m \/ {k, m} \cap hrisSync.since # {}
        BY <2>4, <2>5 DEF Linked
    <2>9. next[k].manager # staff[k].manager =>
              \/ next[k].manager # k /\ next[next[k].manager].email = next[k].boss
              \/ {k, next[k].manager} \cap hrisSync.since # {}
        BY <2>4, <2>5 DEF Linked
    <2> QED BY <2>1, <2>6, <2>7, <2>8, <2>9
<1>2. StaffInv /\ [DirectoryNext]_staffVars =>
          [SyncTakesEffect =>
             \A k \in Employed(staff') :
                /\ k \in OnTheList(hrisSync.list) =>
                      /\ staff'[k].status = hrisSync.list[k].status
                      /\ staff'[k].email = hrisSync.list[k].email
                      /\ staff'[k].boss = hrisSync.list[k].boss
                /\ k \notin OnTheList(hrisSync.list) =>
                      staff'[k] = [staff[k] EXCEPT !.manager = staff'[k].manager]
                /\ \A m \in StaffIds \ {k} :
                      m \in Employed(staff') /\ staff'[m].email = staff'[k].boss
                          => staff'[k].manager = m \/ {k, m} \cap hrisSync.since # {}
                /\ LET m == staff'[k].manager IN
                   m # staff[k].manager =>
                      \/ m # k /\ staff'[m].email = staff'[k].boss
                      \/ {k, m} \cap hrisSync.since # {}
             ]_staffVars
    BY <1>1
<1> QED BY <1>2, StaffKept, PTL DEF DirectorySpec, SyncFollowsTheList
===============================================================================
