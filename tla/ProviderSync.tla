----------------------------- MODULE ProviderSync -----------------------------
(***************************************************************************)
(* Which licences there are and what a provider's row says of its last     *)
(* sync: the transaction of a sync over one provider or over all of them   *)
(* (sync_service, scheduler, routers/providers) and the removal of members *)
(* at the provider (license_service, cursor).                              *)
(*                                                                         *)
(* A sync marks a provider as in progress, fetches its members, writes one *)
(* licence after the other and notes the outcome; all of it is committed   *)
(* at the very end.  A provider that fails keeps what was written of it;   *)
(* an error of the database ends the whole run.  A removal asks the        *)
(* provider first and deletes the licence only if the provider agrees.     *)
(***************************************************************************)
EXTENDS FiniteSets, Sequences, SequencesExt

CONSTANTS
    SyncedProviders,
    TeamMembers,
    SyncRuns,       \* syncs under way at the same time: the job and requests
    Removals,       \* removals under way at the same time
    NoSeat

TeamSeats == SyncedProviders \X TeamMembers

ASSUME SyncAssumptions == NoSeat \notin TeamSeats /\ IsFiniteSet(SyncedProviders)

VARIABLES
    team,       \* the seats taken at the providers
    stored,     \* the seats that have a licence row
    outcome,    \* [SyncedProviders -> last_sync_status]
    credited,   \* history: the seats the last successful sync has listed, but for those
                \* given up or deleted since
    syncRun,    \* [SyncRuns -> what the transaction of a sync has done]
    removal     \* [Removals -> what a removal has done]

providerSyncVars == <<team, stored, outcome, credited, syncRun, removal>>

IdleRun ==
    [at |-> "idle", scope |-> "none", queue |-> <<>>, toWrite |-> {}, current |-> NoSeat,
     seen |-> FALSE, written |-> {}, listing |-> {}, credit |-> {},
     result |-> [p \in SyncedProviders |-> "none"]]

SyncRunRow ==
    [at : {"idle", "next", "fetch", "write", "flush"}, scope : {"none", "one", "all"},
     queue : Seq(SyncedProviders), toWrite : SUBSET TeamSeats, current : TeamSeats \cup {NoSeat},
     seen : BOOLEAN, written : SUBSET TeamSeats, listing : SUBSET TeamSeats,
     credit : SUBSET TeamSeats,
     result : [SyncedProviders -> {"none", "in_progress", "success", "failed"}]]

\* agreed is history: what the provider has agreed to remove.
IdleRemoval ==
    [at |-> "idle", targets |-> {}, current |-> NoSeat, deleted |-> {}, agreed |-> {}]

RemovalRow ==
    [at : {"idle", "ask", "delete"}, targets : SUBSET TeamSeats,
     current : TeamSeats \cup {NoSeat}, deleted : SUBSET TeamSeats, agreed : SUBSET TeamSeats]

ProviderSyncInit ==
    /\ team = {} /\ stored = {} /\ credited = {}
    /\ outcome = [p \in SyncedProviders |-> "none"]
    /\ syncRun = [s \in SyncRuns |-> IdleRun]
    /\ removal = [q \in Removals |-> IdleRemoval]

SeatsOf(p) == {k \in TeamSeats : k[1] = p}

\* The provider row stays locked from the mark "in progress" to the commit.
HasProvider(s, p) == syncRun[s].result[p] # "none"

\* A licence row that a transaction has written or deleted stays locked until it ends.
SyncHoldsSeat(s, k) == k \in syncRun[s].written
RemovalHoldsSeat(q, k) == k \in removal[q].deleted

\* Nobody is credited with a seat that is given up or deleted.
Uncredit(runs, ks) ==
    [s \in SyncRuns |-> [runs[s] EXCEPT !.listing = @ \ ks, !.credit = @ \ ks]]

-----------------------------------------------------------------------------
(* A sync. *)

\* sync_provider for one, sync_all_providers for all; these come in no particular order.
BeginSyncRun(s) ==
    /\ syncRun[s].at = "idle"
    /\ \/ \E p \in SyncedProviders :
             syncRun' = [syncRun EXCEPT ![s] = [IdleRun EXCEPT !.at = "next", !.scope = "one",
                                                               !.queue = <<p>>]]
       \/ \E ps \in SetToSeqs(SyncedProviders) :
             syncRun' = [syncRun EXCEPT ![s] = [IdleRun EXCEPT !.at = "next", !.scope = "all",
                                                               !.queue = ps]]
    /\ UNCHANGED <<team, stored, outcome, credited, removal>>

MarkInProgress(s) ==
    /\ syncRun[s].at = "next" /\ syncRun[s].queue # <<>>
    /\ LET p == Head(syncRun[s].queue)
       IN  /\ \A other \in SyncRuns \ {s} : ~HasProvider(other, p)
           /\ syncRun' = [syncRun EXCEPT ![s] =
                 [@ EXCEPT !.at = "fetch", !.result[p] = "in_progress"]]
    /\ UNCHANGED <<team, stored, outcome, credited, removal>>

FetchMembers(s) ==
    /\ syncRun[s].at = "fetch"
    /\ LET found == team \cap SeatsOf(Head(syncRun[s].queue))
       IN  syncRun' = [syncRun EXCEPT ![s] =
                          [@ EXCEPT !.at = "write", !.toWrite = found, !.listing = found]]
    /\ UNCHANGED <<team, stored, outcome, credited, removal>>

\* The licence is looked for, then matched and priced.
LookForLicence(s) ==
    /\ syncRun[s].at = "write"
    /\ \E k \in syncRun[s].toWrite :
          syncRun' = [syncRun EXCEPT ![s] =
                         [@ EXCEPT !.at = "flush", !.current = k, !.seen = k \in stored]]
    /\ UNCHANGED <<team, stored, outcome, credited, removal>>

\* The row is updated or inserted; a row that has gone or come meanwhile is an error after
\* which not even the failure can be recorded: everything is rolled back.
FlushLicence(s) ==
    /\ syncRun[s].at = "flush"
    /\ LET run == syncRun[s]
           k == run.current
       IN  /\ \A q \in Removals : ~RemovalHoldsSeat(q, k)
           /\ syncRun' = [syncRun EXCEPT ![s] =
                 IF run.seen = (k \in stored)
                 THEN [run EXCEPT !.at = "write", !.current = NoSeat, !.seen = FALSE,
                                  !.toWrite = @ \ {k}, !.written = @ \cup {k}]
                 ELSE IdleRun]
    /\ UNCHANGED <<team, stored, outcome, credited, removal>>

\* A run that is through with the first provider of its queue; the failure of one provider
\* ends the sync of this one only.
Through(run, result) ==
    [run EXCEPT !.at = "next", !.queue = Tail(@), !.toWrite = {}, !.current = NoSeat,
                !.seen = FALSE, !.listing = {}, !.result[Head(run.queue)] = result]

ProviderSynced(s) ==
    /\ syncRun[s].at = "write" /\ syncRun[s].toWrite = {}
    /\ LET run == Through(syncRun[s], "success")
       IN  syncRun' = [syncRun EXCEPT ![s] =
                          [run EXCEPT !.credit = @ \cup syncRun[s].listing]]
    /\ UNCHANGED <<team, stored, outcome, credited, removal>>

\* The client raises, or an entry that cannot be processed does.
ProviderFails(s) ==
    /\ syncRun[s].at \in {"fetch", "write", "flush"}
    /\ syncRun' = [syncRun EXCEPT ![s] = Through(@, "failed")]
    /\ UNCHANGED <<team, stored, outcome, credited, removal>>

\* By the job, or by get_db after the handler has turned any error into an answer.
CommitSyncRun(s) ==
    /\ syncRun[s].at = "next" /\ syncRun[s].queue = <<>>
    /\ LET run == syncRun[s]
       IN  /\ stored' = stored \cup run.written
           /\ outcome' = [p \in SyncedProviders |->
                             IF HasProvider(s, p) THEN run.result[p] ELSE outcome[p]]
           /\ credited' = {k \in credited : run.result[k[1]] # "success"} \cup run.credit
    /\ syncRun' = [syncRun EXCEPT ![s] = IdleRun]
    /\ UNCHANGED <<team, removal>>

\* An error of the database, a deadlock for instance, or the ValueError of a single provider,
\* which the router answers with 404.
RollBackSyncRun(s) ==
    /\ syncRun[s].at # "idle"
    /\ syncRun' = [syncRun EXCEPT ![s] = IdleRun]
    /\ UNCHANGED <<team, stored, outcome, credited, removal>>

-----------------------------------------------------------------------------
(* Removing members at the provider. *)

\* remove_from_provider for one licence, bulk_remove_from_provider for several.
BeginRemoval(q, ks) ==
    /\ removal[q].at = "idle"
    /\ ks # {} /\ ks \subseteq stored
    /\ removal' = [removal EXCEPT ![q] = [IdleRemoval EXCEPT !.at = "ask", !.targets = ks]]
    /\ UNCHANGED <<team, stored, outcome, credited, syncRun>>

Give(ks) ==
    /\ team' = team \ ks
    /\ credited' = credited \ ks
    /\ syncRun' = Uncredit(syncRun, ks)

\* Mutant: whatever the provider answers, the licence goes.
AgreedAnyway(answer) == TRUE

\* Everything but success is an error: a refusal, an unknown member, an answer that is lost.
Agreed(answer) == answer = "removed"

AskProvider(q, k, answer) ==
    /\ removal[q].at = "ask" /\ k \in removal[q].targets
    /\ (answer = "removed") => k \in team
    /\ IF answer \in {"removed", "lost"}    \* removed, though the answer may be lost
       THEN Give({k})
       ELSE UNCHANGED <<team, credited, syncRun>>
    /\ LET rem == removal[q]
           left == rem.targets \ {k}
       IN  removal' = [removal EXCEPT ![q] =
              IF Agreed(answer)
              THEN [rem EXCEPT !.at = "delete", !.current = k, !.targets = left,
                               !.agreed = IF answer = "removed" THEN @ \cup {k} ELSE @]
              ELSE [rem EXCEPT !.targets = left]]
    /\ UNCHANGED <<stored, outcome>>

\* The licence is deleted if it is still there.
DeleteRemoved(q) ==
    /\ removal[q].at = "delete"
    /\ LET rem == removal[q]
           k == rem.current
       IN  /\ \A s \in SyncRuns : k \in stored => ~SyncHoldsSeat(s, k)
           /\ \A other \in Removals \ {q} : ~RemovalHoldsSeat(other, k)
           /\ removal' = [removal EXCEPT ![q] =
                 [rem EXCEPT !.at = "ask", !.current = NoSeat,
                             !.deleted = @ \cup ({k} \cap stored)]]
    /\ UNCHANGED <<team, stored, outcome, credited, syncRun>>

CommitRemoval(q) ==
    /\ removal[q].at = "ask" /\ removal[q].targets = {}
    /\ stored' = stored \ removal[q].deleted
    /\ credited' = credited \ removal[q].agreed
    /\ syncRun' = Uncredit(syncRun, removal[q].agreed)
    /\ removal' = [removal EXCEPT ![q] = IdleRemoval]
    /\ UNCHANGED <<team, outcome>>

\* The transaction fails: what the provider has removed stays removed.
RemovalFails(q) ==
    /\ removal[q].at # "idle"
    /\ removal' = [removal EXCEPT ![q] = IdleRemoval]
    /\ UNCHANGED <<team, stored, outcome, credited, syncRun>>

-----------------------------------------------------------------------------
(* What else happens to members and licences. *)

Join(k) ==
    /\ team' = team \cup {k}
    /\ UNCHANGED <<stored, outcome, credited, syncRun, removal>>

Leave(k) ==
    /\ Give({k})
    /\ UNCHANGED <<stored, outcome, removal>>

Unlocked(k) ==
    /\ \A s \in SyncRuns : ~SyncHoldsSeat(s, k)
    /\ \A q \in Removals : ~RemovalHoldsSeat(q, k)

\* license_service.bulk_delete: the local row only.
DeleteLocally(k) ==
    /\ k \in stored /\ Unlocked(k)
    /\ stored' = stored \ {k}
    /\ credited' = credited \ {k}
    /\ syncRun' = Uncredit(syncRun, {k})
    /\ UNCHANGED <<team, outcome, removal>>

\* An import or an administrator creates the licence.
CreateLocally(k) ==
    /\ k \notin stored /\ Unlocked(k)
    /\ stored' = stored \cup {k}
    /\ UNCHANGED <<team, outcome, credited, syncRun, removal>>

\* The process ends; providers and committed rows stay.
SyncProcessCrashes ==
    /\ syncRun' = [s \in SyncRuns |-> IdleRun]
    /\ removal' = [q \in Removals |-> IdleRemoval]
    /\ UNCHANGED <<team, stored, outcome, credited>>

-----------------------------------------------------------------------------
SyncRunNext(s) ==
    \/ BeginSyncRun(s) \/ MarkInProgress(s) \/ FetchMembers(s)
    \/ LookForLicence(s) \/ FlushLicence(s)
    \/ ProviderSynced(s) \/ ProviderFails(s)
    \/ CommitSyncRun(s) \/ RollBackSyncRun(s)

RemovalNext(q) ==
    \/ \E ks \in SUBSET stored : BeginRemoval(q, ks)
    \/ \E k \in TeamSeats, answer \in {"removed", "refused", "unknown", "lost"} :
          AskProvider(q, k, answer)
    \/ DeleteRemoved(q) \/ CommitRemoval(q) \/ RemovalFails(q)

ProviderSyncNext ==
    \/ \E s \in SyncRuns : SyncRunNext(s)
    \/ \E q \in Removals : RemovalNext(q)
    \/ \E k \in TeamSeats : Join(k) \/ Leave(k) \/ DeleteLocally(k) \/ CreateLocally(k)
    \/ SyncProcessCrashes

ProviderSyncSpec == ProviderSyncInit /\ [][ProviderSyncNext]_providerSyncVars

-----------------------------------------------------------------------------
\* Seats, outcomes, runs and removals are well formed.
ProviderSyncTypeOK ==
    /\ team \subseteq TeamSeats /\ stored \subseteq TeamSeats /\ credited \subseteq TeamSeats
    /\ outcome \in [SyncedProviders -> {"none", "success", "failed", "in_progress"}]
    /\ syncRun \in [SyncRuns -> SyncRunRow]
    /\ removal \in [Removals -> RemovalRow]

(* What a provider is said to have been synchronised with is there: every  *)
(* member that the last successful sync listed and that has stayed a       *)
(* member has its licence, unless somebody deleted it here or the provider *)
(* agreed to a removal, whatever later syncs, removals that fail half-way, *)
(* deadlocks and crashes do; and no crash leaves a provider "in progress". *)
SyncedMembersAreStored ==
    /\ credited \subseteq stored
    /\ \A p \in SyncedProviders : outcome[p] # "in_progress"
=============================================================================
