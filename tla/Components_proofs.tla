--------------------------- MODULE Components_proofs ---------------------------
(***************************************************************************)
(* What is proved of each component holds of all of them together, as TLC  *)
(* runs them (MCComponents): a behaviour of the composition is a behaviour *)
(* of every component, whichever of them moves.                            *)
(***************************************************************************)
EXTENDS MCComponents, Administration_proofs, Syncs_proofs, Costs_proofs

-----------------------------------------------------------------------------
(* A step of the composition is a step of a component, or leaves it alone. *)

LEMMA SessionsCompose == ComponentsSpec => SessionsSpec
<1>1. ComponentsInit => SessionsInit
    BY DEF ComponentsInit
<1>2. [ComponentsNext]_componentsVars => [SessionsNext]_sessionVars
    BY DEF ComponentsNext, componentsVars
<1> QED BY <1>1, <1>2, PTL DEF ComponentsSpec, SessionsSpec

LEMMA RolesCompose == ComponentsSpec => RoleGrantsSpec
<1>1. ComponentsInit => RoleGrantsInit
    BY DEF ComponentsInit
<1>2. [ComponentsNext]_componentsVars => [RoleGrantsNext]_roleVars
    BY DEF ComponentsNext, componentsVars
<1> QED BY <1>1, <1>2, PTL DEF ComponentsSpec, RoleGrantsSpec

LEMMA ImportsCompose == ComponentsSpec => ImportSpec
<1>1. ComponentsInit => ImportInit
    BY DEF ComponentsInit
<1>2. [ComponentsNext]_componentsVars => [ImportNext]_importVars
    BY DEF ComponentsNext, componentsVars
<1> QED BY <1>1, <1>2, PTL DEF ComponentsSpec, ImportSpec

LEMMA RestoresCompose == ComponentsSpec => RestoreSpec
<1>1. ComponentsInit => RestoreInit
    BY DEF ComponentsInit
<1>2. [ComponentsNext]_componentsVars => [RestoreNext]_restoreVars
    BY DEF ComponentsNext, componentsVars
<1> QED BY <1>1, <1>2, PTL DEF ComponentsSpec, RestoreSpec

LEMMA BackupsCompose == ComponentsSpec => BackupsSpec
<1>1. ComponentsInit => BackupsInit
    BY DEF ComponentsInit
<1>2. [ComponentsNext]_componentsVars => [BackupsNext]_backupVars
    BY DEF ComponentsNext, componentsVars
<1> QED BY <1>1, <1>2, PTL DEF ComponentsSpec, BackupsSpec

LEMMA FetchesCompose == ComponentsSpec => FetchSpec
<1>1. ComponentsInit => FetchInit
    BY DEF ComponentsInit
<1>2. [ComponentsNext]_componentsVars => [FetchNext]_fetchVars
    BY DEF ComponentsNext, componentsVars
<1> QED BY <1>1, <1>2, PTL DEF ComponentsSpec, FetchSpec

LEMMA PricesCompose == ComponentsSpec => PricingSpec
<1>1. ComponentsInit => PricingInit
    BY DEF ComponentsInit
<1>2. [ComponentsNext]_componentsVars => [PricingNext]_pricingVars
    BY DEF ComponentsNext, componentsVars
<1> QED BY <1>1, <1>2, PTL DEF ComponentsSpec, PricingSpec

LEMMA CostsCompose == ComponentsSpec => CostSpec
<1>1. ComponentsInit => CostInit
    BY DEF ComponentsInit
<1>2. [ComponentsNext]_componentsVars => [CostNext]_costVars
    BY DEF ComponentsNext, componentsVars
<1> QED BY <1>1, <1>2, PTL DEF ComponentsSpec, CostSpec

LEMMA ForecastsCompose == ComponentsSpec => ForecastSpec
<1>1. ComponentsInit => ForecastInit
    BY DEF ComponentsInit
<1>2. [ComponentsNext]_componentsVars => [ForecastNext]_forecastVars
    BY DEF ComponentsNext, componentsVars
<1> QED BY <1>1, <1>2, PTL DEF ComponentsSpec, ForecastSpec

LEMMA FiguresCompose == ComponentsSpec => FiguresSpec
<1>1. ComponentsInit => FiguresInit
    BY DEF ComponentsInit
<1>2. [ComponentsNext]_componentsVars => [FiguresNext]_figureVars
    BY DEF ComponentsNext, componentsVars
<1> QED BY <1>1, <1>2, PTL DEF ComponentsSpec, FiguresSpec

LEMMA NoticesCompose == ComponentsSpec => NoticesSpec
<1>1. ComponentsInit => NoticesInit
    BY DEF ComponentsInit
<1>2. [ComponentsNext]_componentsVars => [NoticesNext]_noticeVars
    BY DEF ComponentsNext, componentsVars
<1> QED BY <1>1, <1>2, PTL DEF ComponentsSpec, NoticesSpec

LEMMA EmployeesCompose == ComponentsSpec => DirectorySpec
<1>1. ComponentsInit => DirectoryInit
    BY DEF ComponentsInit
<1>2. [ComponentsNext]_componentsVars => [DirectoryNext]_staffVars
    BY DEF ComponentsNext, componentsVars
<1> QED BY <1>1, <1>2, PTL DEF ComponentsSpec, DirectorySpec

LEMMA SyncsCompose == ComponentsSpec => ProviderSyncSpec
<1>1. ComponentsInit => ProviderSyncInit
    BY DEF ComponentsInit
<1>2. [ComponentsNext]_componentsVars => [ProviderSyncNext]_providerSyncVars
    BY DEF ComponentsNext, componentsVars
<1> QED BY <1>1, <1>2, PTL DEF ComponentsSpec, ProviderSyncSpec

-----------------------------------------------------------------------------
(* The rows and the requests of every component are well formed in the     *)
(* composition, whichever component moves: the types that each part of the *)
(* code gives its rows hold for all constants, not only those of the run.  *)
THEOREM ComponentTypes == ComponentsSpec => []ComponentsTypeOK
<1>1. ComponentsSpec => [](SessionsTypeOK /\ RoleGrantsTypeOK /\ NoticesTypeOK)
    BY SessionsCompose, RolesCompose, NoticesCompose, SessionTypes, RoleTypes, NoticeTypes, PTL
<1>2. ComponentsSpec => [](ImportTypeOK /\ RestoreTypeOK /\ BackupsTypeOK)
    BY ImportsCompose, RestoresCompose, BackupsCompose, ImportTypes, RestoreTypes, BackupTypes, PTL
<1>3. ComponentsSpec => [](FetchTypeOK /\ ProviderSyncTypeOK /\ DirectoryTypeOK)
    BY FetchesCompose, SyncsCompose, EmployeesCompose, FetchTypes, SyncTypes, DirectoryTypes, PTL
<1>4. ComponentsSpec => [](PricingTypeOK /\ CostTypeOK /\ FiguresTypeOK /\ ForecastTypeOK)
    BY PricesCompose, CostsCompose, FiguresCompose, ForecastsCompose, PricingTypes, CostTypes,
       FigureTypes, ForecastTypes, PTL
<1>5. /\ SessionsTypeOK /\ RoleGrantsTypeOK /\ NoticesTypeOK
      /\ ImportTypeOK /\ RestoreTypeOK /\ BackupsTypeOK
      /\ FetchTypeOK /\ ProviderSyncTypeOK /\ DirectoryTypeOK
      /\ PricingTypeOK /\ CostTypeOK /\ FiguresTypeOK /\ ForecastTypeOK
      => ComponentsTypeOK
    BY DEF ComponentsTypeOK
<1> QED BY <1>1, <1>2, <1>3, <1>4, <1>5, PTL

(* So do the safety properties: what sessions, roles, notifications,       *)
(* imports, backups, restores, synchronisations, prices, snapshots,        *)
(* figures and forecasts promise, the composition promises.                *)
THEOREM ComponentsAreSafe ==
    ComponentsSpec =>
        /\ [](OneTokenPerSession /\ DeactivatedHoldsNoToken)
        /\ [](RolesAsAsked /\ SystemRolesFollow) /\ HeldRoleStays
        /\ [](NoSilentExpiry /\ RepeatsOnlyAfterLostAnswers)
        /\ [](ImportsAccount /\ PreviewForetells)
        /\ [](ScheduleFollowsConfig /\ BackupsKept)
        /\ []QuietBackupImports /\ SetupSparesAccounts
        /\ [](SuccessIsWhole /\ SyncedMembersAreStored)
        /\ SyncFollowsTheList
        /\ [](PricesCurrent /\ OneTotalPerMonth /\ TotalAddsUp)
        /\ [](ForecastsSound /\ FiguresAgree)
<1>1. ComponentsSpec => [](OneTokenPerSession /\ DeactivatedHoldsNoToken)
    BY SessionsCompose, SessionsHaveOneToken, DeactivationHolds, PTL
<1>2. ComponentsSpec => [](RolesAsAsked /\ SystemRolesFollow) /\ HeldRoleStays
    BY RolesCompose, RolesAreAsAsked, SystemRolesDoFollow, HeldRolesStay, PTL
<1>3. ComponentsSpec => [](NoSilentExpiry /\ RepeatsOnlyAfterLostAnswers)
    BY NoticesCompose, ExpiriesAnnounced, RepeatsFollowLostAnswers, PTL
<1>4. ComponentsSpec => [](ImportsAccount /\ PreviewForetells)
    BY ImportsCompose, ImportsAreAccounted, ImportsAreForetold, PTL
<1>5. ComponentsSpec => [](ScheduleFollowsConfig /\ BackupsKept)
    BY BackupsCompose, SchedulerFollows, BackupsAreKept, PTL
<1>6. ComponentsSpec => []QuietBackupImports /\ SetupSparesAccounts
    BY RestoresCompose, QuietBackupsCanBeRestored, SetupRemovesNoAccount, PTL
<1>7. ComponentsSpec => [](SuccessIsWhole /\ SyncedMembersAreStored)
    BY FetchesCompose, SyncsCompose, SuccessReadsEverybody, SyncedMembersStored, PTL
<1>8. ComponentsSpec => SyncFollowsTheList
    BY EmployeesCompose, SyncsFollowTheList
<1>9. ComponentsSpec => [](PricesCurrent /\ OneTotalPerMonth /\ TotalAddsUp)
    BY PricesCompose, CostsCompose, CostsFollowPrices, MonthsHaveOneTotal, TotalsAddUp, PTL
<1>10. ComponentsSpec => [](ForecastsSound /\ FiguresAgree)
    BY ForecastsCompose, FiguresCompose, ForecastsAreSound, FiguresNeverContradict, PTL
<1> QED BY <1>1, <1>2, <1>3, <1>4, <1>5, <1>6, <1>7, <1>8, <1>9, <1>10
===============================================================================
