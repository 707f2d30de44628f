SPECIFICATION ComponentsSpec
CONSTANTS
  c1 = c1
  k1 = k1
  k2 = k2
  daily = daily
  odd = odd
  partA = partA
  partB = partB
  view = view
  sys = sys
  super = super
  Admins = {a1}
  SuperadminRows = {a1}
  MaxTokens = 3
  AuthRequests = {q1, q2}
  NoAdmin = NoAdmin
  Holders = {u1}
  SuperadminRole = super
  ConfiguredAdmins = {u1}
  CustomRoles = {c1}
  AdminRole = admin
  AuditorRole = auditor
  Permissions = {view, sys}
  AuditPermissions = {view}
  SystemAdmin = sys
  AskedRoles <- AskedRolesC
  AskedPermissions <- AskedPermissionsC
  RoleRequests = {p1, p2}
  NoRole = NoRole
  Keys = {k1, k2}
  NoKeyGiven = NoKeyGiven
  CsvFiles <- CsvFilesC
  MaxRows = 3
  ImportRequests = {i1}
  MaxJobs = 1
  Gens = {1}
  NoBackup = NoBackup
  Schedules = {daily, odd}
  OddSchedules = {odd}
  DefaultConfig <- DefaultConfigC
  AskedConfigs <- AskedConfigsC
  MaxBackups = 2
  MaxUpdates = 2
  BackupTasks = {t1, t2}
  NotGiven = NotGiven
  NoJob = NoJob
  Members = 3
  PageSize = 2
  PageCaps = {1, 2}
  MaxFetches = 2
  MaxChanges = 1
  Licences = {l1}
  Parts = {partA, partB}
  Kinds <- KindsC
  MaxPrice = 2
  MaxSeats = 1
  PriceRequests = {r1, r2}
  AskedPrices <- AskedPricesC
  AskedParts <- AskedPartsC
  Answers <- AnswersC
  MaxWrites = 4
  CostProviders = {1, 2, 3}
  HrisProviders = {3}
  MaxCost = 1
  MaxMonths = 2
  Creations = {s1, s2}
  MaxCreations = 2
  MaxSpending = 2
  FirstMonth <- FirstMonthC
  MonthlyCosts = {0, 20, 40}
  MaxHistory = 4
  Horizon = 3
  Adjustments <- AdjustmentsC
  MaxAdjustments = 2
  Sliders <- SlidersC
  Contracts <- ContractsC
  NoEnd = NoEnd
  Departments <- DepartmentsC
  ProviderFacts <- ProviderFactsC
  e1 = e1
  e2 = e2
  Memberships <- MembershipsC
  SeatsCost <- SeatsCostC
  Staff = {s}
  NoOne = NoOne
  NoLicence = NoLicence
  Recent = {30, 60, 90}
  Expirables = {"org"}
  Rules = {x1}
  AskedEvents = {"org_license_expired"}
  Senders = {n1, n2}
  Reported = {1}
  HrisIds = {h1, h2}
  ManualIds = {m1}
  MailAddresses = {e1, e2}
  HrisEntries <- HrisEntriesC
  StaffRequests = {w1}
  HrisRun = HrisRun
  Nobody = Nobody
  SyncedProviders = {1}
  TeamMembers = {t1}
  SyncRuns = {s1, s2}
  Removals = {q1}
  NoSeat = NoSeat
INVARIANTS
  BackupsKept
  ComponentsTypeOK
  DeactivatedHoldsNoToken
  FiguresAgree
  ForecastsSound
  ImportsAccount
  NoSilentExpiry
  OneTokenPerSession
  OneTotalPerMonth
  PreviewForetells
  PricesCurrent
  QuietBackupImports
  RepeatsOnlyAfterLostAnswers
  RolesAsAsked
  
  SuccessIsWhole
  SyncedMembersAreStored
  SystemRolesFollow
  TotalAddsUp
PROPERTIES
  HeldRoleStays
  SetupSparesAccounts
  SyncFollowsTheList
CHECK_DEADLOCK FALSE
