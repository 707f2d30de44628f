SPECIFICATION Spec
CONSTANTS
    Synced = {}
    Manual = {m1}
    Packages = {p1}
    OrgLicenses = {}
    Requests = {r1, r2}
    Syncs = {}
    ExpirationJob = job
    ProviderStatuses = {"active"}
    MaxDay = 1
    Faults = TRUE
    NoDate = NoDate
    Keep = Keep
    Absent = Absent
    Deleted = Deleted
ACTION_CONSTRAINT OneRow
INVARIANTS
    TypeOK
    CancellationPaired
PROPERTIES
    OnlyRenewalRevives
