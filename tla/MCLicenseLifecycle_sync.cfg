SPECIFICATION Spec
CONSTANTS
    Synced = {l1}
    Manual = {}
    Packages = {}
    OrgLicenses = {}
    Requests = {r1}
    Syncs = {s1}
    ExpirationJob = job
    ProviderStatuses = {"active", "inactive"}
    MaxDay = 1
    Faults = FALSE
    NoDate = NoDate
    Keep = Keep
    Absent = Absent
    Deleted = Deleted
PROPERTIES
    ExpiresWithDate
    CancellationMarked
    ExpiryMarked
    CancelTakesEffect
