SPECIFICATION Spec
CONSTANTS
    Synced = {}
    Manual = {m1}
    Packages = {}
    OrgLicenses = {}
    Requests = {r1, r2}
    Syncs = {}
    ExpirationJob = job
    ProviderStatuses = {"active", "inactive"}
    MaxDay = 1
    Faults = FALSE
    NoDate = NoDate
    Keep = Keep
    Absent = Absent
    Deleted = Deleted
PROPERTIES
    CancelLeavesDate
