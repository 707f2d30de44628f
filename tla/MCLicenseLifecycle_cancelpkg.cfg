SPECIFICATION Spec
CONSTANTS
    Synced = {}
    Manual = {}
    Packages = {p1}
    OrgLicenses = {}
    Requests = {r1}
    Syncs = {}
    ExpirationJob = job
    ProviderStatuses = {"active"}
    MaxDay = 1
    Faults = FALSE
    NoDate = NoDate
    Keep = Keep
    Absent = Absent
    Deleted = Deleted
PROPERTIES
    PackageCancelTakesEffect
