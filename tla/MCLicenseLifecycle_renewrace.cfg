SPECIFICATION Spec
CONSTANTS
    Synced = {}
    Manual = {}
    Packages = {}
    OrgLicenses = {o1}
    Requests = {r1}
    Syncs = {}
    ExpirationJob = job
    ProviderStatuses = {"active"}
    MaxDay = 1
    Faults = FALSE
    NoDate = NoDate
    Keep = Keep
    Absent = Absent
    Deleted = Deleted
PROPERTIES
    RenewalRestores
