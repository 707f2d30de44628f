SPECIFICATION Spec
CONSTANTS
    dash = dash
    list = list
    report = report
    Keys = {dash, list}
    PrefixOf <- MCPrefixOf
    Requests = {r1, r2}
    Ttl = 2
    ReportTtl = 2
    MaxChanges = 2
    NoKey = NoKey
    NoEntry = NoEntry
INVARIANTS
    TypeOK
    ApplyDropsOlder
PROPERTIES
    EventuallyFresh
