SPECIFICATION Spec
CONSTANTS
    Licenses = {l1}
    Employees = {e1, e2}
    Requests = {r1}
    None = None
    Keep = Keep
SYMMETRY EmployeesAndRequests
INVARIANTS
    TypeOK
PROPERTIES
    BetterSuggestionsOnly
    AssignmentHasEvidence
