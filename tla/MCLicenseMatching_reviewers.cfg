SPECIFICATION Spec
CONSTANTS
    Licenses = {l1}
    Employees = {e1}
    Requests = {r1, r2}
    None = None
    Keep = Keep
SYMMETRY EmployeesAndRequests
INVARIANTS
    ReviewedStatus
PROPERTIES
    SuggestionsNameEmployee
    DecisionsStand
