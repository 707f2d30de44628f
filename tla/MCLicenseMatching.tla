------------------------- MODULE MCLicenseMatching -------------------------
(* Model-checking instances of LicenseMatching. Employees and requests are   *)
(* interchangeable: no operator tells them apart.                            *)
EXTENDS LicenseMatching, TLC

EmployeesAndRequests == Permutations(Employees) \cup Permutations(Requests)
=============================================================================
