------------------------ MODULE MCLicenseLifecycle ------------------------
(* Model-checking instances of LicenseLifecycle: the kinds of rows and the   *)
(* number of overlapping transactions are chosen in the configurations.      *)
EXTENDS LicenseLifecycle

(* Bound for safety: a behaviour creates one row, of any kind. A request       *)
(* writes one row, the job computes the patch of a row from that row alone,    *)
(* and what is asserted relates each row to itself. What one row waits for     *)
(* because of another is left to the proofs.                                   *)
OneRow == \A i, j \in Items : row'[i] # Absent /\ row'[j] # Absent => i = j
=============================================================================
