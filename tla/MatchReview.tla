----------------------------- MODULE MatchReview -----------------------------
(***************************************************************************)
(* What the review of licence-to-employee matches promises, without the    *)
(* transactions that implement it: an administrator's decision about a     *)
(* licence changes only by another decision; the automatic matching never  *)
(* replaces it.  It is withdrawn only where the licence becomes, or is, a  *)
(* service account, and it ends with the licence.                          *)
(***************************************************************************)
CONSTANT Licenses

VARIABLES
    decision,   \* [Licenses -> a decision, "open", or "unknown" (no such row)]
    service     \* the licences flagged as service accounts

Decisions == {"confirmed", "rejected", "external_guest"}

Known == {l \in Licenses : decision[l] # "unknown"}

Init ==
    /\ decision = [l \in Licenses |-> "unknown"]
    /\ service = {}

Decide(l, d) ==
    /\ l \in Known
    /\ decision' = [decision EXCEPT ![l] = d]
    /\ UNCHANGED service

\* Licences are entered, some become service accounts, and decisions about service
\* accounts may be withdrawn: a sync does all of it at once.
Refresh(entered, flagged, withdrawn) ==
    /\ entered \cap Known = {}
    /\ flagged \subseteq Known \cup entered
    /\ withdrawn \subseteq Known \cap (service \cup flagged)
    /\ decision' = [l \in Licenses |->
                       IF l \in entered \cup withdrawn THEN "open" ELSE decision[l]]
    /\ service' = service \cup flagged

Unflag(l) ==
    /\ service' = service \ {l}
    /\ UNCHANGED decision

Remove(removed) ==
    /\ decision' = [l \in Licenses |-> IF l \in removed THEN "unknown" ELSE decision[l]]
    /\ service' = service \ removed

Next ==
    \/ \E l \in Licenses, d \in Decisions : Decide(l, d)
    \/ \E entered, flagged, withdrawn \in SUBSET Licenses :
          Refresh(entered, flagged, withdrawn)
    \/ \E l \in Licenses : Unflag(l)
    \/ \E removed \in SUBSET Licenses : Remove(removed)

Spec == Init /\ [][Next]_<<decision, service>>

=============================================================================
