--------------------------- MODULE MCDashboardCache ---------------------------
(* Model-checking instances of DashboardCache. *)
EXTENDS DashboardCache

CONSTANTS dash, list, report

MCPrefixOf == [k \in Keys |-> CASE k = dash -> "dashboard"
                                [] k = list -> "providers"
                                [] OTHER    -> "reports"]
===============================================================================
