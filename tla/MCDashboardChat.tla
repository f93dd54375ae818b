--------------------------- MODULE MCDashboardChat ---------------------------
(* Small instances: how much the user does on how many views of the chat page. *)
EXTENDS DashboardChat

Scenario(acts, opened, odd) == [acts |-> acts, views |-> opened, troubles |-> odd]

(* Four actions on one view; three on one, two of whose calls fail or are        *)
(* answered aside (approval is asked, then the call is settled); two on a page   *)
(* that is left or reloaded, with one such call.                                 *)
Scenarios == {Scenario(4, 1, 0), Scenario(3, 1, 2), Scenario(2, 2, 1)}
==============================================================================
