----------------------------- MODULE MCDashboard -----------------------------
(* Small instances: what the user and others may do on which pages. *)
EXTENDS Dashboard

CONSTANTS r1, r2, v1, v2, yousa, other

Scenario(pages, most, acts, visits, others, failures) ==
    [pages |-> pages, jobs |-> most, acts |-> acts, visits |-> visits, others |-> others,
     failures |-> failures, menu |-> IF "settings" \in pages THEN 1 ELSE 0]

(* Two actions on each page that changes something; one, with something done   *)
(* elsewhere or a failure; one, on a page that is left and opened again; the   *)
(* pages that only read.                                                       *)
Scenarios ==
    {Scenario({p}, 2, 2, 0, 0, 0) : p \in {"models", "biliwatch"}}
    \union {Scenario({p}, 3, 2, 0, 0, 0) : p \in {"scheduled-tasks", "knowledge"}}
    \union {Scenario({p}, 2, 1, 0, 0, 1) : p \in {"models", "knowledge"}}
    \union {Scenario({p}, 2, 1, 0, 1, 1) : p \in {"biliwatch", "scheduled-tasks"}}
    \union {Scenario({p, "tools"}, 2, 1, 2, 0, 0) : p \in {"models", "biliwatch", "scheduled-tasks"}}
    \union {Scenario({"models"}, 2, 1, 0, 1, 0),
            Scenario({"knowledge", "tools"}, 2, 1, 1, 0, 0),
            Scenario({"overview", "models"}, 2, 1, 1, 0, 0),
            Scenario({"overview", "settings"}, 2, 1, 2, 0, 1),
            Scenario({"logs"}, 3, 1, 0, 2, 1), Scenario({"logs", "tools"}, 2, 0, 1, 0, 0)}

(* Two actions on the knowledge page. *)
Wandering == {Scenario({"knowledge"}, 2, 2, 0, 0, 0)}
==============================================================================
