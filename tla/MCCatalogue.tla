----------------------------- MODULE MCCatalogue -----------------------------
(* One upstream commodity whose price is 10 or 20, the periodic sync and one *)
(* started by an admin, who edits the catalogue as well.                     *)
EXTENDS CatalogueSync
CONSTANTS x, timer, pool
MCItem == {x}
MCPool == {pool}
MCCost == {10, 20}
MCForms == {[sale |-> 15, cost |-> 20, status |-> 0]}
MCSteps == {[kind |-> "fixed", op |-> "-", amount |-> 5],
            [kind |-> "percent", op |-> "+", amount |-> 50]}
=============================================================================
