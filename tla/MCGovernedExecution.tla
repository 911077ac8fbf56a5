------------------------- MODULE MCGovernedExecution -------------------------
(* One bound pull request, and evidence with one item missing. *)
EXTENDS GovernedExecution

MCDossiers == {Evidence, Evidence \ {"rollback"}, {}}
=============================================================================
