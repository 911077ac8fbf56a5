---------------------------- MODULE MCRuleApproval ----------------------------
(* Two approvers and one editor of the candidate file. *)
EXTENDS RuleApproval, TLC

Symmetry == Permutations(Rule) \cup Permutations(Approver)
=============================================================================
