------------------------- MODULE MCProspectiveCampaign -------------------------
(* Small instances of ProspectiveCampaign: two reports on one task, a third  *)
(* on another, an evaluation that proves one case safe and an audit that   *)
(* finds it unsafe, by a person who may also review.                       *)
EXTENDS ProspectiveCampaign, TLC, Functions

CONSTANTS first, second, third, packet, later, evaluation, audit, alice, bob

MCTaskOf == (first :> "task1") @@ (second :> "task1") @@ (third :> "task2")
MCCaseOf == Restrict((packet :> first) @@ (later :> first), Packet)
MCIssuerOf == Restrict((evaluation :> None) @@ (audit :> alice), Authority)
MCSupports ==
  {<<evaluation, first, "SAFE">>, <<evaluation, third, "SAFE">>, <<audit, first, "UNSAFE">>}
    \cap (Authority \X Report \X Verdict)

OperatorSymmetry == Permutations(Operator)
=============================================================================
