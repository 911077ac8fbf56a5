---------------------------- MODULE CampaignOverlap ----------------------------
(***************************************************************************)
(* The campaign workspace with a history variable that tells whether two   *)
(* commands have ever been under way together. Nothing locks the files:    *)
(* what the workspace promises to one process at a time is stated for the  *)
(* behaviours where none have, failures, rollbacks and crashes included.   *)
(***************************************************************************)
EXTENDS ProspectiveCampaign

VARIABLE overlapped   \* history: two commands have been under way together

Overlapping == \E o, p \in Operator : o # p /\ pc[o] # "idle" /\ pc[p] # "idle"

OverlapInit == Init /\ overlapped = FALSE

OverlapNext == Next /\ overlapped' = (overlapped \/ Overlapping')

OverlapSpec == OverlapInit /\ [][OverlapNext]_<<vars, overlapped>>

-----------------------------------------------------------------------------
(* One process at a time, WholeOrNothing of ProspectiveCampaign: a command *)
(* that is over has left everything it recorded in place or nothing,       *)
(* whatever step of it failed.                                             *)
AloneWholeOrNothing == ~overlapped => WholeOrNothing

(* One process at a time, ReportedStays and EvidenceStays: no error,       *)
(* rollback or crash takes back what was reported or the evidence behind   *)
(* what is mapped or decided.                                              *)
AloneReportedStays == ~overlapped => ReportedStays /\ EvidenceStays
=============================================================================
