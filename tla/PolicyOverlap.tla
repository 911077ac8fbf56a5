----------------------------- MODULE PolicyOverlap -----------------------------
(***************************************************************************)
(* The Policy Registry with a history variable that tells whether two      *)
(* commands have ever been under way together. Nothing locks the registry: *)
(* what it promises to one operator at a time is stated for the behaviours *)
(* where none have, failures, rollbacks and crashes included.              *)
(***************************************************************************)
EXTENDS PolicyRegistry

VARIABLE overlapped   \* history: two commands have been under way together

Overlapping == \E o, p \in Operator : o # p /\ pc[o] # "idle" /\ pc[p] # "idle"

OverlapInit == Init /\ overlapped = FALSE

OverlapNext == Next /\ overlapped' = (overlapped \/ Overlapping')

OverlapSpec == OverlapInit /\ [][OverlapNext]_<<vars, overlapped>>

-----------------------------------------------------------------------------
(* One operator at a time, ReportedEventsStay of PolicyRegistry: no error, *)
(* rollback or crash takes back an event whose command reported success.   *)
AloneReportedEventsStay == ~overlapped => ReportedEventsStay

(* One operator at a time, OnlyActivatedRulesInForce of PolicyRegistry: at *)
(* no point of a command, failed or interrupted, does the rule file hold   *)
(* rules that the registry does not record as activated.                   *)
AloneOnlyActivatedRulesInForce == ~overlapped => OnlyActivatedRulesInForce

(* One operator at a time, LifecycleSpec of PolicyRegistry: the registry   *)
(* and the rule file make one lifecycle step at a time, together.          *)
AloneLifecycleSpec ==
  Lifecycle!Init /\ [][~overlapped' => (Lifecycle!Next \/ UNCHANGED Lifecycle!vars)]_<<vars, overlapped>>
=============================================================================
