---------------------------- MODULE DefectDocument ----------------------------
(***************************************************************************)
(* The content of a defect registry (defects.py): defects with their       *)
(* status, links to findings and artifacts, and one list of events sorted  *)
(* by their second and, within a second, by the hash of their payload.     *)
(*                                                                         *)
(* The hash order is unknown to whoever adds an event, so a new event may  *)
(* land anywhere among the events of its second. Titles, owners, root      *)
(* causes and the runs a defect was seen in are left out.                  *)
(***************************************************************************)
EXTENDS Naturals, Sequences

CONSTANTS
  Defect,    \* defect identities
  Finding,   \* finding identities
  Artifact,  \* artifact identities, which change with the bytes
  Relation,  \* the relations an artifact may have to a defect
  Clock,     \* the seconds a command may record
  Reason,    \* actor and reason of a command
  None

ASSUME DefectAssumption ==
  /\ Clock \subseteq Nat
  /\ Relation \subseteq {"reproducer", "diagnostic", "mitigation", "verification",
                         "resolution_evidence"}
  /\ None \notin Defect

-----------------------------------------------------------------------------
(* Data.                                                                   *)

Status == {"OBSERVED", "REPRODUCED", "CLASSIFIED", "RULE_CANDIDATE", "MITIGATED",
           "VERIFIED", "CLOSED", "REOPENED"}

ASSUME StatusAssumption == None \notin Status

AllowedTransitions ==
  [s \in Status |->
     CASE s = "OBSERVED" -> {"REPRODUCED"}
       [] s = "REPRODUCED" -> {"CLASSIFIED"}
       [] s = "CLASSIFIED" -> {"RULE_CANDIDATE", "MITIGATED"}
       [] s = "RULE_CANDIDATE" -> {"MITIGATED"}
       [] s = "MITIGATED" -> {"VERIFIED"}
       [] s = "VERIFIED" -> {"CLOSED"}
       [] s = "CLOSED" -> {"REOPENED"}
       [] s = "REOPENED" -> {"REPRODUCED"}]

EventType == {"CREATED", "FINDING_LINKED", "ARTIFACT_LINKED", "TRANSITIONED"}

FindingLink == Finding \X Defect
ArtifactLink == Defect \X Artifact \X Relation

(* The subject stands for actor, reason and what was linked. *)
Event == [defect : Defect, type : EventType, from : Status \cup {None}, to : Status \cup {None},
          at : Nat, subject : Finding \cup (Artifact \X Relation) \cup Reason]

(* A defect that does not exist has status None; resolved are the defects  *)
(* with a resolution text.                                                 *)
Registry == [status : [Defect -> Status \cup {None}], resolved : SUBSET Defect,
             findings : SUBSET FindingLink, artifacts : SUBSET ArtifactLink,
             events : Seq(Event)]

(* initialize_defect_registry *)
EmptyRegistry == [status |-> [d \in Defect |-> None], resolved |-> {},
                  findings |-> {}, artifacts |-> {}, events |-> <<>>]

Present(r) == {d \in Defect : r.status[d] # None}

-----------------------------------------------------------------------------
(* The validator.                                                          *)

Moves(events, d) ==
  {i \in DOMAIN events : events[i].defect = d /\ events[i].type \in {"CREATED", "TRANSITIONED"}}

(* The status of a defect after some of its moves. *)
StatusAfter(events, moves) ==
  IF moves = {} THEN None
  ELSE events[CHOOSE i \in moves : \A j \in moves : j <= i].to

StatusBefore(events, i) ==
  StatusAfter(events, {j \in Moves(events, events[i].defect) : j < i})

EventValid(events, i) ==
  LET e == events[i]
      current == StatusBefore(events, i)
  IN  /\ \A j \in DOMAIN events : events[j] = e => i = j
      /\ IF e.type = "CREATED"
           THEN current = None /\ e.from = None /\ e.to = "OBSERVED"
           ELSE current # None
      /\ e.type = "TRANSITIONED" =>
            /\ current = e.from
            /\ e.to \in AllowedTransitions[e.from]

HasResolutionEvidence(r, d) == \E a \in Artifact : <<d, a, "resolution_evidence">> \in r.artifacts

(* validate_registry_data *)
Valid(r) ==
  /\ \A k \in r.findings : k[2] \in Present(r)
  /\ \A k \in r.artifacts : k[1] \in Present(r)
  /\ \A i \in DOMAIN r.events : EventValid(r.events, i)
  /\ \A d \in Defect : r.status[d] = StatusAfter(r.events, Moves(r.events, d))
  /\ \A d \in Defect : r.status[d] = "CLOSED" => d \in r.resolved /\ HasResolutionEvidence(r, d)

-----------------------------------------------------------------------------
(* The commands' computations.                                             *)

Insert(events, i, e) == SubSeq(events, 1, i) \o <<e>> \o SubSeq(events, i + 1, Len(events))

(* A slip that sorts by the hash only. *)
SortedAnywhere(events, e) == {Insert(events, i, e) : i \in 0 .. Len(events)}

(* _sort_registry, on a list that is sorted but for its last element. *)
Sorted(events, e) ==
  {Insert(events, i, e) : i \in
     {k \in 0 .. Len(events) :
        /\ \A j \in 1 .. k : events[j].at <= e.at
        /\ \A j \in k + 1 .. Len(events) : events[j].at >= e.at}}

(* create_defect *)
CreatedEvent(d, t, y) ==
  [defect |-> d, type |-> "CREATED", from |-> None, to |-> "OBSERVED", at |-> t, subject |-> y]

Created(r, d, e) ==
  {[r EXCEPT !.status = [@ EXCEPT ![d] = "OBSERVED"], !.events = s] : s \in Sorted(r.events, e)}

(* link_finding *)
FindingEvent(d, f, t) ==
  [defect |-> d, type |-> "FINDING_LINKED", from |-> None, to |-> None, at |-> t, subject |-> f]

FindingLinked(r, d, f, e) ==
  {[r EXCEPT !.findings = @ \cup {<<f, d>>}, !.events = s] : s \in Sorted(r.events, e)}

(* link_defect_artifact *)
ArtifactEvent(d, a, x, t) ==
  [defect |-> d, type |-> "ARTIFACT_LINKED", from |-> None, to |-> None, at |-> t,
   subject |-> <<a, x>>]

ArtifactLinked(r, d, a, x, e) ==
  {[r EXCEPT !.artifacts = @ \cup {<<d, a, x>>}, !.events = s] : s \in Sorted(r.events, e)}

(* transition_defect *)
CanTransition(r, d, to) ==
  /\ d \in Present(r)
  /\ to \in AllowedTransitions[r.status[d]]
  /\ to = "CLOSED" => HasResolutionEvidence(r, d)

TransitionEvent(r, d, to, t, y) ==
  [defect |-> d, type |-> "TRANSITIONED", from |-> r.status[d], to |-> to, at |-> t, subject |-> y]

Transitioned(r, d, to, e) ==
  {[r EXCEPT !.status = [@ EXCEPT ![d] = to],
             !.resolved = IF to = "CLOSED" THEN @ \cup {d} ELSE @,
             !.events = s] : s \in Sorted(r.events, e)}
=============================================================================
