---------------------------- MODULE PolicyDocument ----------------------------
(***************************************************************************)
(* The content of a Policy Registry file (policy_registry.py): policies    *)
(* with their lifecycle events, what the verifier accepts, and the three   *)
(* pure transformations that build, approve and retire a policy.           *)
(*                                                                         *)
(* A policy identity is the hash of its project, version, parent, rule set *)
(* and evaluation, so version and parent are functions of the identity.    *)
(* Approval, effective date and retirement records repeat an event's actor *)
(* and time and the verifier re-derives them from it: only the event is    *)
(* kept here. Timestamps are naturals; the code compares UTC strings.      *)
(***************************************************************************)
EXTENDS Naturals, Sequences

CONSTANTS
  Policy,      \* policy identities
  VersionOf,   \* the semantic version of each, in its total order
  ParentOf,    \* the parent of each, or None
  Evaluated,   \* the policies whose evaluation report passed on their rules
  Time,        \* timestamps an operator may pass or the clock may give
  None         \* no policy, no file, no write

ASSUME PolicyAssumption ==
  /\ None \notin Policy
  /\ VersionOf \in [Policy -> Nat]
  /\ ParentOf \in [Policy -> Policy \cup {None}]
  /\ Evaluated \subseteq Policy
  /\ Time \subseteq Nat

-----------------------------------------------------------------------------
(* Data.                                                                   *)

EventType == {"BUILT", "APPROVED", "ACTIVATED", "SUPERSEDED", "RETIRED"}

Event == [type : EventType, at : Time, successor : Policy \cup {None}]

Status == {"ABSENT", "DRAFT", "ACTIVE", "SUPERSEDED", "RETIRED"}

Entry == [status : Status, events : Seq(Event), supersededBy : Policy \cup {None}]

Registry == [active : Policy \cup {None}, policies : [Policy -> Entry]]

AbsentEntry == [status |-> "ABSENT", events |-> <<>>, supersededBy |-> None]

(* _empty_registry *)
EmptyRegistry == [active |-> None, policies |-> [p \in Policy |-> AbsentEntry]]

Present(r) == {p \in Policy : r.policies[p].status # "ABSENT"}

HasBeenActive(e) == e.status \in {"ACTIVE", "SUPERSEDED", "RETIRED"}

LastEvent(e) == e.events[Len(e.events)]

-----------------------------------------------------------------------------
(* The verifier.                                                           *)

(* The event that may follow another; the code projects the status event   *)
(* by event, and every event decides the projection on its own.            *)
MayFollow(previous, next) ==
  \/ previous = "BUILT" /\ next = "APPROVED"
  \/ previous = "APPROVED" /\ next = "ACTIVATED"
  \/ previous = "ACTIVATED" /\ next = "SUPERSEDED"
  \/ previous \in {"ACTIVATED", "SUPERSEDED"} /\ next = "RETIRED"

(* The status a history projects to, by its last event. A history that     *)
(* ends in APPROVED is an incomplete approval and has none.                *)
ProjectsTo(last, status) ==
  \/ last = "BUILT" /\ status = "DRAFT"
  \/ last = "ACTIVATED" /\ status = "ACTIVE"
  \/ last = "SUPERSEDED" /\ status = "SUPERSEDED"
  \/ last = "RETIRED" /\ status = "RETIRED"

HistoryVerified(events) ==
  /\ Len(events) > 0
  /\ events[1].type = "BUILT"
  /\ \A i \in 2 .. Len(events) :
        /\ MayFollow(events[i - 1].type, events[i].type)
        /\ events[i - 1].at <= events[i].at

EntryVerified(e) ==
  /\ HistoryVerified(e.events)
  /\ ProjectsTo(LastEvent(e).type, e.status)
  /\ e.status = "DRAFT" => e.supersededBy = None
  /\ e.status = "SUPERSEDED" =>
        /\ e.supersededBy # None
        /\ LastEvent(e).successor = e.supersededBy

ActiveVerified(r) ==
  LET actives == {p \in Present(r) : r.policies[p].status = "ACTIVE"}
  IN  actives = IF r.active = None THEN {} ELSE {r.active}

(* Parents exist and have smaller versions; a successor is a child. The    *)
(* cycle search follows parent pointers; no set of policies may be closed  *)
(* under them.                                                             *)
LineageVerified(r) ==
  /\ \A p \in Present(r) : ParentOf[p] # None =>
        /\ ParentOf[p] \in Present(r)
        /\ VersionOf[p] > VersionOf[ParentOf[p]]
  /\ \A p \in Present(r) : r.policies[p].supersededBy # None =>
        /\ r.policies[p].supersededBy \in Present(r)
        /\ ParentOf[r.policies[p].supersededBy] = p
  /\ \A S \in SUBSET Present(r) : S # {} => ~ ({ParentOf[p] : p \in S} \subseteq S)

(* verify_policy_registry_data *)
VerifyRegistry(r) ==
  /\ Present(r) \subseteq Evaluated
  /\ \A p, q \in Present(r) : VersionOf[p] = VersionOf[q] => p = q
  /\ \A p \in Present(r) : EntryVerified(r.policies[p])
  /\ ActiveVerified(r)
  /\ LineageVerified(r)

-----------------------------------------------------------------------------
(* The transformations.                                                    *)

(* The event _append_event adds; the guards carry its timestamp check.     *)
NewEvent(type, t, successor) == [type |-> type, at |-> t, successor |-> successor]

(* build_policy, up to the write. *)
CanBuild(r, p) ==
  /\ p \notin Present(r)
  /\ ParentOf[p] # None =>
        /\ ParentOf[p] \in Present(r)
        /\ VersionOf[p] > VersionOf[ParentOf[p]]
  /\ \A q \in Present(r) : VersionOf[q] # VersionOf[p]
  /\ p \in Evaluated

Drafted(t) ==
  [status |-> "DRAFT", events |-> <<NewEvent("BUILT", t, None)>>, supersededBy |-> None]

Build(r, p, t) == [r EXCEPT !.policies = [@ EXCEPT ![p] = Drafted(t)]]

(* A slip that forgets the root check when nothing is active. *)
CanApproveAnyWhenInactive(r, p, t) ==
  /\ r.policies[p].status = "DRAFT"
  /\ t >= LastEvent(r.policies[p]).at
  /\ r.active # None =>
        /\ ParentOf[p] = r.active
        /\ t >= LastEvent(r.policies[r.active]).at

(* approve_policy, up to the write. With no active policy only a root may  *)
(* be activated, else only a child of the active one.                      *)
CanApprove(r, p, t) ==
  /\ r.policies[p].status = "DRAFT"
  /\ t >= LastEvent(r.policies[p]).at
  /\ ParentOf[p] = r.active
  /\ r.active # None => t >= LastEvent(r.policies[r.active]).at

Superseded(e, p, t) ==
  [status       |-> "SUPERSEDED",
   events       |-> Append(e.events, NewEvent("SUPERSEDED", t, p)),
   supersededBy |-> p]

Activated(e, t) ==
  [status       |-> "ACTIVE",
   events       |-> Append(Append(e.events, NewEvent("APPROVED", t, None)),
                           NewEvent("ACTIVATED", t, None)),
   supersededBy |-> e.supersededBy]

Approve(r, p, t) ==
  [active   |-> p,
   policies |-> [q \in Policy |->
                   IF q = p THEN Activated(r.policies[q], t)
                   ELSE IF q = r.active THEN Superseded(r.policies[q], p, t)
                   ELSE r.policies[q]]]

(* retire_policy, up to the write. *)
CanRetire(r, p, t) ==
  /\ r.policies[p].status \in {"ACTIVE", "SUPERSEDED"}
  /\ t >= LastEvent(r.policies[p]).at

Retired(e, t) ==
  [status       |-> "RETIRED",
   events       |-> Append(e.events, NewEvent("RETIRED", t, None)),
   supersededBy |-> e.supersededBy]

Retire(r, p, t) ==
  [active   |-> IF r.active = p THEN None ELSE r.active,
   policies |-> [r.policies EXCEPT ![p] = Retired(@, t)]]
=============================================================================
