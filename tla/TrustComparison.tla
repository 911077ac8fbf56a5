---------------------------- MODULE TrustComparison ----------------------------
(***************************************************************************)
(* The Trust comparison registry (trust_comparison.py): assessments        *)
(* captured from Trust reports and a hash chain of human decisions and     *)
(* outcomes about them, what the verifier accepts, and the three pure      *)
(* transformations that capture, decide and record an outcome.             *)
(*                                                                         *)
(* An assessment identity is a function of its Trust report, so a case is  *)
(* named by its report. An event identity hashes the event and the hash of *)
(* the one before it, so an event is named by the history that ends in it. *)
(* Clocks that satisfy the timestamp checks are assumed; risk bands,       *)
(* review levels above WORKFLOW_ACCEPTED and the metrics are left out.     *)
(***************************************************************************)
EXTENDS Naturals, Sequences

CONSTANTS
  Report,      \* Trust reports, and the cases captured from them
  TaskOf,      \* the task and source revision each report is about
  Packet,      \* review packets
  CaseOf,      \* the case each packet was prepared for
  Authority,   \* outcome sources: evaluations, audits, defect registries
  IssuerOf,    \* the issuer of an audit; None for another kind of source
  Actor,       \* people who decide, audit and record
  Time,        \* timestamps of events
  None

Conclusive == {"SAFE", "UNSAFE"}

Verdict == Conclusive \cup {"INCONCLUSIVE"}

ASSUME ComparisonAssumption ==
  /\ None \notin Report \cup Packet \cup Authority \cup Actor \cup Verdict
  /\ CaseOf \in [Packet -> Report]
  /\ IssuerOf \in [Authority -> Actor \cup {None}]

Event == [type : {"HUMAN_DECISION", "OUTCOME"}, case : Report, actor : Actor, at : Time,
          packet : Packet \cup {None}, verdict : Verdict \cup {None},
          authority : Authority \cup {None}]

Registry == [cases : SUBSET Report, events : Seq(Event)]

EmptyRegistry == [cases |-> {}, events |-> <<>>]

(* _event_id: the history that ends in the i-th event. *)
EventId(r, i) == SubSeq(r.events, 1, i)

IsOutcome(e) == e.type = "OUTCOME"

IsConclusive(e) == e.type = "OUTCOME" /\ e.verdict \in Conclusive

IsAudit(e) == IsConclusive(e) /\ IssuerOf[e.authority] # None

-----------------------------------------------------------------------------
(* verify_registry_data, for a registry whose hashes are intact: events are *)
(* about captured cases, no case has two conclusive verdicts, and no audit *)
(* is by somebody who reviewed the case before it.                         *)
VerifyRegistry(r) ==
  \A i \in DOMAIN r.events :
    /\ r.events[i].case \in r.cases
    /\ \A j \in 1 .. i - 1 : r.events[j].case = r.events[i].case =>
          /\ IsConclusive(r.events[i]) /\ IsConclusive(r.events[j])
             => r.events[i].verdict = r.events[j].verdict
          /\ IsAudit(r.events[i]) /\ r.events[j].type = "HUMAN_DECISION"
             => r.events[i].actor # r.events[j].actor

-----------------------------------------------------------------------------
(* The transformations.                                                    *)

(* capture_assessment *)
Captured(r, c) == [cases |-> r.cases \cup {c}, events |-> r.events]

(* _append_event *)
Appended(r, e) == [cases |-> r.cases, events |-> Append(r.events, e)]

(* record_decision, called for a review packet *)
Decision(k, a, t) ==
  [type |-> "HUMAN_DECISION", case |-> CaseOf[k], actor |-> a, at |-> t,
   packet |-> k, verdict |-> None, authority |-> None]

CanDecide(r, e) == e.case \in r.cases

(* record_outcome *)
Outcome(c, s, v, a, t) ==
  [type |-> "OUTCOME", case |-> c, actor |-> a, at |-> t,
   packet |-> None, verdict |-> v, authority |-> s]

CanRecordOutcome(r, e) ==
  /\ e.case \in r.cases
  /\ IsConclusive(e) =>
        \A i \in DOMAIN r.events :
          r.events[i].case = e.case /\ IsConclusive(r.events[i])
          => r.events[i].verdict = e.verdict
  /\ IsAudit(e) =>
        \A i \in DOMAIN r.events :
          r.events[i].case = e.case /\ r.events[i].type = "HUMAN_DECISION"
          => r.events[i].actor # e.actor
=============================================================================
