------------------------- MODULE SourceReconciliation -------------------------
(***************************************************************************)
(* Source reconciliation (trust_reconciliation.py and its authority-aware  *)
(* successor trust_reconciliation_authority.py): whether each case and     *)
(* each outcome of a comparison registry is backed by the source files the *)
(* manifest maps it to.                                                    *)
(*                                                                         *)
(* The manifest maps a case or an outcome to files in a directory of its   *)
(* own; a directory holds the sources it was created with, or is missing.  *)
(* That a source document proves a verdict about a case is the constant    *)
(* Supports. One document gives one authority key.                         *)
(***************************************************************************)
EXTENDS TrustComparison

CONSTANT Supports    \* which authority proves which verdict about which case

ASSUME SupportsAssumption == Supports \subseteq Authority \X Report \X Verdict

Manifest == [cases : SUBSET Report, outcomes : SUBSET Seq(Event)]

EmptyManifest == [cases |-> {}, outcomes |-> {}]

(* Directories of a workspace, each under the directory of its case. *)
CaseDir(c) == <<"case", c>>
OutcomeDir(id) == <<"outcome", id>>
ArchiveDir(k) == <<"archive", k>>

Dir == ({"case"} \X Report) \cup ({"outcome"} \X Seq(Event)) \cup ({"archive"} \X Packet)

OutcomeIds(r) == {EventId(r, i) : i \in {j \in DOMAIN r.events : IsOutcome(r.events[j])}}

(* _validate_manifest_registry_bindings: reconciliation refuses a manifest *)
(* that maps what the registry does not have.                              *)
Bound(r, m) == m.cases \subseteq r.cases /\ m.outcomes \subseteq OutcomeIds(r)

(* _assessment_reconciliation *)
CaseReconciled(m, dirs, c) == c \in m.cases /\ CaseDir(c) \in dirs

(* _outcome_reconciliation: the base status is RECONCILED. *)
BaseReconciled(r, m, dirs, i) ==
  LET e == r.events[i]
  IN  /\ CaseReconciled(m, dirs, e.case)
      /\ EventId(r, i) \in m.outcomes
      /\ OutcomeDir(EventId(r, i)) \in dirs
      /\ <<e.authority, e.case, e.verdict>> \in Supports

(* _apply_duplicate_authority: a document behind two conclusive outcomes   *)
(* reconciles neither.                                                     *)
OutcomeReconciled(r, m, dirs, i) ==
  /\ BaseReconciled(r, m, dirs, i)
  /\ IsConclusive(r.events[i]) =>
        \A j \in DOMAIN r.events \ {i} :
          ~ (/\ IsConclusive(r.events[j])
             /\ r.events[j].authority = r.events[i].authority
             /\ BaseReconciled(r, m, dirs, j))

(* _summary: source_reconciliation_complete *)
Complete(r, m, dirs) ==
  /\ \A c \in r.cases : CaseReconciled(m, dirs, c)
  /\ \A i \in DOMAIN r.events :
        IsConclusive(r.events[i]) => OutcomeReconciled(r, m, dirs, i)
=============================================================================
