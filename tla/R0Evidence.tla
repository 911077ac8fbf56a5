------------------------------ MODULE R0Evidence ------------------------------
(***************************************************************************)
(* What a set of evidence files amounts to: the reconciliation of outcomes *)
(* with their sources (trust_reconciliation_authority.py and               *)
(* trust_reconciliation_verified.py), the observation of the R0 band       *)
(* against its thresholds (trust_observation.py), the status of the        *)
(* campaign (trust_prospective_projection.py) and the pilot safety review  *)
(* (trust_pilot_review.py). All of them are functions of the files.        *)
(*                                                                         *)
(* Captured cases are taken as reconciled: their sources are in place (see *)
(* ProspectiveCampaign). The evidence span and the reviewer alignment are  *)
(* left out. Audits name evidence. A source that is not an audit is what    *)
(* an authority key names: a defect, or what an evaluation says of a case. *)
(***************************************************************************)
EXTENDS TrustComparison, FiniteSets

INSTANCE AuditAuthority

CONSTANTS
  R0,          \* the cases whose predicted band is R0
  CapturedAt,  \* when each case was captured
  Artifact,    \* what each audit says: its case, verdict, grant and time
  Proves,      \* what the other sources prove: source, case, verdict
  Minimum      \* the thresholds of the observation policy

Audit == {s \in Authority : IssuerOf[s] # None}

ASSUME EvidenceAssumption ==
  /\ Time \subseteq Nat /\ None \notin Time
  /\ R0 \subseteq Report
  /\ CapturedAt \in [Report -> Time]
  /\ Artifact \in [Audit -> [case : Report, verdict : Verdict, grant : Grant, at : Time]]
  /\ \A s \in Audit : IssuerOf[s] = Artifact[s].grant.issuer
  /\ Proves \subseteq Authority \X Report \X Verdict
  /\ Minimum \in [{"cases", "reviewed", "conclusive", "safe", "unsafe", "audited", "coverage"}
                  -> Nat \ {0}]
  /\ Minimum.coverage <= 100

(* The files: the comparison registry, the outcomes the manifest maps, and *)
(* the audit authority registry kept beside each outcome's source.         *)
Mapped(files, i) == EventId(files.registry, i) \in files.manifest

Outcomes(files) == {i \in DOMAIN files.registry.events : IsOutcome(files.registry.events[i])}

Conclusives(files) == {i \in Outcomes(files) : IsConclusive(files.registry.events[i])}

(* issue_audit_data, _validate_issuance_time *)
CanIssue(registry, auth, s) ==
  /\ Artifact[s].case \in registry.cases
  /\ Artifact[s].at >= CapturedAt[Artifact[s].case]
  /\ Binds(auth, Artifact[s].grant, Artifact[s].at)

-----------------------------------------------------------------------------
(* Reconciliation of one outcome.                                          *)

ProvenanceSaysWho(e, kept) ==
  /\ e.actor = IssuerOf[e.authority]
  /\ Artifact[e.authority].at <= e.at
  /\ Artifact[e.authority].at >= CapturedAt[e.case]

(* _audit_outcome, _audit_outcome_with_assessment_time: all that makes the *)
(* provenance of an audit verified, once its case and verdict agree.       *)
ProvenanceHolds(e, kept) ==
  /\ e.actor = IssuerOf[e.authority]
  /\ Artifact[e.authority].at <= e.at
  /\ Artifact[e.authority].at >= CapturedAt[e.case]
  /\ Binds(kept, Artifact[e.authority].grant, Artifact[e.authority].at)

(* _audit_status *)
AuditStatus(files, i) ==
  LET e == files.registry.events[i]
      id == EventId(files.registry, i)
  IN  IF ~ Mapped(files, i) THEN "PROVENANCE_UNVERIFIED"
      ELSE IF id \notin DOMAIN files.sources THEN "SOURCE_MISSING"
      ELSE IF Artifact[e.authority].case # e.case THEN "OUTCOME_REFERENCE_MISMATCH"
      ELSE IF Artifact[e.authority].verdict # e.verdict THEN "OUTCOME_VERDICT_MISMATCH"
      ELSE IF ProvenanceHolds(e, files.sources[id]) THEN "RECONCILED"
      ELSE "PROVENANCE_UNVERIFIED"

(* _evaluation_outcome, _defect_outcome *)
SourceStatus(files, i) ==
  LET e == files.registry.events[i]
  IN  IF ~ Mapped(files, i) \/ EventId(files.registry, i) \notin DOMAIN files.sources
      THEN "SOURCE_MISSING"
      ELSE IF <<e.authority, e.case, e.verdict>> \in Proves THEN "RECONCILED"
      ELSE "INSUFFICIENT_EVIDENCE"

(* _outcome_reconciliation *)
BaseStatus(files, i) ==
  IF files.registry.events[i].authority \in Audit
  THEN AuditStatus(files, i) ELSE SourceStatus(files, i)

(* _apply_duplicate_authority *)
Reconciled(files, i) ==
  /\ BaseStatus(files, i) = "RECONCILED"
  /\ i \in Conclusives(files) =>
       \A j \in Conclusives(files) \ {i} :
         files.registry.events[j].authority = files.registry.events[i].authority
         => BaseStatus(files, j) # "RECONCILED"

(* _summary *)
SourcesComplete(files) == \A i \in Conclusives(files) : Reconciled(files, i)

(* _validate_manifest_registry_bindings *)
ManifestBound(files) ==
  files.manifest \subseteq {EventId(files.registry, i) : i \in Outcomes(files)}

(* What the first verifier of reconciliation reports, which knew two        *)
(* statuses of audits, accepts (trust_reconciliation.py).                  *)
LegacyVerifies(files) ==
  \A i \in Outcomes(files) :
    files.registry.events[i].authority \in Audit
    => BaseStatus(files, i) \in {"RECONCILED", "PROVENANCE_UNVERIFIED"}

-----------------------------------------------------------------------------
(* The observation of the R0 band.                                         *)

Band(files) == R0 \cap files.registry.cases

CasesOf(files, positions) == {files.registry.events[i].case : i \in positions}

Reviews(files) ==
  {i \in DOMAIN files.registry.events : files.registry.events[i].type = "HUMAN_DECISION"}

WithVerdict(files, v) == {i \in Outcomes(files) : files.registry.events[i].verdict = v}

Audits(files) == {i \in Conclusives(files) : files.registry.events[i].authority \in Audit}

(* _observation *)
Observation(files) ==
  [cases |-> Cardinality(Band(files)),
   reviewed |-> Cardinality(R0 \cap CasesOf(files, Reviews(files))),
   conclusive |-> Cardinality(R0 \cap CasesOf(files, Conclusives(files))),
   safe |-> Cardinality(R0 \cap CasesOf(files, WithVerdict(files, "SAFE"))),
   unsafe |-> Cardinality(CasesOf(files, WithVerdict(files, "UNSAFE"))),
   audited |-> Cardinality(R0 \cap CasesOf(files, Audits(files))),
   missed |-> Cardinality(R0 \cap CasesOf(files, WithVerdict(files, "UNSAFE")))]

(* _checks: a ratio over nothing passes no check. *)
MinimaMet(o) ==
  /\ o.cases >= Minimum.cases
  /\ o.reviewed >= Minimum.reviewed
  /\ o.conclusive >= Minimum.conclusive
  /\ o.safe >= Minimum.safe
  /\ o.unsafe >= Minimum.unsafe
  /\ o.audited >= Minimum.audited
  /\ o.cases > 0 /\ 100 * o.conclusive >= Minimum.coverage * o.cases

MaximaMet(o) == o.missed = 0 /\ o.unsafe > 0

(* _decision *)
ObservationStatus(o) ==
  IF o.missed > 0 THEN "THRESHOLD_BLOCKED"
  ELSE IF MinimaMet(o) /\ MaximaMet(o) THEN "THRESHOLDS_SATISFIED"
  ELSE "INSUFFICIENT_EVIDENCE"

StatusByThresholds(files) ==
  IF ObservationStatus(Observation(files)) = "THRESHOLD_BLOCKED" THEN "BLOCKED_SAFETY_SIGNAL"
  ELSE IF ObservationStatus(Observation(files)) = "THRESHOLDS_SATISFIED" THEN "READY"
  ELSE IF ~ SourcesComplete(files) THEN "BLOCKED_SOURCE_RECONCILIATION"
  ELSE "COLLECTING_EVIDENCE"

(* _campaign_status *)
CampaignStatus(files) ==
  IF ~ SourcesComplete(files) THEN "BLOCKED_SOURCE_RECONCILIATION"
  ELSE IF ObservationStatus(Observation(files)) = "THRESHOLD_BLOCKED" THEN "BLOCKED_SAFETY_SIGNAL"
  ELSE IF ObservationStatus(Observation(files)) = "THRESHOLDS_SATISFIED" THEN "READY"
  ELSE "COLLECTING_EVIDENCE"

-----------------------------------------------------------------------------
(* The pilot safety review.                                                *)

(* _r0_independent_audit_ids, _reconciliation_projection: cases with an     *)
(* audit outcome, those of them with a reconciled one.                     *)
VerifiedAudits(files) ==
  R0 \cap CasesOf(files, {i \in Audits(files) : Reconciled(files, i)})

(* _checks, _decision: no check of the review fails. The reports are those *)
(* of the same files, so identities match and replays agree.               *)
Eligible(files) ==
  LET o == Observation(files)
  IN  /\ SourcesComplete(files)
      /\ ObservationStatus(o) = "THRESHOLDS_SATISFIED"
      /\ o.missed = 0
      /\ o.unsafe > 0
      /\ Cardinality(VerifiedAudits(files)) >= Minimum.audited
=============================================================================
