--------------------------- MODULE EvidencePackages ---------------------------
(***************************************************************************)
(* From audits to evidence packages: an administrator keeps the audit      *)
(* authority registry (trust_audit.py), issuers audit cases, a reviewer    *)
(* decides packets, a recorder adds outcomes to the campaign workspace     *)
(* (trust_prospective_mutation.py), and a snapshot copies the workspace,   *)
(* file after file, into a package with a report beside it                 *)
(* (trust_prospective_report.py, trust_evidence_acquisition.py).           *)
(*                                                                         *)
(* The commands that write the workspace run one at a time here, with      *)
(* crashes; ProspectiveCampaign interleaves them. The snapshot takes no    *)
(* part in that order: it runs against all of them.                        *)
(***************************************************************************)
EXTENDS R0Evidence, Functions

CONSTANTS
  Roots, Grants, Revocations,  \* what the administrator may register
  Decisions,                   \* who may decide a packet, and when
  Submissions,                 \* the outcomes the recorder may be given
  MaxEvents, MaxSnapshots, MaxCrashes

Submission == [case : Report, authority : Authority, verdict : Verdict, actor : Actor, at : Time]

ASSUME PackagesAssumption ==
  /\ Roots \subseteq TrustRoot /\ Grants \subseteq Grant /\ Revocations \subseteq Revocation
  /\ Decisions \subseteq Packet \X Actor \X Time /\ Submissions \subseteq Submission
  /\ {MaxEvents, MaxSnapshots, MaxCrashes} \subseteq Nat

VARIABLES
  authority,  \* the audit authority registry
  issued,     \* the audit artifacts issued
  registry,   \* comparison-registry.json
  manifest,   \* reconciliation-sources.json: the outcomes it maps
  sources,    \* cases/*/outcomes/*: the authority registry in each directory
  attested,   \* is acquisition-attestation.json there?
  recorder,   \* the run of record_case_outcome
  snap,       \* the run of snapshot_campaign
  taken,      \* snapshots begun under a new name
  packages,   \* the packages, by the registry whose hash names them
  reports,    \* the acquisition reports, by the same names
  crashes

workspace == <<registry, manifest, sources, attested>>
published == <<packages, reports>>
vars == <<authority, issued, registry, manifest, sources, attested,
          recorder, snap, taken, packages, reports, crashes>>

Workspace == [registry |-> registry, manifest |-> manifest, sources |-> sources]

Idle == [pc |-> "idle"]

(* A file put beside others, or in the place of one. *)
With(f, name, value) == [x \in DOMAIN f \cup {name} |-> IF x = name THEN value ELSE f[x]]

Init ==
  /\ authority = EmptyAuthority /\ issued = [artifacts |-> {}]
  /\ registry = [cases |-> Report, events |-> <<>>] /\ manifest = {}
  /\ sources = [id \in {} |-> EmptyAuthority] /\ attested = FALSE
  /\ recorder = Idle /\ snap = Idle /\ taken = 0
  /\ packages = [key \in {} |-> Idle] /\ reports = [key \in {} |-> Idle]
  /\ crashes = 0

-----------------------------------------------------------------------------
(* The authority registry and the audits.                                  *)

Administer(new) ==
  /\ authority' = new
  /\ UNCHANGED <<issued, workspace, recorder, snap, taken, published, crashes>>

(* cmd_add_root, cmd_authorize, cmd_revoke *)
AddRoot(root) == CanAddRoot(authority, root) /\ Administer(WithRoot(authority, root))

AuthorizeIssuer(grant) == CanAuthorize(authority, grant) /\ Administer(WithGrant(authority, grant))

RevokeIssuer(revocation) ==
  CanRevoke(authority, revocation) /\ Administer(WithRevocation(authority, revocation))

(* issue_audit *)
IssueAudit(s) ==
  /\ s \notin issued.artifacts
  /\ CanIssue(registry, authority, s)
  /\ issued' = [artifacts |-> issued.artifacts \cup {s}]
  /\ UNCHANGED <<authority, workspace, recorder, snap, taken, published, crashes>>

-----------------------------------------------------------------------------
(* The workspace.                                                          *)

ProvideAttestation ==
  /\ ~ attested
  /\ attested' = TRUE
  /\ UNCHANGED <<authority, issued, registry, manifest, sources, recorder, snap, taken,
                 published, crashes>>

(* record_case_review: one replacement of the registry, once the candidate *)
(* reconciles.                                                             *)
Review(k, a, t) ==
  LET e == Decision(k, a, t)
      candidate == [Workspace EXCEPT !.registry = Appended(registry, e)]
  IN  /\ recorder = Idle
      /\ Len(registry.events) < MaxEvents
      /\ CanDecide(registry, e) /\ t >= CapturedAt[e.case]
      /\ \A i \in DOMAIN registry.events : registry.events[i].packet # k
      /\ SourcesComplete(candidate)
      /\ registry' = candidate.registry
      /\ UNCHANGED <<authority, issued, manifest, sources, attested, recorder, snap, taken,
                     published, crashes>>

SameOutcome(e, s) == IsOutcome(e) /\ e.case = s.case /\ e.verdict = s.verdict /\ e.authority = s.authority

BackedAlone(candidate, i) ==
  IsConclusive(candidate.registry.events[i]) => BaseStatus(candidate, i) = "RECONCILED"

(* A conclusive outcome must reconcile in the candidate. *)
Backed(candidate, i) == IsConclusive(candidate.registry.events[i]) => Reconciled(candidate, i)

(* record_case_outcome: the copy of the source goes in place, an audit's   *)
(* with the authority registry of the moment, and the candidate is         *)
(* reconciled. Then _replace_registry_manifest replaces the registry and,  *)
(* in a second step, the manifest. Nobody looks at a directory before the  *)
(* manifest maps it, so placing it and the first replacement are one step. *)
RecordOutcome(s) ==
  LET e == Outcome(s.case, s.authority, s.verdict, s.actor, s.at)
      updated == Appended(registry, e)
      new == Len(updated.events)
      kept == IF s.authority \in Audit THEN authority ELSE EmptyAuthority
      candidate == [registry |-> updated,
                    manifest |-> manifest \cup {EventId(updated, new)},
                    sources |-> With(sources, EventId(updated, new), kept)]
  IN  /\ recorder = Idle
      /\ new <= MaxEvents
      /\ s.authority \in Audit => s.authority \in issued.artifacts /\ s.actor = IssuerOf[s.authority]
      /\ \A i \in DOMAIN registry.events : ~ SameOutcome(registry.events[i], s)
      /\ CanRecordOutcome(registry, e) /\ s.at >= CapturedAt[s.case]
      /\ EventId(updated, new) \notin DOMAIN sources
      /\ Backed(candidate, new)
      /\ sources' = candidate.sources
      /\ registry' = updated
      /\ recorder' = [pc |-> "registry", from |-> registry]
      /\ UNCHANGED <<authority, issued, manifest, attested, snap, taken, published, crashes>>

Recorded == EventId(registry, Len(registry.events))

ReplaceManifest ==
  /\ recorder.pc = "registry"
  /\ manifest' = manifest \cup {Recorded}
  /\ recorder' = Idle
  /\ UNCHANGED <<authority, issued, registry, sources, attested, snap, taken, published, crashes>>

(* The manifest is not replaced: the registry is restored, the directory   *)
(* removed.                                                                *)
RollBack ==
  /\ recorder.pc = "registry"
  /\ registry' = recorder.from
  /\ sources' = Restrict(sources, DOMAIN sources \ {Recorded})
  /\ recorder' = Idle
  /\ UNCHANGED <<authority, issued, manifest, attested, snap, taken, published, crashes>>

RecorderDies ==
  /\ recorder # Idle /\ crashes < MaxCrashes
  /\ recorder' = Idle
  /\ crashes' = crashes + 1
  /\ UNCHANGED <<authority, issued, workspace, snap, taken, published>>

-----------------------------------------------------------------------------
(* The snapshot.                                                           *)

Resting == snap.pc \in {"idle", "answered", "refused"}

(* snapshot_campaign: the registry it reads names the package. Runs that   *)
(* find that name taken are not counted.                                   *)
BeginSnapshot ==
  /\ Resting
  /\ registry \notin DOMAIN packages \cup DOMAIN reports
  /\ taken < MaxSnapshots
  /\ taken' = taken + 1
  /\ snap' = [pc |-> "keyed", key |-> registry]
  /\ UNCHANGED <<authority, issued, workspace, recorder, published, crashes>>

RepeatSnapshot ==
  /\ Resting
  /\ registry \in DOMAIN packages \cup DOMAIN reports
  /\ snap' = IF registry \in DOMAIN packages /\ registry \in DOMAIN reports
             THEN [pc |-> "written", key |-> registry]
             ELSE [pc |-> "refused", why |-> "PARTIALLY_PRESENT"]
  /\ UNCHANGED <<authority, issued, workspace, recorder, taken, published, crashes>>

(* inspect_acquisition_workspace, what a report says of the workspace. *)
Inspection ==
  [registry |-> registry, manifest |-> manifest, attested |-> attested,
   sources |-> Restrict(sources, manifest \cap DOMAIN sources),
   status |-> IF ~ attested THEN "BLOCKED_MISSING_INPUT"
              ELSE IF manifest \subseteq DOMAIN sources THEN "READY_TO_POPULATE"
              ELSE "BLOCKED_MISSING_SOURCE_CLOSURE"]

InspectWorkspace ==
  /\ snap.pc = "keyed"
  /\ snap' = [pc |-> IF Inspection.status = "READY_TO_POPULATE" THEN "inspected" ELSE "unwritten",
              key |-> snap.key, seen |-> Inspection]
  /\ UNCHANGED <<authority, issued, workspace, recorder, taken, published, crashes>>

(* populate_r0_evidence_package copies the inputs one by one, then every   *)
(* source the inspection found in the manifest.                            *)
CopyRegistry ==
  /\ snap.pc = "inspected"
  /\ snap' = [pc |-> "copying", key |-> snap.key, seen |-> snap.seen, copied |-> registry]
  /\ UNCHANGED <<authority, issued, workspace, recorder, taken, published, crashes>>

(* The copies are reconciled, their reports written and reviewed, and the  *)
(* staged files renamed into the package: all of it on files of its own.   *)
Refusal(files) ==
  IF ~ ManifestBound(files) THEN "UNKNOWN_OUTCOME"
  ELSE IF ~ LegacyVerifies(files) THEN "REPORT_NOT_STORED"
  ELSE None

Staged == [registry |-> snap.copied, manifest |-> manifest,
           sources |-> Restrict(sources, snap.seen.manifest)]

CopyManifestAndPublish ==
  /\ snap.pc = "copying"
  /\ IF Refusal(Staged) # None
     THEN /\ snap' = [pc |-> "refused", why |-> Refusal(Staged)]
          /\ UNCHANGED packages
     ELSE /\ snap' = [pc |-> "unwritten", key |-> snap.key, seen |-> snap.seen]
          /\ packages' = With(packages, snap.key, [files |-> Staged, eligible |-> Eligible(Staged)])
  /\ UNCHANGED <<authority, issued, workspace, recorder, taken, reports, crashes>>

AnswerAsWritten(report) == snap' = [pc |-> "answered"]

(* verify_acquisition_report_sources: the workspace must be as inspected;  *)
(* a package, once renamed into place, replays as it was.                  *)
Answer(report) ==
  snap' = IF Inspection = report THEN [pc |-> "answered"]
          ELSE [pc |-> "refused", why |-> "REPLAY_MISMATCH"]

(* write_acquisition_report, and the replay that follows it *)
WriteReport ==
  /\ snap.pc = "unwritten"
  /\ reports' = With(reports, snap.key, snap.seen)
  /\ Answer(snap.seen)
  /\ UNCHANGED <<authority, issued, workspace, recorder, taken, packages, crashes>>

ReplayExisting ==
  /\ snap.pc = "written"
  /\ Answer(reports[snap.key])
  /\ UNCHANGED <<authority, issued, workspace, recorder, taken, published, crashes>>

SnapshotDies ==
  /\ ~ Resting /\ crashes < MaxCrashes
  /\ snap' = Idle
  /\ crashes' = crashes + 1
  /\ UNCHANGED <<authority, issued, workspace, recorder, taken, published>>

-----------------------------------------------------------------------------
Next ==
  \/ \E root \in Roots : AddRoot(root)
  \/ \E grant \in Grants : AuthorizeIssuer(grant)
  \/ \E revocation \in Revocations : RevokeIssuer(revocation)
  \/ \E s \in Audit : IssueAudit(s)
  \/ ProvideAttestation
  \/ \E d \in Decisions : Review(d[1], d[2], d[3])
  \/ \E s \in Submissions : RecordOutcome(s)
  \/ ReplaceManifest \/ RollBack \/ RecorderDies
  \/ BeginSnapshot \/ RepeatSnapshot \/ InspectWorkspace \/ CopyRegistry
  \/ CopyManifestAndPublish \/ WriteReport \/ ReplayExisting \/ SnapshotDies

Spec == Init /\ [][Next]_vars

-----------------------------------------------------------------------------
(* Properties.                                                             *)

IsFiles(files) ==
  /\ files.registry \in Registry
  /\ \A id \in files.manifest \cup DOMAIN files.sources : id \in Seq(Event)
  /\ \A id \in DOMAIN files.sources : files.sources[id] \in AuthorityRegistry

(* The types of the state; what is kept by the hash of a registry is keyed *)
(* by one.                                                                 *)
TypeOK ==
  /\ authority \in AuthorityRegistry
  /\ issued.artifacts \subseteq Audit
  /\ IsFiles(Workspace) /\ attested \in BOOLEAN
  /\ recorder.pc \in {"idle", "registry"}
  /\ recorder # Idle => recorder.from \in Registry
  /\ snap.pc \in {"idle", "keyed", "inspected", "copying", "unwritten", "written",
                  "answered", "refused"}
  /\ \A key \in DOMAIN packages : key \in Registry /\ IsFiles(packages[key].files)
  /\ \A key \in DOMAIN reports : key \in Registry
  /\ taken \in 0 .. MaxSnapshots /\ crashes \in 0 .. MaxCrashes

(* A package said to be eligible earns it, event by event: as many R0      *)
(* cases as the policy asks for have a SAFE audit by its issuer, issued    *)
(* after the capture and before the recording, under a grant the authority *)
(* registry beside it does not revoke by then, by somebody who had not     *)
(* decided about the case; no R0 case is UNSAFE; another case is.          *)
EarnedAudit(files, i) ==
  LET e == files.registry.events[i]
      id == SubSeq(files.registry.events, 1, i)
      artifact == Artifact[e.authority]
      kept == files.sources[id]
  IN  /\ e.type = "OUTCOME" /\ e.verdict = "SAFE" /\ e.authority \in Audit
      /\ id \in files.manifest /\ id \in DOMAIN files.sources
      /\ artifact.case = e.case /\ artifact.verdict = "SAFE"
      /\ artifact.grant.issuer = e.actor /\ artifact.grant \in kept.grants
      /\ CapturedAt[e.case] <= artifact.at /\ artifact.at <= e.at
      /\ ~ \E revocation \in kept.revocations :
            revocation.grant = artifact.grant /\ revocation.effective <= artifact.at
      /\ ~ \E j \in 1 .. i - 1 :
            /\ files.registry.events[j].type = "HUMAN_DECISION"
            /\ files.registry.events[j].case = e.case
            /\ files.registry.events[j].actor = e.actor

EligibleIsEarned ==
  \A key \in DOMAIN packages : packages[key].eligible =>
    LET files == packages[key].files
        events == files.registry.events
        earned == {c \in R0 : \E i \in DOMAIN events : events[i].case = c /\ EarnedAudit(files, i)}
        unsafe == {events[i].case : i \in {j \in DOMAIN events : events[j].verdict = "UNSAFE"}}
    IN  Cardinality(earned) >= Minimum.audited /\ unsafe # {} /\ unsafe \cap R0 = {}

(* What the campaign reports as ready is what the pilot review would find  *)
(* eligible, though each counts the audits and the sources its own way.    *)
ReadyMeansEligible == CampaignStatus(Workspace) = "READY" <=> Eligible(Workspace)

ConclusiveEvents(r) == {r.events[i] : i \in {j \in DOMAIN r.events : IsConclusive(r.events[j])}}

(* When the snapshot command answers that a package is eligible, the       *)
(* campaign is ready on the same conclusive outcomes, whatever was written *)
(* while the files were copied; or it is blocked by an outcome without a   *)
(* source in the manifest, one that was rolled back during the snapshot    *)
(* and recorded again.                                                     *)
EligibleAnswersAreCurrent ==
  [][ snap.pc # "answered" /\ snap'.pc = "answered" /\ snap.key \in DOMAIN packages
        /\ packages[snap.key].eligible
      => \/ /\ CampaignStatus(Workspace) = "READY"
            /\ ConclusiveEvents(packages[snap.key].files.registry) = ConclusiveEvents(registry)
         \/ CampaignStatus(Workspace) = "BLOCKED_SOURCE_RECONCILIATION"
    ]_vars

(* An audit that binds binds whatever else is registered, and stops to     *)
(* only by a revocation declared retroactive or recorded by then.          *)
RevocationSparesEarlierAudits ==
  [][ \A s \in issued.artifacts :
        Binds(authority, Artifact[s].grant, Artifact[s].at)
        /\ ~ Binds(authority', Artifact[s].grant, Artifact[s].at)
        => \E revocation \in authority'.revocations \ authority.revocations :
             /\ revocation.grant = Artifact[s].grant
             /\ revocation.retroactive \/ revocation.recorded <= Artifact[s].at
    ]_vars

(* A conclusive outcome that is reconciled stays so while it is in the     *)
(* registry: no later outcome, revocation, rollback or crash unsettles it. *)
ReconciledForGood ==
  [][ \A i \in Conclusives(Workspace) :
        Reconciled(Workspace, i) /\ i <= Len(registry'.events)
        => Reconciled(Workspace', i)
    ]_<<registry, manifest, sources>>

=============================================================================
