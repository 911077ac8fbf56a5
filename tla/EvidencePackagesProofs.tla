------------------------ MODULE EvidencePackagesProofs ------------------------
(***************************************************************************)
(* Proofs about EvidencePackages, for any cases, audits, authorities,      *)
(* submissions and thresholds, and any number of snapshots and crashes.    *)
(***************************************************************************)
EXTENDS EvidencePackages, FiniteSetTheorems, SequenceTheorems, TLAPS

-----------------------------------------------------------------------------
(* The status of the campaign and the pilot review.                        *)

LEMMA VerifiedWhenComplete ==
  ASSUME NEW files, SourcesComplete(files)
  PROVE  VerifiedAudits(files) = R0 \cap CasesOf(files, Audits(files))
<1>1. {i \in Audits(files) : Reconciled(files, i)} = Audits(files)
  BY DEF SourcesComplete, Audits
<1>. QED
  BY <1>1 DEF VerifiedAudits

LEMMA ReadyIffEligible ==
  ASSUME NEW files
  PROVE  CampaignStatus(files) = "READY" <=> Eligible(files)
<1>. DEFINE o == Observation(files)
<1>1. o.audited = Cardinality(R0 \cap CasesOf(files, Audits(files)))
  BY DEF Observation
<1>2. ASSUME SourcesComplete(files), ObservationStatus(o) = "THRESHOLDS_SATISFIED"
      PROVE  Eligible(files)
  <2>1. MinimaMet(o) /\ MaximaMet(o)
    BY <1>2 DEF ObservationStatus
  <2>2. Cardinality(VerifiedAudits(files)) >= Minimum.audited
    BY <1>1, <1>2, <2>1, VerifiedWhenComplete DEF MinimaMet
  <2>. QED
    BY <1>2, <2>1, <2>2 DEF Eligible, MaximaMet
<1>3. Eligible(files)
      => SourcesComplete(files) /\ ObservationStatus(o) = "THRESHOLDS_SATISFIED"
  BY DEF Eligible
<1>4. CampaignStatus(files) = "READY"
      <=> SourcesComplete(files) /\ ObservationStatus(o) = "THRESHOLDS_SATISFIED"
  BY DEF CampaignStatus
<1>. QED
  BY <1>2, <1>3, <1>4

(* Whatever the files hold, the campaign is ready exactly when the pilot   *)
(* review finds it eligible.                                               *)
THEOREM ReadyIsEligible == Spec => []ReadyMeansEligible
<1>1. ReadyMeansEligible
  BY ReadyIffEligible DEF ReadyMeansEligible
<1>. QED
  BY <1>1, PTL

-----------------------------------------------------------------------------
(* The authority registry.                                                 *)

AuthorityInv == authority \in AuthorityRegistry /\ issued.artifacts \subseteq Audit

LEMMA AuthoritySteps == AuthorityInv /\ [Next]_vars => AuthorityInv'
<1>. SUFFICES ASSUME AuthorityInv, [Next]_vars PROVE AuthorityInv'
  OBVIOUS
<1>. USE DEF AuthorityInv
<1>1. ASSUME NEW root \in Roots, AddRoot(root) PROVE AuthorityInv'
  BY <1>1, PackagesAssumption DEF AddRoot, Administer, WithRoot, AuthorityRegistry
<1>2. ASSUME NEW grant \in Grants, AuthorizeIssuer(grant) PROVE AuthorityInv'
  BY <1>2, PackagesAssumption DEF AuthorizeIssuer, Administer, WithGrant, AuthorityRegistry
<1>3. ASSUME NEW revocation \in Revocations, RevokeIssuer(revocation) PROVE AuthorityInv'
  BY <1>3, PackagesAssumption DEF RevokeIssuer, Administer, WithRevocation, AuthorityRegistry
<1>4. ASSUME NEW s \in Audit, IssueAudit(s) PROVE AuthorityInv'
  BY <1>4 DEF IssueAudit
<1>5. ASSUME UNCHANGED <<authority, issued>> PROVE AuthorityInv'
  BY <1>5
<1>. QED
  BY <1>1, <1>2, <1>3, <1>4, <1>5
  DEF Next, vars, ProvideAttestation, Review, RecordOutcome, ReplaceManifest, RollBack,
      RecorderDies, BeginSnapshot, RepeatSnapshot, InspectWorkspace, CopyRegistry,
      CopyManifestAndPublish, WriteReport, ReplayExisting, SnapshotDies

LEMMA RevocationsSpare ==
  ASSUME AuthorityInv, [Next]_vars, NEW s \in issued.artifacts,
         Binds(authority, Artifact[s].grant, Artifact[s].at),
         ~ Binds(authority', Artifact[s].grant, Artifact[s].at)
  PROVE  \E revocation \in authority'.revocations \ authority.revocations :
           /\ revocation.grant = Artifact[s].grant
           /\ revocation.retroactive \/ revocation.recorded <= Artifact[s].at
<1>. DEFINE grant == Artifact[s].grant
            at == Artifact[s].at
<1>. HIDE DEF grant, at
<1>0. Binds(authority, grant, at) /\ ~ Binds(authority', grant, at)
  BY DEF grant, at
<1>1. ASSUME NEW root \in Roots, AddRoot(root) PROVE FALSE
  BY <1>0, <1>1 DEF AddRoot, Administer, WithRoot, Binds, ActiveAt, AuthorityInv, AuthorityRegistry
<1>2. ASSUME NEW new \in Grants, AuthorizeIssuer(new) PROVE FALSE
  BY <1>0, <1>2
  DEF AuthorizeIssuer, Administer, WithGrant, Binds, ActiveAt, AuthorityInv, AuthorityRegistry
<1>3. ASSUME NEW revocation \in Revocations, RevokeIssuer(revocation)
      PROVE  /\ revocation \in authority'.revocations \ authority.revocations
             /\ revocation.grant = grant
             /\ revocation.retroactive \/ revocation.recorded <= at
  <2>1. /\ authority' = WithRevocation(authority, revocation)
        /\ VerifyAuthority(authority')
        /\ \A earlier \in authority.revocations : earlier.grant # revocation.grant
    BY <1>3 DEF RevokeIssuer, Administer, CanRevoke
  <2>2. /\ authority'.roots = authority.roots /\ authority'.grants = authority.grants
        /\ authority'.revocations = authority.revocations \cup {revocation}
    BY <2>1 DEF WithRevocation, AuthorityInv, AuthorityRegistry
  <2>3. revocation.grant = grant /\ ~ (at < revocation.effective)
    BY <1>0, <2>2 DEF Binds, ActiveAt
  <2>4. RevocationIsSound(revocation)
    BY <2>1, <2>2 DEF VerifyAuthority
  <2>5. revocation.effective \in Nat /\ revocation.recorded \in Nat
    BY PackagesAssumption, EvidenceAssumption DEF Revocation
  <2>6. at \in Nat
    BY EvidenceAssumption DEF at, AuthorityInv
  <2>. QED
    BY <2>1, <2>2, <2>3, <2>4, <2>5, <2>6 DEF RevocationIsSound
<1>4. ASSUME UNCHANGED authority PROVE FALSE
  BY <1>0, <1>4
<1>5. \E revocation \in Revocations : RevokeIssuer(revocation)
  BY <1>1, <1>2, <1>4
  DEF Next, vars, IssueAudit, ProvideAttestation, Review, RecordOutcome, ReplaceManifest, RollBack,
      RecorderDies, BeginSnapshot, RepeatSnapshot, InspectWorkspace, CopyRegistry,
      CopyManifestAndPublish, WriteReport, ReplayExisting, SnapshotDies
<1>. QED
  BY <1>3, <1>5 DEF grant, at

(* An audit is disowned only by a revocation that says it is retroactive,  *)
(* or that had been recorded when the audit was issued.                    *)
THEOREM RevocationsSpareEarlierAudits == Spec => RevocationSparesEarlierAudits
<1>1. Init => AuthorityInv
  BY DEF Init, EmptyAuthority, AuthorityInv, AuthorityRegistry
<1>2. AuthorityInv /\ [Next]_vars
      => [\A s \in issued.artifacts :
            Binds(authority, Artifact[s].grant, Artifact[s].at)
            /\ ~ Binds(authority', Artifact[s].grant, Artifact[s].at)
            => \E revocation \in authority'.revocations \ authority.revocations :
                 /\ revocation.grant = Artifact[s].grant
                 /\ revocation.retroactive \/ revocation.recorded <= Artifact[s].at]_vars
  BY RevocationsSpare
<1>. QED
  BY <1>1, <1>2, AuthoritySteps, PTL DEF Spec, RevocationSparesEarlierAudits

-----------------------------------------------------------------------------
(* Registries.                                                             *)

Sound ==
  {r \in Registry :
     /\ VerifyRegistry(r)
     /\ \A i \in DOMAIN r.events : ~ IsOutcome(r.events[i]) => r.events[i].verdict = None}

LEMMA AppendedSound ==
  ASSUME NEW r \in Sound, NEW e \in Event, e.case \in r.cases,
         ~ IsOutcome(e) => e.verdict = None,
         IsOutcome(e) => CanRecordOutcome(r, e)
  PROVE  /\ Appended(r, e) \in Sound
         /\ Len(Appended(r, e).events) = Len(r.events) + 1
         /\ Appended(r, e).events[Len(r.events) + 1] = e
         /\ \A i \in DOMAIN r.events :
               i \in DOMAIN Appended(r, e).events /\ Appended(r, e).events[i] = r.events[i]
<1>. DEFINE new == Append(r.events, e)
            n == Len(r.events)
<1>1. r \in Registry /\ r.events \in Seq(Event) /\ VerifyRegistry(r) /\ n \in Nat
  BY DEF Sound, Registry
<1>2. /\ new \in Seq(Event) /\ DOMAIN new = 1 .. n + 1 /\ DOMAIN r.events = 1 .. n
      /\ Len(new) = n + 1 /\ new[n + 1] = e /\ \A i \in 1 .. n : new[i] = r.events[i]
  BY <1>1
<1>3. Appended(r, e) = [cases |-> r.cases, events |-> new] /\ Appended(r, e) \in Registry
  BY <1>1, <1>2 DEF Appended, Registry
<1>. HIDE DEF new, n
<1>4. ASSUME NEW i \in 1 .. n + 1, NEW j \in 1 .. i - 1, new[j].case = new[i].case
      PROVE  /\ IsConclusive(new[i]) /\ IsConclusive(new[j]) => new[i].verdict = new[j].verdict
             /\ IsAudit(new[i]) /\ new[j].type = "HUMAN_DECISION" => new[i].actor # new[j].actor
  <2>1. j \in 1 .. n /\ new[j] = r.events[j]
    BY <1>1, <1>2
  <2>2. CASE i = n + 1
    <3>1. new[i] = e
      BY <1>2, <2>2
    <3>2. IsConclusive(e) \/ IsAudit(e) => CanRecordOutcome(r, e)
      BY DEF IsConclusive, IsAudit, IsOutcome
    <3>. QED
      BY <1>2, <1>4, <2>1, <3>1, <3>2 DEF CanRecordOutcome
  <2>3. CASE i # n + 1
    <3>1. i \in 1 .. n /\ new[i] = r.events[i]
      BY <1>1, <1>2, <2>3
    <3>. QED
      BY <1>1, <1>2, <1>4, <2>1, <3>1 DEF VerifyRegistry
  <2>. QED
    BY <2>2, <2>3
<1>5. ASSUME NEW i \in 1 .. n + 1
      PROVE  new[i].case \in r.cases /\ (~ IsOutcome(new[i]) => new[i].verdict = None)
  <2>1. CASE i = n + 1
    BY <1>2, <2>1
  <2>2. CASE i # n + 1
    <3>1. i \in DOMAIN r.events /\ new[i] = r.events[i]
      BY <1>1, <1>2, <2>2
    <3>. QED
      BY <1>1, <3>1 DEF Sound, VerifyRegistry
  <2>. QED
    BY <2>1, <2>2
<1>6. VerifyRegistry(Appended(r, e))
  BY <1>2, <1>3, <1>4, <1>5 DEF VerifyRegistry
<1>7. Appended(r, e).events = new
  BY <1>3
<1>8. Appended(r, e) \in Sound
  BY <1>2, <1>3, <1>5, <1>6, <1>7 DEF Sound
<1>. QED
  BY <1>1, <1>2, <1>7, <1>8 DEF n

LEMMA EventIds ==
  ASSUME NEW r \in Registry, NEW i \in DOMAIN r.events
  PROVE  /\ EventId(r, i) \in Seq(Event) /\ Len(EventId(r, i)) = i
         /\ \A j \in 1 .. i : EventId(r, i)[j] = r.events[j]
BY DEF Registry, EventId

(* An event keeps its identity when another is appended, and no two of a   *)
(* history have the same.                                                  *)
LEMMA SameIds ==
  ASSUME NEW r \in Registry, NEW q \in Registry, NEW i \in DOMAIN r.events,
         i \in DOMAIN q.events, \A j \in 1 .. i : q.events[j] = r.events[j]
  PROVE  EventId(q, i) = EventId(r, i)
<1>1. /\ EventId(r, i) \in Seq(Event) /\ Len(EventId(r, i)) = i
      /\ \A j \in 1 .. i : EventId(r, i)[j] = r.events[j]
  BY EventIds
<1>2. /\ EventId(q, i) \in Seq(Event) /\ Len(EventId(q, i)) = i
      /\ \A j \in 1 .. i : EventId(q, i)[j] = q.events[j]
  BY EventIds
<1>. QED
  BY <1>1, <1>2, SeqEqual

LEMMA DistinctIds ==
  ASSUME NEW r \in Registry, NEW q \in Registry, NEW i \in DOMAIN r.events,
         NEW j \in DOMAIN q.events, i # j
  PROVE  EventId(r, i) # EventId(q, j)
BY EventIds

-----------------------------------------------------------------------------
(* The workspace: what the manifest maps is there and stays; what the      *)
(* recorder has in hand is not mapped yet, and will reconcile once it is.  *)

Mapping == [registry |-> registry, manifest |-> manifest \cup {Recorded}, sources |-> sources]

RecorderInv ==
  /\ recorder = Idle \/ recorder.pc = "registry"
  /\ recorder.pc = "registry" =>
       /\ recorder.from \in Sound
       /\ registry.events # <<>>
       /\ \E e \in Event : registry = Appended(recorder.from, e)
       /\ Recorded \in DOMAIN sources \ manifest
       /\ Backed(Mapping, Len(registry.events))

WorkspaceInv ==
  /\ registry \in Sound
  /\ DOMAIN sources \subseteq Seq(Event) /\ manifest \subseteq DOMAIN sources
  /\ \A id \in DOMAIN sources : sources[id] \in AuthorityRegistry
  /\ RecorderInv

LEMMA Decided ==
  ASSUME registry \in Sound, NEW d \in Decisions, Review(d[1], d[2], d[3])
  PROVE  \E e \in Event : /\ registry' = Appended(registry, e) /\ ~ IsOutcome(e)
                          /\ e.case \in registry.cases /\ e.verdict = None
<1>. DEFINE e == Decision(d[1], d[2], d[3])
<1>1. d[1] \in Packet /\ d[2] \in Actor /\ d[3] \in Time
  BY PackagesAssumption
<1>2. e \in Event /\ ~ IsOutcome(e) /\ e.verdict = None
  BY <1>1, ComparisonAssumption DEF Decision, Event, IsOutcome
<1>. QED
  BY <1>2 DEF Review, CanDecide

(* The outcome that RecordOutcome adds. *)
OutcomeOf(s) == Outcome(s.case, s.authority, s.verdict, s.actor, s.at)

LEMMA Submitted ==
  ASSUME registry \in Sound, NEW s \in Submissions, RecordOutcome(s)
  PROVE  /\ OutcomeOf(s) \in Event /\ IsOutcome(OutcomeOf(s))
         /\ registry' = Appended(registry, OutcomeOf(s)) /\ CanRecordOutcome(registry, OutcomeOf(s))
         /\ registry' \in Sound /\ Len(registry'.events) = Len(registry.events) + 1
         /\ recorder' = [pc |-> "registry", from |-> registry]
<1>1. s \in Submission
  BY PackagesAssumption
<1>2. OutcomeOf(s) \in Event /\ IsOutcome(OutcomeOf(s))
  BY <1>1 DEF Submission, OutcomeOf, Outcome, Event, IsOutcome
<1>3. /\ registry' = Appended(registry, OutcomeOf(s)) /\ CanRecordOutcome(registry, OutcomeOf(s))
      /\ recorder' = [pc |-> "registry", from |-> registry]
  BY DEF RecordOutcome, OutcomeOf
<1>. QED
  BY <1>2, <1>3, AppendedSound DEF CanRecordOutcome

LEMMA Placed ==
  ASSUME NEW s \in Submissions, RecordOutcome(s)
  PROVE  /\ Recorded' \notin DOMAIN sources
         /\ \E kept \in {authority, EmptyAuthority} : sources' = With(sources, Recorded', kept)
         /\ Backed([registry |-> registry', manifest |-> manifest \cup {Recorded'},
                    sources |-> sources'], Len(registry'.events))
         /\ manifest' = manifest
BY DEF RecordOutcome, Recorded

LEMMA WorkspaceSteps ==
  ASSUME WorkspaceInv, AuthorityInv, [Next]_vars
  PROVE  WorkspaceInv'
<1>1. ASSUME NEW d \in Decisions, Review(d[1], d[2], d[3]) PROVE WorkspaceInv'
  <2>1. registry' \in Sound
    BY <1>1, Decided, AppendedSound DEF WorkspaceInv
  <2>2. UNCHANGED <<manifest, sources, recorder>> /\ recorder.pc # "registry"
    BY <1>1 DEF Review, Idle
  <2>. QED
    BY <2>1, <2>2 DEF WorkspaceInv, RecorderInv
<1>2. ASSUME NEW s \in Submissions, RecordOutcome(s) PROVE WorkspaceInv'
  <2>1. registry' \in Sound /\ Len(registry'.events) = Len(registry.events) + 1
    BY <1>2, Submitted DEF WorkspaceInv
  <2>2. Len(registry.events) \in Nat /\ Len(registry'.events) \in DOMAIN registry'.events
        /\ registry'.events # <<>>
    BY <2>1 DEF WorkspaceInv, Sound, Registry
  <2>3. Recorded' \in Seq(Event)
    BY <2>1, <2>2, EventIds DEF Sound, Recorded
  <2>4. PICK kept \in {authority, EmptyAuthority} : sources' = With(sources, Recorded', kept)
    BY <1>2, Placed
  <2>5. kept \in AuthorityRegistry
    BY DEF AuthorityInv, EmptyAuthority, AuthorityRegistry
  <2>6. /\ DOMAIN sources' = DOMAIN sources \cup {Recorded'}
        /\ \A id \in DOMAIN sources' : sources'[id] \in AuthorityRegistry
    BY <2>4, <2>5 DEF With, WorkspaceInv
  <2>7. RecorderInv'
    <3>1. recorder' = [pc |-> "registry", from |-> registry]
          /\ \E e \in Event : registry' = Appended(registry, e)
      BY <1>2, Submitted DEF WorkspaceInv
    <3>2. Recorded' \in DOMAIN sources' \ manifest'
      BY <1>2, <2>6, Placed DEF WorkspaceInv
    <3>3. Backed(Mapping', Len(registry'.events))
      BY <1>2, Placed DEF Mapping
    <3>. QED
      BY <2>2, <3>1, <3>2, <3>3 DEF RecorderInv, WorkspaceInv
  <2>. QED
    BY <1>2, <2>1, <2>3, <2>6, <2>7, Placed DEF WorkspaceInv
<1>3. ASSUME ReplaceManifest PROVE WorkspaceInv'
  BY <1>3 DEF ReplaceManifest, Idle, WorkspaceInv, RecorderInv
<1>4. ASSUME RollBack PROVE WorkspaceInv'
  <2>1. registry' \in Sound /\ manifest' = manifest /\ recorder' = Idle
        /\ sources' = Restrict(sources, DOMAIN sources \ {Recorded}) /\ Recorded \notin manifest
    BY <1>4 DEF RollBack, WorkspaceInv, RecorderInv
  <2>. QED
    BY <2>1 DEF WorkspaceInv, RecorderInv, Restrict, Idle
<1>5. ASSUME RecorderDies PROVE WorkspaceInv'
  BY <1>5 DEF RecorderDies, workspace, Idle, WorkspaceInv, RecorderInv
<1>6. ASSUME UNCHANGED <<registry, manifest, sources, recorder>> PROVE WorkspaceInv'
  BY <1>6 DEF WorkspaceInv, RecorderInv, Mapping, Recorded
<1>. QED
  BY <1>1, <1>2, <1>3, <1>4, <1>5, <1>6
  DEF Next, vars, workspace, AddRoot, AuthorizeIssuer, RevokeIssuer, Administer, IssueAudit,
      ProvideAttestation, BeginSnapshot, RepeatSnapshot, InspectWorkspace, CopyRegistry,
      CopyManifestAndPublish, WriteReport, ReplayExisting, SnapshotDies

-----------------------------------------------------------------------------
(* What is reconciled stays reconciled.                                    *)

(* The i-th event, its mapping and its source are the same in both.        *)
Alike(f, g, i) ==
  LET id == EventId(f.registry, i)
  IN  /\ i \in DOMAIN f.registry.events /\ i \in DOMAIN g.registry.events
      /\ g.registry.events[i] = f.registry.events[i] /\ EventId(g.registry, i) = id
      /\ id \in f.manifest <=> id \in g.manifest
      /\ id \in DOMAIN f.sources <=> id \in DOMAIN g.sources
      /\ id \in DOMAIN f.sources => g.sources[id] = f.sources[id]

LEMMA AlikeStatus ==
  ASSUME NEW f, NEW g, NEW i, Alike(f, g, i)
  PROVE  /\ BaseStatus(g, i) = BaseStatus(f, i)
         /\ i \in Conclusives(g) <=> i \in Conclusives(f)
<1>1. Mapped(f, i) <=> Mapped(g, i)
  BY DEF Alike, Mapped
<1>2. AuditStatus(g, i) = AuditStatus(f, i)
  BY <1>1 DEF Alike, AuditStatus
<1>3. SourceStatus(g, i) = SourceStatus(f, i)
  BY <1>1 DEF Alike, SourceStatus
<1>. QED
  BY <1>2, <1>3 DEF Alike, BaseStatus, Conclusives, Outcomes

(* An outcome in g stays reconciled if those that g shares with f are      *)
(* alike, and those it does not have not reconcile with the same source.   *)
LEMMA StaysReconciled ==
  ASSUME NEW f, NEW g, NEW i \in Conclusives(f), Reconciled(f, i), Alike(f, g, i),
         \A j \in Conclusives(g) \ {i} :
           \/ Alike(f, g, j)
           \/ BaseStatus(g, j) # "RECONCILED"
           \/ g.registry.events[j].authority # g.registry.events[i].authority
  PROVE  Reconciled(g, i)
<1>1. BaseStatus(g, i) = "RECONCILED" /\ g.registry.events[i] = f.registry.events[i]
  BY AlikeStatus DEF Reconciled, Alike
<1>2. ASSUME NEW j \in Conclusives(g) \ {i}, BaseStatus(g, j) = "RECONCILED"
      PROVE  g.registry.events[j].authority # g.registry.events[i].authority
  <2>1. CASE Alike(f, g, j)
    <3>1. j \in Conclusives(f) \ {i} /\ BaseStatus(f, j) = "RECONCILED"
      BY <1>2, <2>1, AlikeStatus
    <3>2. g.registry.events[j] = f.registry.events[j]
      BY <2>1 DEF Alike
    <3>. QED
      BY <1>1, <3>1, <3>2 DEF Reconciled
  <2>. QED
    BY <1>2, <2>1
<1>. QED
  BY <1>1, <1>2 DEF Reconciled

LEMMA UnmappedFails ==
  ASSUME NEW f, NEW i, ~ Mapped(f, i)
  PROVE  BaseStatus(f, i) # "RECONCILED"
BY DEF BaseStatus, AuditStatus, SourceStatus

LEMMA WorkspaceFields ==
  /\ Workspace.registry = registry /\ Workspace.manifest = manifest /\ Workspace.sources = sources
  /\ Workspace'.registry = registry' /\ Workspace'.manifest = manifest'
  /\ Workspace'.sources = sources'
BY DEF Workspace

(* The earlier events keep their status when one is appended.              *)
LEMMA AppendKeeps ==
  ASSUME WorkspaceInv, NEW e \in Event, registry' = Appended(registry, e), registry' \in Sound,
         manifest' = manifest,
         \/ sources' = sources
         \/ Recorded' \notin DOMAIN sources /\ \E kept : sources' = With(sources, Recorded', kept),
         ~ IsOutcome(e) \/ Recorded' \notin manifest,
         NEW i \in Conclusives(Workspace), Reconciled(Workspace, i)
  PROVE  Reconciled(Workspace', i)
<1>. DEFINE n == Len(registry.events)
<1>1. /\ registry \in Registry /\ registry.events \in Seq(Event) /\ n \in Nat
      /\ registry' \in Registry /\ registry'.events = Append(registry.events, e)
  BY DEF WorkspaceInv, Sound, Registry, Appended
<1>2. /\ DOMAIN registry.events = 1 .. n /\ DOMAIN registry'.events = 1 .. n + 1
      /\ Len(registry'.events) = n + 1 /\ registry'.events[n + 1] = e
      /\ \A j \in 1 .. n : registry'.events[j] = registry.events[j]
  BY <1>1
<1>3. ASSUME NEW j \in 1 .. n PROVE Alike(Workspace, Workspace', j)
  <2>0. /\ j \in DOMAIN registry.events /\ j \in DOMAIN registry'.events
        /\ \A k \in 1 .. j : registry'.events[k] = registry.events[k]
    BY <1>1, <1>2
  <2>1. EventId(registry', j) = EventId(registry, j)
    BY <1>1, <2>0, SameIds
  <2>2. EventId(registry', j) # Recorded'
    BY <1>1, <1>2, DistinctIds DEF Recorded
  <2>3. /\ EventId(registry, j) \in DOMAIN sources' <=> EventId(registry, j) \in DOMAIN sources
        /\ EventId(registry, j) \in DOMAIN sources
           => sources'[EventId(registry, j)] = sources[EventId(registry, j)]
    BY <2>1, <2>2 DEF With
  <2>. QED
    BY <1>1, <1>2, <2>1, <2>3, WorkspaceFields DEF Alike
<1>4. i \in 1 .. n
  BY <1>1, <1>2, WorkspaceFields DEF Conclusives, Outcomes
<1>5. ASSUME NEW j \in Conclusives(Workspace'), j \notin 1 .. n
      PROVE  BaseStatus(Workspace', j) # "RECONCILED"
  <2>1. j \in 1 .. n + 1 /\ IsOutcome(registry'.events[j])
    BY <1>2, WorkspaceFields DEF Conclusives, Outcomes
  <2>2. j = n + 1 /\ IsOutcome(e) /\ EventId(registry', j) = Recorded'
    BY <1>1, <1>2, <1>5, <2>1 DEF Recorded
  <2>3. ~ Mapped(Workspace', j)
    BY <2>2, WorkspaceFields DEF Mapped
  <2>. QED
    BY <2>3, UnmappedFails
<1>. QED
  BY <1>3, <1>4, <1>5, StaysReconciled

LEMMA StepKeeps ==
  ASSUME WorkspaceInv, AuthorityInv, [Next]_vars,
         NEW i \in Conclusives(Workspace), Reconciled(Workspace, i), i <= Len(registry'.events)
  PROVE  Reconciled(Workspace', i)
<1>. DEFINE n == Len(registry.events)
<1>1. /\ registry \in Registry /\ registry.events \in Seq(Event) /\ n \in Nat
      /\ DOMAIN registry.events = 1 .. n
  BY DEF WorkspaceInv, Sound, Registry
<1>2. i \in 1 .. n /\ IsConclusive(registry.events[i])
  BY <1>1, WorkspaceFields DEF Conclusives, Outcomes
<1>3. registry' \in Sound
  BY WorkspaceSteps DEF WorkspaceInv
<1>4. ASSUME NEW d \in Decisions, Review(d[1], d[2], d[3]) PROVE Reconciled(Workspace', i)
  <2>1. PICK e \in Event : registry' = Appended(registry, e) /\ ~ IsOutcome(e)
    BY <1>4, Decided DEF WorkspaceInv
  <2>2. manifest' = manifest /\ sources' = sources
    BY <1>4 DEF Review
  <2>. QED
    BY <1>3, <2>1, <2>2, AppendKeeps
<1>5. ASSUME NEW s \in Submissions, RecordOutcome(s) PROVE Reconciled(Workspace', i)
  <2>1. OutcomeOf(s) \in Event /\ registry' = Appended(registry, OutcomeOf(s))
    BY <1>5, Submitted DEF WorkspaceInv
  <2>2. /\ Recorded' \notin DOMAIN sources /\ \E kept : sources' = With(sources, Recorded', kept)
        /\ manifest' = manifest /\ Recorded' \notin manifest
    BY <1>5, Placed DEF WorkspaceInv
  <2>. QED
    BY <1>3, <2>1, <2>2, AppendKeeps
<1>6. ASSUME ReplaceManifest PROVE Reconciled(Workspace', i)
  <2>1. /\ registry' = registry /\ sources' = sources /\ manifest' = manifest \cup {Recorded}
        /\ Backed(Mapping, n) /\ Recorded \notin manifest /\ n \in 1 .. n
    BY <1>1, <1>6 DEF ReplaceManifest, WorkspaceInv, RecorderInv
  <2>2. Workspace' = Mapping
    BY <2>1 DEF Workspace, Mapping
  <2>3. ASSUME NEW j \in 1 .. n, j # n PROVE Alike(Workspace, Workspace', j)
    <3>1. EventId(registry, j) # Recorded
      BY <1>1, <2>1, <2>3, DistinctIds DEF Recorded
    <3>. QED
      BY <1>1, <2>1, <3>1, WorkspaceFields DEF Alike
  <2>4. i # n
    <3>1. BaseStatus(Workspace, i) = "RECONCILED"
      BY DEF Reconciled
    <3>. QED
      BY <2>1, <3>1, UnmappedFails, WorkspaceFields DEF Mapped, Recorded
  <2>5. ASSUME n \in Conclusives(Workspace'), BaseStatus(Workspace', n) = "RECONCILED"
        PROVE  registry.events[n].authority # registry.events[i].authority
    <3>1. IsConclusive(registry.events[n])
      BY <2>1, <2>5, WorkspaceFields DEF Conclusives, Outcomes
    <3>2. Reconciled(Workspace', n)
      BY <2>1, <2>2, <3>1, WorkspaceFields DEF Backed
    <3>3. i \in Conclusives(Workspace') /\ BaseStatus(Workspace', i) = "RECONCILED"
      BY <1>2, <2>3, <2>4, AlikeStatus DEF Reconciled
    <3>. QED
      BY <2>1, <2>4, <2>5, <3>2, <3>3, WorkspaceFields DEF Reconciled
  <2>6. Conclusives(Workspace') \subseteq 1 .. n
    BY <1>1, <2>1, WorkspaceFields DEF Conclusives, Outcomes
  <2>. QED
    BY <1>2, <2>1, <2>3, <2>4, <2>5, <2>6, StaysReconciled, WorkspaceFields
<1>7. ASSUME RollBack PROVE Reconciled(Workspace', i)
  <2>1. PICK e \in Event : registry = Appended(registry', e)
    BY <1>7 DEF RollBack, WorkspaceInv, RecorderInv
  <2>2. /\ manifest' = manifest /\ Recorded \notin manifest
        /\ sources' = Restrict(sources, DOMAIN sources \ {Recorded})
    BY <1>7 DEF RollBack, WorkspaceInv, RecorderInv
  <2>3. /\ registry' \in Registry /\ registry'.events \in Seq(Event)
        /\ registry.events = Append(registry'.events, e) /\ Len(registry'.events) \in Nat
    BY <1>3, <2>1 DEF Sound, Registry, Appended
  <2>4. /\ DOMAIN registry'.events = 1 .. Len(registry'.events) /\ n = Len(registry'.events) + 1
        /\ \A j \in DOMAIN registry'.events : registry'.events[j] = registry.events[j]
    BY <2>3
  <2>5. ASSUME NEW j \in DOMAIN registry'.events PROVE Alike(Workspace, Workspace', j)
    <3>0. /\ j \in DOMAIN registry.events /\ j # n
          /\ \A k \in 1 .. j : registry'.events[k] = registry.events[k]
      BY <1>1, <2>3, <2>4
    <3>1. EventId(registry', j) = EventId(registry, j)
      BY <1>1, <2>3, <3>0, SameIds
    <3>2. EventId(registry, j) # Recorded
      BY <1>1, <2>4, <3>0, DistinctIds DEF Recorded
    <3>3. /\ EventId(registry, j) \in DOMAIN sources' <=> EventId(registry, j) \in DOMAIN sources
          /\ EventId(registry, j) \in DOMAIN sources
             => sources'[EventId(registry, j)] = sources[EventId(registry, j)]
      BY <2>2, <3>2 DEF Restrict
    <3>. QED
      BY <2>2, <2>4, <3>0, <3>1, <3>3, WorkspaceFields DEF Alike
  <2>6. i \in DOMAIN registry'.events
    BY <1>2, <2>3, <2>4
  <2>7. Conclusives(Workspace') \subseteq DOMAIN registry'.events
    BY WorkspaceFields DEF Conclusives, Outcomes
  <2>. QED
    BY <2>5, <2>6, <2>7, StaysReconciled
<1>8. ASSUME UNCHANGED <<registry, manifest, sources>> PROVE Reconciled(Workspace', i)
  BY <1>8 DEF Workspace
<1>. QED
  BY <1>4, <1>5, <1>6, <1>7, <1>8
  DEF Next, vars, workspace, AddRoot, AuthorizeIssuer, RevokeIssuer, Administer, IssueAudit,
      ProvideAttestation, RecorderDies, BeginSnapshot, RepeatSnapshot, InspectWorkspace,
      CopyRegistry, CopyManifestAndPublish, WriteReport, ReplayExisting, SnapshotDies

LEMMA InitialWorkspace == Init => WorkspaceInv /\ AuthorityInv
<1>. SUFFICES ASSUME Init PROVE WorkspaceInv /\ AuthorityInv
  OBVIOUS
<1>1. AuthorityInv
  BY DEF Init, EmptyAuthority, AuthorityInv, AuthorityRegistry
<1>2. registry.events = <<>> /\ registry.cases = Report
  BY DEF Init
<1>3. registry \in Sound
  BY <1>2 DEF Init, Sound, Registry, VerifyRegistry
<1>. QED
  BY <1>1, <1>3 DEF Init, Idle, WorkspaceInv, RecorderInv

(* Nothing that happens later - another outcome, a revocation, a rollback, *)
(* a death - takes the reconciliation from a conclusive outcome that has   *)
(* it, as long as the outcome is in the registry.                          *)
THEOREM ReconciledStays == Spec => ReconciledForGood
<1>1. WorkspaceInv /\ AuthorityInv /\ [Next]_vars => WorkspaceInv' /\ AuthorityInv'
  BY WorkspaceSteps, AuthoritySteps
<1>2. WorkspaceInv /\ AuthorityInv /\ [Next]_vars
      => [\A i \in Conclusives(Workspace) :
            Reconciled(Workspace, i) /\ i <= Len(registry'.events)
            => Reconciled(Workspace', i)]_<<registry, manifest, sources>>
  BY StepKeeps
<1>. QED
  BY <1>1, <1>2, InitialWorkspace, PTL DEF Spec, ReconciledForGood

-----------------------------------------------------------------------------
(* The snapshot.                                                           *)

SnapInv ==
  /\ snap.pc \in {"idle", "keyed", "inspected", "copying", "unwritten", "written",
                  "answered", "refused"}
  /\ ~ Resting => snap.key \in Registry
  /\ snap.pc \in {"inspected", "copying"} => snap.seen.manifest \subseteq manifest
  /\ snap.pc = "copying" => snap.copied \in Sound

PackagesInv ==
  /\ \A key \in DOMAIN packages :
        /\ key \in Registry
        /\ packages[key].files.registry \in Sound
        /\ IsFiles(packages[key].files)
        /\ packages[key].eligible => Eligible(packages[key].files)
  /\ DOMAIN reports \subseteq Registry

CountsInv == attested \in BOOLEAN /\ taken \in 0 .. MaxSnapshots /\ crashes \in 0 .. MaxCrashes

IInv == WorkspaceInv /\ AuthorityInv /\ SnapInv /\ PackagesInv /\ CountsInv

LEMMA ManifestGrows ==
  ASSUME [Next]_vars
  PROVE  manifest \subseteq manifest'
BY DEF Next, vars, workspace, AddRoot, AuthorizeIssuer, RevokeIssuer, Administer, IssueAudit,
       ProvideAttestation, Review, RecordOutcome, ReplaceManifest, RollBack, RecorderDies,
       BeginSnapshot, RepeatSnapshot, InspectWorkspace, CopyRegistry, CopyManifestAndPublish,
       WriteReport, ReplayExisting, SnapshotDies

LEMMA StagedFiles ==
  ASSUME WorkspaceInv, SnapInv, snap.pc = "copying"
  PROVE  Staged.registry \in Sound /\ IsFiles(Staged)
<1>1. snap.seen.manifest \subseteq manifest /\ snap.copied \in Sound
  BY DEF SnapInv
<1>2. /\ Staged.registry = snap.copied /\ Staged.manifest = manifest
      /\ Staged.sources = Restrict(sources, snap.seen.manifest)
  BY DEF Staged
<1>3. Staged.registry \in Registry
  BY <1>1, <1>2 DEF Sound
<1>. QED
  BY <1>1, <1>2, <1>3 DEF IsFiles, Restrict, WorkspaceInv

LEMMA SnapSteps ==
  ASSUME IInv, [Next]_vars
  PROVE  SnapInv' /\ PackagesInv'
<1>. USE DEF IInv
<1>1. registry \in Registry
  BY DEF WorkspaceInv, Sound
<1>2. ASSUME UNCHANGED <<snap, packages, reports>> PROVE SnapInv' /\ PackagesInv'
  BY <1>2, ManifestGrows DEF SnapInv, PackagesInv, Resting
<1>3. ASSUME BeginSnapshot PROVE SnapInv' /\ PackagesInv'
  BY <1>1, <1>3 DEF BeginSnapshot, published, SnapInv, PackagesInv
<1>4. ASSUME RepeatSnapshot PROVE SnapInv' /\ PackagesInv'
  BY <1>1, <1>4 DEF RepeatSnapshot, published, SnapInv, PackagesInv, Resting
<1>5. ASSUME InspectWorkspace PROVE SnapInv' /\ PackagesInv'
  <2>1. Inspection.manifest = manifest /\ manifest' = manifest
    BY <1>5 DEF InspectWorkspace, Inspection, workspace
  <2>. QED
    BY <1>5, <2>1 DEF InspectWorkspace, published, SnapInv, PackagesInv, Resting
<1>6. ASSUME CopyRegistry PROVE SnapInv' /\ PackagesInv'
  BY <1>6 DEF CopyRegistry, workspace, published, WorkspaceInv, SnapInv, PackagesInv, Resting
<1>7. ASSUME CopyManifestAndPublish PROVE SnapInv' /\ PackagesInv'
  <2>1. snap.pc = "copying" /\ snap.key \in Registry /\ reports' = reports
    BY <1>7 DEF CopyManifestAndPublish, SnapInv, Resting
  <2>2. SnapInv'
    BY <1>7, <2>1 DEF CopyManifestAndPublish, SnapInv, Resting
  <2>3. CASE packages' = packages
    BY <2>1, <2>2, <2>3 DEF PackagesInv
  <2>4. CASE packages' = With(packages, snap.key, [files |-> Staged, eligible |-> Eligible(Staged)])
    <3>. DEFINE new == [files |-> Staged, eligible |-> Eligible(Staged)]
    <3>1. /\ new.files.registry \in Sound /\ IsFiles(new.files)
          /\ new.eligible => Eligible(new.files)
      BY <2>1, StagedFiles
    <3>. HIDE DEF new
    <3>2. ASSUME NEW key \in DOMAIN packages'
          PROVE  key \in Registry /\ packages'[key] \in {new} \cup {packages[k] : k \in DOMAIN packages}
      BY <2>1, <2>4 DEF With, PackagesInv, new
    <3>. QED
      BY <2>1, <2>2, <3>1, <3>2 DEF PackagesInv
  <2>. QED
    BY <1>7, <2>3, <2>4 DEF CopyManifestAndPublish
<1>8. ASSUME WriteReport PROVE SnapInv' /\ PackagesInv'
  <2>1. snap.key \in Registry /\ packages' = packages /\ DOMAIN reports' = DOMAIN reports \cup {snap.key}
    BY <1>8 DEF WriteReport, SnapInv, Resting, With
  <2>2. snap'.pc \in {"answered", "refused"}
    BY <1>8 DEF WriteReport, Answer
  <2>. QED
    BY <2>1, <2>2 DEF SnapInv, PackagesInv, Resting
<1>9. ASSUME ReplayExisting PROVE SnapInv' /\ PackagesInv'
  BY <1>9 DEF ReplayExisting, Answer, published, SnapInv, PackagesInv, Resting
<1>10. ASSUME SnapshotDies PROVE SnapInv' /\ PackagesInv'
  BY <1>10 DEF SnapshotDies, Idle, published, SnapInv, PackagesInv, Resting
<1>11. \/ UNCHANGED <<snap, packages, reports>>
       \/ BeginSnapshot \/ RepeatSnapshot \/ InspectWorkspace \/ CopyRegistry
       \/ CopyManifestAndPublish \/ WriteReport \/ ReplayExisting \/ SnapshotDies
  BY DEF Next, vars, published, AddRoot, AuthorizeIssuer, RevokeIssuer, Administer, IssueAudit,
         ProvideAttestation, Review, RecordOutcome, ReplaceManifest, RollBack, RecorderDies
<1>. QED
  BY <1>2, <1>3, <1>4, <1>5, <1>6, <1>7, <1>8, <1>9, <1>10, <1>11

LEMMA CountsSteps ==
  ASSUME CountsInv, [Next]_vars
  PROVE  CountsInv'
<1>1. /\ attested' = attested \/ attested' = TRUE
      /\ taken' = taken \/ (taken < MaxSnapshots /\ taken' = taken + 1)
      /\ crashes' = crashes \/ (crashes < MaxCrashes /\ crashes' = crashes + 1)
  BY DEF Next, vars, workspace, AddRoot, AuthorizeIssuer, RevokeIssuer, Administer, IssueAudit,
         ProvideAttestation, Review, RecordOutcome, ReplaceManifest, RollBack, RecorderDies,
         BeginSnapshot, RepeatSnapshot, InspectWorkspace, CopyRegistry, CopyManifestAndPublish,
         WriteReport, ReplayExisting, SnapshotDies
<1>2. MaxSnapshots \in Nat /\ MaxCrashes \in Nat
  BY PackagesAssumption
<1>3. attested' \in BOOLEAN
  BY <1>1, Zenon DEF CountsInv
<1>4. taken' \in 0 .. MaxSnapshots /\ crashes' \in 0 .. MaxCrashes
  BY <1>1, <1>2 DEF CountsInv
<1>. QED
  BY <1>3, <1>4, Zenon DEF CountsInv

LEMMA Inductive == Spec => []IInv
<1>1. Init => IInv
  <2>. SUFFICES ASSUME Init PROVE IInv
    OBVIOUS
  <2>1. SnapInv /\ PackagesInv /\ CountsInv
    <3>1. snap.pc = "idle" /\ Resting
      BY DEF Init, Idle, Resting
    <3>2. DOMAIN packages = {} /\ DOMAIN reports = {}
      BY DEF Init
    <3>3. MaxSnapshots \in Nat /\ MaxCrashes \in Nat
      BY PackagesAssumption
    <3>4. taken \in 0 .. MaxSnapshots /\ crashes \in 0 .. MaxCrashes
      BY <3>3 DEF Init
    <3>5. CountsInv
      BY <3>4, Zenon DEF Init, CountsInv
    <3>. QED
      BY <3>1, <3>2, <3>5 DEF SnapInv, PackagesInv
  <2>. QED
    BY <2>1, InitialWorkspace DEF IInv
<1>2. IInv /\ [Next]_vars => IInv'
  <2>. SUFFICES ASSUME IInv, [Next]_vars PROVE IInv'
    OBVIOUS
  <2>1. WorkspaceInv' /\ AuthorityInv' /\ CountsInv'
    BY WorkspaceSteps, AuthoritySteps, CountsSteps DEF IInv
  <2>. QED
    BY <2>1, SnapSteps DEF IInv
<1>. QED
  BY <1>1, <1>2, PTL DEF Spec

(* The variables keep their types.                                         *)
THEOREM TypeCorrect == Spec => []TypeOK
<1>1. IInv => TypeOK
  <2>. SUFFICES ASSUME IInv PROVE TypeOK
    OBVIOUS
  <2>1. registry \in Registry /\ (recorder # Idle => recorder.from \in Registry)
    BY DEF IInv, WorkspaceInv, RecorderInv, Sound
  <2>2. IsFiles(Workspace)
    BY <2>1, WorkspaceFields DEF IInv, WorkspaceInv, IsFiles
  <2>3. recorder.pc \in {"idle", "registry"}
    BY DEF IInv, WorkspaceInv, RecorderInv, Idle
  <2>4. DOMAIN reports \subseteq Registry
        /\ \A key \in DOMAIN packages : key \in Registry /\ IsFiles(packages[key].files)
    BY DEF IInv, PackagesInv
  <2>. QED
    BY <2>1, <2>2, <2>3, <2>4 DEF IInv, TypeOK, AuthorityInv, SnapInv, CountsInv
<1>. QED
  BY <1>1, Inductive, PTL

-----------------------------------------------------------------------------
(* Eligible packages.                                                      *)

LEMMA CasesFinite ==
  ASSUME NEW files, files.registry \in Registry, NEW positions \in SUBSET DOMAIN files.registry.events
  PROVE  IsFiniteSet(CasesOf(files, positions))
<1>. DEFINE f == [i \in positions |-> files.registry.events[i].case]
<1>1. files.registry.events \in Seq(Event)
  BY DEF Registry
<1>2. Len(files.registry.events) \in Nat
      /\ DOMAIN files.registry.events = 1 .. Len(files.registry.events)
  BY <1>1
<1>3. IsFiniteSet(DOMAIN files.registry.events)
  BY <1>2, FS_Interval
<1>4. IsFiniteSet(positions)
  BY <1>3, FS_Subset
<1>5. f \in Surjection(positions, CasesOf(files, positions))
  BY DEF Surjection, CasesOf
<1>. QED
  BY <1>4, <1>5, FS_Surjection

(* A reconciled audit that found its case safe was earned.                 *)
LEMMA ReconciledIsEarned ==
  ASSUME NEW files, files.registry \in Sound, IsFiles(files), NEW i \in Audits(files),
         BaseStatus(files, i) = "RECONCILED", files.registry.events[i].verdict = "SAFE"
  PROVE  EarnedAudit(files, i)
<1>. DEFINE e == files.registry.events[i]
            id == SubSeq(files.registry.events, 1, i)
            artifact == Artifact[e.authority]
            kept == files.sources[id]
<1>1. i \in DOMAIN files.registry.events /\ e.type = "OUTCOME" /\ e.authority \in Audit
  BY DEF Audits, Conclusives, Outcomes, IsOutcome
<1>2. AuditStatus(files, i) = "RECONCILED"
  BY <1>1 DEF BaseStatus
<1>3. /\ id \in files.manifest /\ id \in DOMAIN files.sources
      /\ artifact.case = e.case /\ artifact.verdict = e.verdict
      /\ ProvenanceHolds(e, kept)
  BY <1>2 DEF AuditStatus, Mapped, EventId
<1>4. /\ artifact.grant.issuer = e.actor
      /\ CapturedAt[e.case] <= artifact.at /\ artifact.at <= e.at
      /\ artifact.grant \in kept.grants /\ ActiveAt(kept, artifact.grant, artifact.at)
  <2>1. CapturedAt[e.case] \in Nat /\ artifact.at \in Nat
    <3>1. e \in Event
      BY <1>1 DEF Sound, Registry
    <3>. QED
      BY <1>1, <3>1, EvidenceAssumption DEF Event
  <2>. QED
    BY <1>1, <1>3, <2>1, EvidenceAssumption DEF ProvenanceHolds, Binds
<1>5. ASSUME NEW revocation \in kept.revocations, revocation.grant = artifact.grant
      PROVE  ~ (revocation.effective <= artifact.at)
  <2>1. artifact.at < revocation.effective
    BY <1>4, <1>5 DEF ActiveAt
  <2>2. artifact.at \in Nat
    BY <1>1, EvidenceAssumption
  <2>3. kept \in AuthorityRegistry
    BY <1>3 DEF IsFiles
  <2>4. revocation.effective \in Nat
    BY <2>3, EvidenceAssumption DEF AuthorityRegistry, Revocation
  <2>. QED
    BY <2>1, <2>2, <2>4
<1>6. ASSUME NEW j \in 1 .. i - 1, files.registry.events[j].type = "HUMAN_DECISION",
             files.registry.events[j].case = e.case
      PROVE  files.registry.events[j].actor # e.actor
  <2>1. IsAudit(e)
    BY <1>1 DEF IsAudit, Audits, Conclusives, Audit
  <2>2. VerifyRegistry(files.registry)
    BY DEF Sound
  <2>. QED
    BY <1>1, <1>6, <2>1, <2>2 DEF VerifyRegistry
<1>. QED
  BY <1>1, <1>3, <1>4, <1>5, <1>6 DEF EarnedAudit

(* Every package said to be eligible earns it: TLC counts the audits of a  *)
(* few cases, here the cases and the threshold are any.                    *)
THEOREM EligibilityIsEarned == Spec => []EligibleIsEarned
<1>1. IInv => EligibleIsEarned
  <2>. SUFFICES ASSUME IInv, NEW key \in DOMAIN packages, packages[key].eligible
                PROVE  LET files == packages[key].files
                           events == files.registry.events
                           earned == {c \in R0 : \E i \in DOMAIN events :
                                        events[i].case = c /\ EarnedAudit(files, i)}
                           unsafe == {events[i].case :
                                        i \in {j \in DOMAIN events : events[j].verdict = "UNSAFE"}}
                       IN  /\ Cardinality(earned) >= Minimum.audited
                           /\ unsafe # {} /\ unsafe \cap R0 = {}
    BY DEF EligibleIsEarned
  <2>. DEFINE files == packages[key].files
              events == files.registry.events
              earned == {c \in R0 : \E i \in DOMAIN events :
                           events[i].case = c /\ EarnedAudit(files, i)}
              unsafe == {events[i].case :
                           i \in {j \in DOMAIN events : events[j].verdict = "UNSAFE"}}
  <2>1. files.registry \in Sound /\ IsFiles(files) /\ Eligible(files)
    BY DEF IInv, PackagesInv
  <2>2. files.registry \in Registry
        /\ \A i \in DOMAIN events : ~ IsOutcome(events[i]) => events[i].verdict = None
    BY <2>1 DEF Sound
  <2>. HIDE DEF files
  <2>3. /\ Cardinality(R0 \cap CasesOf(files, WithVerdict(files, "UNSAFE"))) = 0
        /\ Cardinality(CasesOf(files, WithVerdict(files, "UNSAFE"))) > 0
        /\ Cardinality(VerifiedAudits(files)) >= Minimum.audited
    BY <2>1 DEF Eligible, Observation
  <2>4. unsafe = CasesOf(files, WithVerdict(files, "UNSAFE"))
    <3>1. None # "UNSAFE"
      BY ComparisonAssumption DEF Verdict, Conclusive
    <3>2. WithVerdict(files, "UNSAFE") = {j \in DOMAIN events : events[j].verdict = "UNSAFE"}
      BY <2>2, <3>1 DEF WithVerdict, Outcomes
    <3>. QED
      BY <3>2 DEF CasesOf
  <2>5. IsFiniteSet(unsafe)
    <3>1. WithVerdict(files, "UNSAFE") \in SUBSET DOMAIN events
      BY DEF WithVerdict, Outcomes
    <3>. QED
      BY <2>2, <2>4, <3>1, CasesFinite
  <2>6. unsafe # {} /\ R0 \cap unsafe = {}
    <3>1. IsFiniteSet(R0 \cap unsafe)
      BY <2>5, FS_Subset
    <3>2. Cardinality(R0 \cap unsafe) = 0 /\ Cardinality(unsafe) > 0
      BY <2>3, <2>4
    <3>. HIDE DEF unsafe
    <3>. QED
      BY <2>5, <3>1, <3>2, FS_EmptySet
  <2>7. VerifiedAudits(files) \subseteq earned
    <3>. SUFFICES ASSUME NEW c \in VerifiedAudits(files) PROVE c \in earned
      OBVIOUS
    <3>1. PICK i \in Audits(files) : Reconciled(files, i) /\ events[i].case = c /\ c \in R0
      BY DEF VerifiedAudits, CasesOf
    <3>2. i \in DOMAIN events /\ events[i].verdict \in {"SAFE", "UNSAFE"}
      BY DEF Audits, Conclusives, Outcomes, IsConclusive, Conclusive
    <3>3. events[i].verdict # "UNSAFE"
      BY <2>6, <3>1, <3>2
    <3>4. EarnedAudit(files, i)
      BY <2>1, <3>1, <3>2, <3>3, ReconciledIsEarned DEF Reconciled
    <3>. QED
      BY <3>1, <3>2, <3>4
  <2>8. IsFiniteSet(earned)
    <3>1. IsFiniteSet(CasesOf(files, DOMAIN events))
      BY <2>2, CasesFinite
    <3>2. earned \in SUBSET CasesOf(files, DOMAIN events)
      BY DEF CasesOf
    <3>. QED
      BY <3>1, <3>2, FS_Subset
  <2>9. Cardinality(VerifiedAudits(files)) <= Cardinality(earned)
        /\ Cardinality(VerifiedAudits(files)) \in Nat /\ Cardinality(earned) \in Nat
    BY <2>7, <2>8, FS_Subset, FS_CardinalityType
  <2>10. Minimum.audited \in Nat
    BY EvidenceAssumption
  <2>. HIDE DEF earned, unsafe
  <2>11. Cardinality(earned) >= Minimum.audited /\ unsafe # {} /\ unsafe \cap R0 = {}
    BY <2>3, <2>6, <2>9, <2>10
  <2>. QED
    BY <2>11 DEF files, earned, unsafe
<1>. QED
  BY <1>1, Inductive, PTL
=============================================================================
