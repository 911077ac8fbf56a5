# Verification of the Project Intelligence Engine

TLA+ models, TLC runs and TLAPS proofs about the program under `src/`
(`src/src/review_system`, Python). The program is a set of short-lived commands
that read governed files (JSON, YAML, an SQLite projection), compute new contents
and put them in place. There is no daemon and almost no locking: what can go wrong
is in the order of file operations, in what a failed or dead command leaves behind,
in commands that overlap, and in the guards that keep a history legal.

## Inventory

Paths are relative to `src/src/review_system`.

| Component | State | Operations | What is hard | What makes it correct |
|---|---|---|---|---|
| Policy Registry (`policy_registry.py`) | registry file, materialized rule file | build, approve, retire, materialize | two files replaced one after the other, rollback, crash, overlapping operators, clocks | linear lineage, legal histories, no draft rules in force, reported changes stay |
| Prospective campaign workspace (`trust_prospective_*.py`) | comparison registry, source manifest, evidence directories | intake, submit review, record outcome, reconcile | three places to commit and to undo, no lock, rmtree in rollbacks, crash | all or nothing, evidence behind every record, one assessment per task, one decision per packet |
| Trust comparison (`trust_comparison.py`) | assessments, event history | decide, record outcome, verify | order of decisions and outcomes, actor independence | verified history, monotone levels |
| Source reconciliation (`trust_reconciliation*.py`) | none (pure) | replay sources against the registry | what counts as complete | a record reconciles with its own sources only |
| Defect Registry (`defects.py`) | registry JSON, shared temporary file, rows in the ledger | create, link finding, link artifact, transition, sync | registry then database, same-second ordering, shared temporary name | legal histories, closure with evidence, ledger equals registry |
| Evidence Ledger (`ledger.py`) | SQLite projection of run directories and registries | import, rebuild, verify | reads before the transaction, foreign keys, whole-file replacement | import is all or nothing, rebuild equals incremental import |
| Rule learning and approval (`intelligence_learning.py`, `application/approve_rule.py`, `io.py`) | candidate and approved rule files, lock file | discover, merge, approve | state read before the lock, lock left behind | approved once, none lost |
| Review run and gate (`run.py`, `gate.py`, `validation.py`, `merge.py`, `identity.py`) | run directory, identity and content manifests, gate decision | initialize, merge, sync, gate, archive | files changing between check and use, commands that die between files | findings, gate, identity, manifest of an archive agree |
| Audit authority (`trust_audit.py`) | roots, grants, revocations | add root, authorize, revoke, issue, evaluate | validity intervals, retroactive revocation | only audits under an active grant count |
| Observation (`trust_observation.py`) | none (pure over documents) | count, compare with thresholds | zero denominators, precedence of reasons | ready means every threshold on reconciled evidence |
| Evidence acquisition, pilot review, snapshots (`trust_evidence_acquisition.py`, `trust_pilot_*.py`, `trust_prospective_report.py`) | packages and their reports | inspect, populate, publish, replay, review | files copied one by one while they are written, partial snapshots, three reconcilers of one file | an eligible package has earned it, and so has the campaign it is taken from |
| Trust assessment (`trust.py`, the analysers) | the report file | assess, verify, replay | files read one after the other, six risk models, precedence of reasons | a report verifies, a replay accepts only evidence that was there, growth never lowers a risk |
| Execution boundaries (`trust_execution_*.py`) | a pull request at GitHub; documents | mark ready, roll back; request, dry run, assess, report, review | the target moves around a call, calls fail after their effect, documents edited and sealed again | no receipt for a stray call unless the branch was reset, passes are earned |
| Operational review and outcome actions (`operational_*_action.py`) | GitHub artifacts | discover, replay, select, submit | repeated dispatches, artifacts that expire, a pull request that moves | one answer per packet, context, assessment and action |
| Operational policy (`operational_policy*.py`) | policy snapshot of an analysis directory | bind, explain, overlap | the base moves between runs, ambiguous classes | the policy of the base decides |
| Prospective automation and bridge (`prospective_*.py`, `github_prospective_capture.py`) | analysis directories, workspace, bundles, projected workspaces | capture, bundle, bridge; project assessments and events | runs repeated over what an earlier one left, projections that fail half way | a retry finds its report, a bundle is whole, a projection is a prefix of its source and catches up |
| GitHub connector (`github/`) | none | run with retry, paginate, collect | several calls about a pull request that moves, retries, partial pages | what is collected is of one moment |
| CI workflows (`src/.github/workflows`) | runs of CI | start the commands above | concurrency groups, cancelled runs, dead runners | see the operational actions |
| Project intelligence, reground, evaluation, buildmap, calibration, shadow reports, CLI | documents | pure functions from files to documents | little state | not modelled |

How they interact: review runs produce directories; the ledger imports them; defects
link ledger findings and artifacts and are synchronised back into the ledger. Rule
approval and the policy registry decide the rules of a run. Trust reports enter the
prospective campaign by intake, GitHub artifacts carry review and outcome actions
that are projected onto campaign workspaces, snapshots of workspaces feed
reconciliation, observation and pilot review. All communication is by files; two
commands meet only when they work on the same file.

## Modules

| Module | Models |
|---|---|
| `PolicyDocument` | content of the policy registry, its verifier, the three transformations (`policy_registry.py`) |
| `PolicyRegistry` | operators that run commands: read, compute, stage, replace registry, replace view, roll back, die |
| `PolicyLifecycle` | abstract specification: one indivisible lifecycle step at a time |
| `PolicyOverlap` | `PolicyRegistry` with a history variable: two commands have overlapped |
| `PolicyRegistryProofs` | theorems about `PolicyDocument`, `PolicyRegistry` and `PolicyOverlap`, the refinement of `PolicyLifecycle` among them |
| `TrustComparison` | comparison registry: cases, decisions, outcomes, the guards and the verifier (`trust_comparison.py`) |
| `SourceReconciliation` | source manifest, evidence directories, what reconciles (`trust_reconciliation*.py`) |
| `ProspectiveCampaign` | processes that take in cases, submit reviews and record outcomes (`trust_prospective_*.py`) |
| `CampaignOverlap` | `ProspectiveCampaign` with a history variable: two commands have overlapped |
| `ProspectiveCampaignProofs` | theorems about `ProspectiveCampaign` and `CampaignOverlap` |
| `DefectDocument` | content of the defect registry, its validator, what the commands compute (`defects.py`) |
| `EvidenceLedger` | content of the ledger: imported runs, the projected registry, import, projection, verification (`ledger.py`) |
| `DefectLedger` | processes that record defects, synchronise, import and rebuild |
| `DefectLedgerProofs` | theorems about `DefectLedger` |
| `RuleApproval` | approvals under the lock file, editors of the candidate file without it (`application/approve_rule.py`, `io.py`) |
| `RuleApprovalProofs` | theorems about `RuleApproval` and `TrustAssessment` |
| `AuditAuthority` | content of the audit authority registry: roots, grants, revocations, which audits bind (`trust_audit.py`) |
| `R0Evidence` | what a set of files amounts to: reconciliation of outcomes, observation, campaign status, pilot review (extends `TrustComparison`, instances `AuditAuthority`) |
| `EvidencePackages` | administrator, issuers, reviewer, recorder and the snapshot that copies the workspace against them |
| `EvidencePackagesProofs` | theorems about `EvidencePackages`, `R0Evidence` and `AuditAuthority` |
| `ReviewRun` | one run directory: edits by hand, merge, sync, gate, archive, file by file (`run.py`, `gate.py`, `identity.py`) |
| `ReviewRunProofs` | theorems about `ReviewRun` and `CampaignProjection` |
| `TrustAssessment` | the six risk models, the analysers, one assessment reading its files, verification and replay (`trust.py`) |
| `GovernedExecution` | the governed adapter against a pull request that moves, and the documents of the execution boundary (`trust_execution_*.py`) |
| `ProspectiveRun` | one pull request from GitHub to a bundle, repeated over what earlier runs left (`prospective_automation.py`, `github/collector.py`, `operational_policy_binder.py`) |
| `ProspectiveRunProofs` | theorems about `ProspectiveRun` |
| `OperationalLoop` | the four workflows AUTO-2, ORL-4, ORL-5, ORL-6 that hand each other artifacts (`operational_*_action.py`, `prospective_trust_bridge.py`) |
| `OperationalLoopProofs` | theorems about `OperationalLoop` and `GovernedExecution` |
| `CampaignProjection` | AUTO-4B and AUTO-4C: assessments and events of source workspaces replayed onto a campaign |
| `MC...` | small instances for TLC |

Three proof modules extend two components that share no name and no variable; their parts
do not use each other. For that reason the specifications of `TrustAssessment`,
`GovernedExecution` and `CampaignProjection` are called `TrustSpec`, `GovernedSpec` and
`ProjectionSpec`, and their initial states and steps accordingly.

Where they meet: `ProspectiveRun` ends where the bridge of `OperationalLoop` uploads its
packet; the decisions of `OperationalLoop` are the events of a source workspace that
`CampaignProjection` replays onto the workspace that `ProspectiveCampaign` describes
command by command; its snapshots are `EvidencePackages`. Reports of `TrustAssessment`
are the `Report`s a campaign takes in.

### Policy Registry

`registry` and `view` are the two files; `pc` and `job` hold where each command is and
what it has computed. A command reads and verifies the registry, checks its guards,
computes the new content and verifies it in one step (nothing else is read), reads the
originals (`Stage`), replaces the registry, replaces the view, and reports. An error
before the first replacement only removes temporary files (`FailClean`); an error at the
second puts the registry back, by unlinking it or by truncating (`Torn`) and rewriting it.
`Crash` may happen in any phase. `acked` and `crashed` are history variables.

Abstractions: a policy identity is the hash of its version, parent, rules and evaluation,
so those are functions of the identity, and `Evaluated` are the policies whose report
passed on their rules. Approval and retirement records repeat an event's actor and time
and are represented by the event. There is one materialized path. Rule approval, which
can write the same file, is not part of the model.

`PolicyLifecycle` is implemented under the mapping *book = the registry, or the originals
while a command is between its two replacements*: a command takes effect with its last
replacement, or when the process dies after the first.

### Prospective campaign

`registry` and `manifest` are the two files, `dirs` the evidence directories in place
(case, review archive, outcome). A process reads the registry (`Read`), decides
(`Intake`, `SubmitReview`, `RecordOutcome`, which read the manifest), places its
directory, replays the new contents, reads the originals, replaces registry and
manifest, and loads both again (`Check`); a review reads the registry a second time
and replaces it alone. Errors undo what was done (`GiveUp`, `RestoreRegistry`,
`RestoreManifest`, `Clean`); rmtree of a case removes what lies below it. A rollback
itself meets no second I/O error.

Abstractions: an event's identity is the history up to it. Clocks satisfy the timestamp
checks against the packet and the report. Review levels, bands and metrics are left out.
Documents are fixed once stored, so what an authority document supports is a constant
relation. A packet is prepared when the sources are complete. `record_case_review` is
reached through a packet submission only.

### Defect Registry and Evidence Ledger

`registry` is the registry file, `tmp` its temporary file (one name for all writers),
`ledger` the committed database, `dirs` the run directories. A defect command loads the
registry (`Load`), looks the evidence up in the ledger, computes and validates the new
content (`CreateDefect`, `LinkFinding`, `LinkArtifact`, `TransitionDefect`), truncates,
writes and moves the temporary file (`Open`, `Write`, `Move`) and synchronises
(`LoadForSync`, `ProjectRegistry`): the registry is read before the transaction, the
transaction looks every link up again. A writer whose temporary file another one moved
keeps writing into the moved file (`handle`). An import reads the manifest (`ImportRun`)
and, in its transaction, the findings (`CommitImport`). A rebuild imports what it is
given into a new database, verifies it and moves it over the old one. `Stop` is a
refusal, an error or a death: only the transaction and the temporary database are
undone. `ChangeRun` is the work on a run directory between the commands.

Abstractions: events are sorted by their second and an unknown hash, so a new event may
land anywhere within its second. Rows of decisions, policies and defects are functions
of the imported contents and the projected registry; the run a defect was seen in is
the run of a finding it links. A repeated link changes nothing and is left out. One
rebuild runs at a time. Titles, owners and root causes are left out.

### Rule approval

`candidates` and `approved` are the two rule files, `lock` the lock file. An approval
reads both files and computes before it takes the lock (`ReadCandidates`, `Approve`,
`TakeLock`), reads the originals inside (`Stage`, where an error leaves the lock file
behind), replaces the approved file, then the candidate file, and removes the lock file.
Errors roll back (`Unwind`, `RollBack`, `Restore`); an interrupt between the
replacements does not, and a rollback that can neither open nor remove the approved file
leaves it as it is (`LeaveInPlace`); a death leaves everything (`Die`). Editors rewrite
the candidate file without the lock: rediscovery in place, in two steps, so that others
may load the first half of it, and the attachment of an evaluation by a replacement.
Rejected stands for rejected and retired, which people write by hand.

### Audit authority and evidence packages

`authority` is the audit authority registry, `issued` the audit artifacts, `registry`,
`manifest` and `sources` the workspace: for every outcome directory, the authority
registry copied with the audit (`trust_prospective_mutation.py:206`). An outcome is
judged by that copy for ever, not by the authority registry of the day. `recorder` is
the state of `record_case_outcome` between its two replacements. `snap` is the state of
`snapshot_campaign`: it reads the registry whose hash names package and report
(`BeginSnapshot`, or `RepeatSnapshot` when the name is taken), inspects the workspace,
copies registry, manifest and sources (`CopyRegistry`, `CopyManifestAndPublish`), writes
the report and replays it against the workspace (`WriteReport`, `ReplayExisting`).
`packages` and `reports` are what it leaves, also when it dies. Reconciliation,
observation, campaign status and pilot review are operators on any such set of files
(`R0Evidence`), since the code applies them to the workspace, to a candidate, and to a
package.

Abstractions: the workspace has one writer at a time; `ProspectiveCampaign` interleaves
them. An outcome's directory is put in place together with the first replacement,
because nothing looks at it before the manifest maps it. What follows the last copy
works on files of the snapshot's own up to the rename, so the rename belongs to that
step. The authority registry handed to `record-outcome` is the current one. A registry's
hash is the registry. All cases are captured and their sources reconcile. The evidence
span and the agreement of reviewers with predicted bands are left out of the thresholds.
Entries of the authority registry are their contents, and the registry is older than
all timestamps in it.

### Review run

`file` holds the files of one run directory by name, `intact` whether the protected files
are as the baseline saw them. Reviewers write findings and check results into the files
by hand; `sync-run`, `calculate-gate-dir` and `archive-run` load `run.json` into memory
(`mem`) and rewrite the directory file by file, in the order of the code, and may die
between two files. A gate overwrites `run.json` from its memory, an archive rewrites
identity and manifest before it packs. `touched` remembers an edit under a command.

Abstractions: profile, pack lock and companion inputs do not change after `init-run`;
time stamps are left out; a JSON file is written whole.

### Trust assessment

An assessment reads the request, then the profile, then the captured pull request and
its diff once for each of the three analysers, then the evidence files; whoever prepares
them replaces them in between (`WriteRequest`, `WriteProfile`, `CaptureSource`,
`CaptureDiff`, `WriteDocs`). `Risk` is `derive_risk` for each of the models 1.0 to 1.5:
the class of every path by name, replaced by what the analysers found, raised by
protected paths, packs and labels. `ReportVerifies` derives a report anew from its own
evidence. A replay (`BeginReplay`, `verify_trust_report_sources`) is such an assessment once
more, by the model of the report, with all its readings one by one; at the end its result is
compared with the report (`Replays`). `seen` are the diffs that were there while it ran.

Abstractions: a path is the facts its name decides, a patch the signals the analysers
look for; hashes are identities; thresholds are compared exactly where the code rounds;
only the review packs a corroboration looks at are kept.

### Governed execution

`pr` is the pull request; `op` where each operator's adapter is: the reading before, the
call, the reading after. Authors push, close, merge and convert at any time; a call may
fail with or without its effect, or return without one. The documents (request, dry run,
boundary, calibration, review) are edited and derived anew, and `PassesAreEarned` asks
what a verifier still accepts.

Abstractions: documents are worked on in behaviours of their own; hashes are contents. A
push goes to any other revision, also back to the bound one (`MoveHead`); `resets` counts
these. `rollback_to_draft` is an operation its caller may start; nothing in the repository
does, so nothing promises that a target left ready is rolled back.

### Prospective run

`run` is the command under way: view of the pull request, files and diff in further
calls, the analysis directory of the event's head with its Trust report, the policy of
the base revision, the identity, the case in the workspace, the packet, the bundle. `Stop`
ends it anywhere (a failed call or a death); the next run finds what is there.

The bundle is written one file per step, in the order of the code (`Rank`): the explanation
of an earlier run is removed, then explanation, summary, result and each evidence file are
written over, the manifest last; a run may die between any two.

Abstractions: files and diff are a function of head and base. Pushes may be forced back and
the base may return (`visits` counts how often the pull request has come to each head and
base). `source/execution-identity.json`, a function of the bundle's identity, is left out.
One command at a time.

### Operational loop

`store` is the sequence of uploaded artifacts, `gone` how many of the oldest are listed
no longer (one retention period, FIFO). Runs of one workflow are serial, by the
concurrency group of its workflow file; a new AUTO-2 run cancels the one under way. Each
run discovers, replays artifact by artifact (`...Inspect`), selects, submits, and
uploads; the pull request, its base and the authority revision move between any two
readings, and a runner may die before it uploads.

Abstractions: a decision and an outcome are their source, not their content; replay of
an artifact succeeds or is refused by what the pull request shows.

### Projection of campaign events

`source` are the events of each source workspace, `lineage` to `part` the destination.
A projection tries the whole command on a copy (`Preflight`), checks that the
destination is unchanged (`CheckUnchanged`), and replays event by event: for a review the archive
tree is copied, then the registry is written; an outcome goes through the transport of
declared outcomes with its two-file write. Errors undo the event at hand, not those
before it. `Die` and a torn copy (`CopyFails`) leave everything.

Abstractions: a source holds one case; its registry identity is its creation time.

## Runs

| Run | Instance and bounds | Shows |
|---|---|---|
| `policy_registry` | 2 operators; a root and two children of it; 2 timestamps; crashes unbounded | however commands overlap, no two activated children of one parent, although updates get lost; without overlap: refinement of the lifecycle, reported steps stay, no draft rules in force |
| `campaign` | 2 processes, 3 reports on 2 tasks, 2 packets, 2 authorities, 2 persons, 2 events, 1 crash | one assessment per task, one decision per packet under overlap; without overlap all or nothing, reported records stay with their evidence |
| `defects_ledger` | 1 writer, 1 importer; 2 defects, one of them verified at the start; 1 run with 2 contents; 8 events | what the database links is there, reported links stay, histories are only appended to, later transitions are admitted |
| `rule_approval` | 2 approvers, 1 editor, 2 rules, unbounded errors and deaths | the lock protects the rollback; without overlap, promoted rules are in force and reported approvals stay |
| `evidence_packages` | 2 cases, one of them R0; an audit and two evaluations; 1 grant, 2 possible revocations of it; the auditor is also the reviewer; 4 events; 1 new snapshot name, repeats unbounded; 1 crash | an eligible package has earned it event by event, campaign status and pilot review agree, an eligible answer holds of the campaign as it is, revocations spare earlier audits, what is reconciled stays so |
| `operational_loop` | 2 heads, 2 bases, 2 changes of the pull request, 2 authority revisions, 5 artifacts, 1 dead runner; two workflows at a time, or one while the pull request moves | packets and contexts are answered once also after expiry; listed answers are unique per assessment and action |
| `campaign_projection` | 2 sources, 2 creation times, 2 events, 1 I/O error, 1 death or torn archive, 2 processes | the destination never mixes sources, reported chains stay, errors are undone, repeated commands catch up |
| `review_run` | 2 findings, one fail-level, 4 contents, 2 gate policies, 3 edits and 3 commands, 5 of both | an archive nobody edited under agrees with itself, PASS means clean, a gated run can be archived |
| `trust_assessment` | 8 paths, 6 models; 1 assessment and 1 replacement of any file, or an assessment and a replay with 3 replacements of the pair | reports verify, a replay accepts no evidence of a capture that was not there while it ran, promotion keeps what the shadow announced, growth never lowers |
| `trust_signing` | as `trust_assessment` | finding: signing evidence lowers a path from R4 to R3 |
| `governed_execution` | 2 operators, 2 heads, 4 moves or failures, 3 edits | a stray call gets a receipt only after a reset of the branch, passes are earned |
| `prospective_run` | 2 heads, 3 bases (one without a policy), 2 runs with 2 moves, or with two of a move, an edit and a stop; 1 run with 5 moves | packets are of one moment, assessed under the policy of the base, retries find their report, verified bundles are whole |

No run checks a type invariant: it is part of the invariants that are proved
(`TypeCorrect`, or a conjunct of `IInv`, `ProjectionInv`, `AdapterInv` and the like), and the
runs spend their time on the other properties.

The policy instance needs three policies: two children of one parent compete. Two
timestamps suffice for a clock that steps back between two commands. Operators overlap
once the root and one child are drafted, on a clock that stands still (`Instance`); an
operator alone has every order of drafts and both timestamps. The histories `acked` and
`crashed` matter only while nobody has overlapped, and the view drops them afterwards. In the campaign, two events give a decision followed by an
outcome or by a second decision; `MaxEvents` stops further ones. One crash leaves every
possible remainder; `MaxCrashes` keeps the space finite. Policies are not bounded:
every policy can be built, approved and retired once. The defect runs start with a
defect that has come to `VERIFIED` in five events (`LateInit`), so that three more give
a link, a closure and a creation or a second link; all new events fall into one second,
later than the old ones, which is where the order is unknown. The two contents of the
run drop its finding and change its artifact, the only two ways an import can conflict
with a link; a rebuild is given everything or, implicitly, fails. The view ignores what
is in a temporary file nobody has open, because it is truncated before it is read. One writer
writes: what overlapping ones do to each other's temporary file is in the specification and in
the theorem `EvidenceHeld`, not in this run.

An eligible package needs a decision, a SAFE audit and an UNSAFE outcome of the other
case: three events, and every threshold is 1. The fourth one changes the campaign while
the eligible files are copied. The only reviewer is the auditor, so a decision before
the audit makes it ineligible. Two timestamps put an audit before or at the time a
revocation is recorded and takes effect. One snapshot
name suffices for a package that is repeated after the workspace has moved on and, with
the rollback, come back; every outcome of the two snapshot commands is reached,
including a package under the name of another registry and a partial snapshot. The
first evaluation is one authority for two cases, so that they can collide on it; the
second one is an outcome that can be added to an eligible campaign.

The operational loop needs five artifacts: packet, decision, context, outcome, and one
more for a repetition of any of them. Expiry is unbounded. In the projection two sources
of equal or of different creation time fork or follow each other; `MaxOverlap` bounds
events and failures once commands overlap. In the review run five moves give an edit
before, under and after a gate that is followed by an archive. The Trust instance has a
path for every class of names and every precedence between analysers, and its paths grow
one by one for `GrowthNeverLowers`. A replay that accepts a report of two
captures needs three replacements of the pair: one during the assessment, one that puts the first
pair back, one during the replay. `InstanceSpec` gives them to two requests the diffs say
different things about. Four moves of the
governed execution let an author push and reset under a call and still leave failing calls. The
prospective run has a
second run over what the first left at any stop; `Budgets` lists how many moves, edits, stops
and runs come together. Files of another base can pass only when the pull request comes to the packet's head
and base three times, which takes five moves: one of the budgets has them, for one run.

No deadlock check: commands are started by people and may stop at any time.

Fairness is assumed in one module. In `CampaignProjection` a command that has begun goes
on unless it dies or fails (`WF`), and each source is assessed and projected again and
again (`SF` on the start): the retry that the stage documents ask an operator for, and
that every new CI event starts. Nothing else in the code schedules a retry, and no other
liveness is claimed.

## Proofs

Each theorem holds for every value of the constants that satisfies the assumptions it
names, and of the counters that only bound the runs. An invariant is proved by the three
facts `Init => IInv`, `IInv /\ [Next]_vars => IInv'` and `IInv => Inv`; the second has one
lemma per action. What follows says what the invariants are, by component.

Policy registry

- `TypeCorrect`, `ReadableRegistryVerifies`.
- `LineageStaysLinear`: `[]NoForkedLineage`. The property is not inductive: a content
  computed long ago may be written at any time, by a commit or by a rollback. The
  invariant therefore says that *every* registry content that is in the file, in a
  command's hands or kept for a rollback is well formed: an activated policy's parent
  has been active and is superseded by it, and the active policy is the end of its
  chain. It is then a statement about the three transformations only.
- `VerifierRefusesNothing`: the same invariant makes each admitted transformation verify
  (`AdmittedChangesVerify`); TLC does not evaluate it, since it asks for every policy,
  time and operation in every state.
- `SmallerParentsAcyclic`: the verifier's cycle search is implied by its version check.
- `ReportedEventsKept`, `RulesInForceActivated`: `AloneReportedEventsStay` and
  `AloneOnlyActivatedRulesInForce`. While no two commands have overlapped, the command
  under way works on the content that is in the file or was there before its first
  replacement (`OverlapIInv`), and reported events and rules in force are looked up in that
  content, the book of the refinement mapping.
- `LifecycleImplemented`: `AloneLifecycleSpec`. Every initial state maps to one of
  `PolicyLifecycle` and every step to one of its steps or to a stutter: the last
  replacement of a command, or a death after the first, is the lifecycle step.

Campaign workspace

- `TaskAssessedOnce`, `PacketDecidedOnce`: again every content at hand satisfies the
  uniqueness, and each transformation keeps it because its guard reads the very content
  it is computed from.
- `CommandsAreWhole`, `ReportsAndEvidenceStay`: `AloneWholeOrNothing` and
  `AloneReportedStays`. Without overlap, what a command has done so far is described phase by
  phase: which of registry, manifest and directory already show its record, and that what
  it keeps for a rollback is what was there. Without a crash the files are complete
  whenever nothing is under way; with crashes there is at least a directory behind every
  record.
- `DestinationsFollowOneSource`, `ReportedChainsRemain`, `DamageTakesADeath`: `OneChain`,
  `ReportedChainsStay` and `ErrorsAreUndone` of the projection. While projections have not
  overlapped (`ProjectionInv`), at most one is under way; the destination's events are the
  beginning of a source of its lineage, and what the projection is about to write is those
  events with the next event of its chain (`Next1`, `Grows`). As long as nothing died,
  registry, manifest and directories agree but for the one recording under way (`Clean`).
  Whether a chain is a prefix is said event by event (`Begins`), which makes it a matter of
  first-order logic. `ProjectionAssumption` gives creation times above zero: zero stands for
  no workspace.
- `ProjectionTyped`: `[]ProjectionTypeOK`, also when projections overlap, where none of the
  above holds. Overlapping recordings can lengthen the destination past any source, so
  `ProjectionTypes` bounds no recorded chain; it says instead that a command which has
  taken up an event stands within its own chain (`Within`), whatever the others write.

Defects and ledger

- `EvidenceHeld`: `[]ProjectedLinksHold`, for any number of writers and importers.
  Writers may destroy each other's files, so the invariant says nothing of the registry
  file. It says that a registry in the hands of a synchronisation has been validated,
  and that the property holds of the committed database and of each one being built;
  imports and projections keep it because they look up both directions of a link.
- `LaterMovesAdmitted`: `LaterTransitionsAdmitted`, from lemmas on insertion: where the old
  events go when a new one is sorted in by its second and an unknown hash, and what that
  does to the status before each of them. `StatusAssumption` says that `None` is no status.
- `LinksStay`, `HistoriesOnlyGrow`: `ReportedLinksStay` and `HistoryOnlyAppends`. Both need
  `OneWriter`: one process writes the registry, and every rebuild is given the registry.
  Two writers do lose links and moves (see the limits below). Then the registry file is
  never torn while it is read, and a link can be followed from the computed registry to the
  file and the database.

Rule approval

- `LockProtectsRollback`: at most one approval is inside, and what it holds as original
  is the approved file the last whole approval left, or a destroyed one.
- `PromotedInForce`, `ReportedInForce`: while approvals do not overlap, everything some
  copy of the candidate file calls approved, and everything reported, is contained in
  the approved file and in every content that may still replace it.

Evidence packages

- `ReadyIsEligible`: whatever the files hold, the campaign status and the pilot review
  agree. They count differently: one asks that all outcomes reconcile and counts audit
  outcomes, the other counts reconciled audits; the proof shows the counts equal.
- `EligibilityIsEarned`: `[]EligibleIsEarned`, for any cases, audits and thresholds. The
  invariant `IInv` says that each comparison registry - in the workspace, kept for a
  rollback, in the snapshot's hands, in a package - is one that the verifier accepts,
  and that a package called eligible was found so on the files in it. The theorem then
  follows from what a reconciled audit is (`ReconciledIsEarned`) and from cardinalities:
  the verified audits are among the earned ones.
- `RevocationsSpareEarlierAudits`: no entry added to the authority registry disowns an
  audit, except a revocation that is retroactive or had been recorded by then.
- `ReconciledStays`: `ReconciledForGood`. It rests on an invariant about the directories:
  the manifest maps only what is there, and what the recorder has put in place and not
  yet mapped will reconcile, also against the authorities of the others.

Review run

- `ArchivesHold`, `GatesEnable`, `PassesAreClean`: `ArchivesAreGated`, `GatedRunsAreArchivable` and
  `PassMeansClean`. Nothing locks the directory, so every conjunct of `IInv` is about a
  command that nobody edited under: the run in memory has the findings of the directory,
  and each file that it has written agrees with those it wrote before. Of what dead
  commands leave behind the invariant says nothing; the next command starts from what it
  reads. `PassesAreClean` adds what validation demands of claims and findings. An open
  finding of P2 or P3 that the policy blocks on may still be a hypothesis, and a hypothesis
  blocks nothing; the property is about the others.

Trust assessment

- `AssessmentsAcceptThemselves`: `ReportsVerify`: a report is a function of its own evidence
  and model.
- `ReplayAcceptsWhatWasThere`: `AcceptedEvidenceWasThere`. The invariant `ReplayInv` follows a
  replay reading by reading: the pair on disk is one it has seen, and so is each one its
  evidence is of; what it accepts equals what it has read.
- `ShadowsAreKept`, `GrowthIsNeverMilder`: `PromotionKeepsItsShadow` and `GrowthNeverLowers`, for
  all paths, signals and models. The second is a comparison of two derivations: each rule
  of `derive_risk` is monotone in paths, protections and packs, and so is their order.
  `TrustAssumption` says that a request names a file, and what requests and profiles are.

Prospective run

- `Invariant`, `PacketsOfOneMoment`, `ClassOfTheBasePolicy`, `RetriesFindTheReport`,
  `VerifiedIsWhole`. Three facts carry them. Files that are not of the head and base read with
  them were read while the pull request was away (`Read`, `Found`): the first live check passes
  them only after it came back and went away again, the second one only after it came back once
  more, so that `PacketsOfOneMoment` holds up to the third visit. A report is written once and
  captured as it is. A bundle directory belongs to one identity, and with it either to runs
  with a request or to runs without, and what a run has not yet written is in its list `left`
  (`WrittenOK`), so that what a manifest lists is what one run wrote.
  `AssessedUnderTheBasePolicy` is about bundles whose summary says that the policy bound the
  request; an unbound request may carry any class.

Governed execution

- `StrayReceipts`: `StrayReceiptsTakeAReset`, for any number of operators, authors and
  pushes. Both readings found the bound head; a call in between that hit another one was
  made after a push away, and the reading after it came after a push back: `resets` has grown
  since the call. `AdapterInv` says so of every call that waits for its second reading.
- `ArtifactsEarnTheirPass`: `PassesAreEarned`: a verifier derives what it passes from the evidence
  of the document it is given, so editing the document gains nothing (`DossierAssumption`
  types the dossiers).

Operational loop

- `ArtifactsAnsweredOnce`, `ListedAnswersUnique`: `EachArtifactAnsweredOnce` and
  `OneListedAnswer`, for any number of heads, moves, artifacts and deaths. A workflow
  refuses a repetition by what is still listed, so the first property is not obvious once
  an answer has expired. The invariant says that an answer is younger than the artifact
  it answers and carries its assessment and action (`Traced`). Artifacts expire in the
  order they were made, so as long as a source is listed, so is its answer, and a
  workflow that found the source has found the answer. Runs of one workflow are serial:
  nothing of its own kind is uploaded between discovery and upload (`Finding`,
  `Chosen`).

The assumptions are those the modules name: `ComparisonAssumption`, `EvidenceAssumption`,
`PackagesAssumption` and their like give the constants their types and thresholds above
zero; TLC evaluates them in every run. Only `OneWriter` is a hypothesis of theorems and no
assumption: the specification is about any number of writers, these theorems are not.

Left to TLC: `EligibleAnswersAreCurrent` of the packages, a property of one step that needs
the history of the registry between the first and the last reading of a snapshot.
`CatchesUp` is liveness under fairness and, as `ENABLED`, outside the prover. `trust_signing` is a
counterexample.

## Known limits of the program, outside the claims

A package is named by the registry read first, not by the one copied, so a recorder that
writes in between gives it another registry's name
(`STAGE-10I-PROSPECTIVE-R0-EVIDENCE-COLLECTION.md:98` describes the name without a
claim about concurrent writers). The answer of a snapshot compares the workspace with
what was inspected: an outcome that is rolled back during the snapshot and recorded
again, not yet or never in the manifest, looks unchanged, and the eligible package is
reported although the campaign is blocked by that outcome (the second alternative of
`EligibleAnswersAreCurrent`). A snapshot that dies before its report, or that reports
a missing input, refuses every later snapshot of the same registry. Two administrators
of the audit authority registry lose each other's revocations. An outcome whose recorder
died before the manifest stays unmapped; recording it again reports success, and the
campaign stays blocked. Overlapping operators lose each other's updates, and a rollback
can put back bytes older than another operator's commit; the documents disclaim
concurrent writers (`STAGE-7-IMPLEMENTATION-REVIEW.md:66`,
`STAGE-10A-IMPLEMENTATION-REVIEW.md:97`), and the properties about reported changes are stated for one operator. A rollback that dies
between truncating and rewriting the registry destroys it. A draft whose parent was
retired can never be activated. Two defect commands share a temporary file and may
move a torn or foreign registry into place, and lose updates; a rebuild loses an import
that commits meanwhile. A transition in the second of the previous one may be refused,
depending on a hash. Overlapping approvals lose each other's rules although a lock file
exists, because both files are read before it is taken; a process that dies inside
leaves the lock file for good. A rediscovery that overlaps an approval, or dies while it
writes, can turn an approved or rejected rule back into a candidate or lose it; the
approved file is not touched.

Interrupted commands. A retirement that dies between its two files leaves the retired
rules in force, and `materialize` refuses because no policy is active
(`policy_registry.py:751`; `STAGE-7-IMPLEMENTATION-REVIEW.md:62` says the file can always
be regenerated from the active snapshot). An intake that dies between registry and
manifest is refused for good when repeated (`trust_prospective_intake.py:79`;
`STAGE-10I-PROSPECTIVE-R0-EVIDENCE-COLLECTION.md:44`). The failing one of two overlapping
campaign commands removes the directory the other one relies on
(`trust_prospective_review.py:592`). A link that was recorded and not synchronised does
not protect its finding, and after a re-import no synchronisation succeeds
(`defects.py:888`; `STAGE-5-DEFECT-REGISTRY.md:39`). A ready campaign with an audit outcome
recorded as inconclusive cannot be packaged, because the first writer of reconciliation
reports refuses it (`trust_evidence_acquisition.py:356`).

Projection. A death or an error while an archive is copied blocks the projection with
`GOVERNED_REVIEW_CONFLICT`, a death between registry and manifest with
`SOURCE_RECONCILIATION_FAILED`, both for good. Of two overlapping projections the failing
one removes the archive the other one relies on. Two workspaces of one pull request with
different creation times can never both be projected; of two forks of one lineage the
first one wins. An inconclusive outcome that does not reconcile blocks its transport.

Review run. An edit between the validation of an archive and its packing is hidden,
because the archive rewrites identity and manifest. A gate overwrites edits of `run.json`
made meanwhile. A gate with another `--repository-root` makes a run that validation, which
uses the root of the snapshot, never lets be archived. Merging depends on the order of
equal findings (`merge.py:86`).

Trust. A report may mix two captures and verify as data; the replay refuses it unless the pair
is replaced once more while it runs (`AcceptedEvidenceWasThere` allows it). The
reason of an analyser replaces `VERIFIER_OR_POLICY_PATH`, so `VERIFIER_CHANGED` is
triggered without a diff and not with it. A CI workflow that is R4 by its name becomes R2
when its change is wiring only. No token asks for `application.migration-safety`.
`run_github_pr` assesses without the captured pair.

Execution. A head that moved before the call is reported by the error whose documentation
says it is raised after dispatch. A head that moved away after the call cannot be rolled
back by the adapter, and if the branch is reset to the bound revision while a call is under way,
a call that hit the other head gets a receipt (`StrayReceiptsTakeAReset` allows it). Nothing calls or repeats
`rollback_to_draft`: a target that a failed command left ready stays so unless its caller
rolls it back. A production review verifies with `source_head_exact` false; a
verified shadow run does not check again that the capability is supported; a rollback may
be dated before its dispatch.

Operational loop. An assessment is known by head and authority revision: after the base
moved, ORL-5 refuses the old decision as stale and ORL-4 refuses another one until the
first expires. A packet prepared again after its decision expired can be decided again,
and a context prepared again after its outcome expired can back a second outcome: the
properties speak of one artifact, or of listed answers.

Prospective run. A policy snapshot that stays in an analysis directory after the base lost
its policy makes every later run of that head fail. A Trust report of a head refuses to be
replayed after a move of the base or a change of the profile, for good in that directory,
and the workspace takes one report per task and head. A bundle directory is keyed by the
execution identity, which does not name base, files or policy, so leftovers of an earlier
run of one identity remain and are listed in the new manifest. A bundle that waits for
Trust facts is not checked again and may name the head of one moment with the files of
another when the counts agree. So may a packet, when the pull request comes to its head and
base three times during the run and has the other files in between, at the calls that read
them.

## Not modelled

Pure functions from files to documents with no state of their own: project intelligence,
reground and evaluation reports, buildmap export, calibration, the shadow reports, the
aggregator of workspaces (AUTO-4A), the diagnosis of overlapping selectors, interfaces and
briefs. Inside one GitHub call: retries (`github/runner.py`) and pages
(`github/pagination.py`); a collection sees the answer or a failure. Glob matching, token
and syntax analysis are constant relations. Argument parsing, templates and packs.

## Plan

Open: a proof of `EligibleAnswersAreCurrent`; a composition of `CampaignProjection` with
`ProspectiveCampaign`, whose two-file write the former takes as three steps.
