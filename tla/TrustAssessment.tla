-------------------------- MODULE TrustAssessment --------------------------
(* The Trust readiness report of a change: trust.py with the three analysers of a diff it binds in *)
(* (workflow semantics, R4 semantics, signing trust root), the selection of review packs, and the  *)
(* shadow projections two of the analysers were calibrated with.                                    *)
(*                                                                                                  *)
(* assess_trust reads its files one after the other (the captured pull request and its diff three   *)
(* times, once for each analyser) while whoever prepares them may replace them, and so does the     *)
(* replay that verifies a report by assessing its sources again.  The report is computed by one of  *)
(* six risk models: 0 is the unversioned one, 1 to 5 are 1.1 to 1.5.                                *)
(*                                                                                                  *)
(* A path is known by the facts its name decides (Name), a patch by the signals the analysers look  *)
(* for in it (Signal).  Hashes are the identity of what they hash.  Bands are 0..4 for R0..R4.      *)
EXTENDS Integers, FiniteSets, FiniteSetsExt

CONSTANTS Path,       \* repository paths
          Name,       \* [Path -> what the name of the path says]
          Diff,       \* the diffs a capture may hold
          Sections,   \* [Diff -> the paths it has a section for]
          Signals,    \* [Diff -> [Path -> what the analysers find in the section]]
          FirstDiffs, \* those it may hold to begin with
          Head,       \* revisions
          Requests,   \* the requests there are to begin with
          Profiles,   \* the profiles there are to begin with: [protected, packs]
          Packs,      \* review packs a profile may configure
          Docs,       \* contents the evidence files may have
          FirstDocs,  \* those they may have to begin with
          Absent,     \* nothing
          MaxEdits,   \* how often the input files are replaced
          MaxReports  \* how many assessments and replays are made

VARIABLES request,    \* the Trust request file
          profile,    \* the Project Profile: protected paths and configured packs
          source,     \* the captured pull request: its head, files and the diff it hashed
          diff,       \* the diff file captured with it
          docs,       \* Policy Registry, Evaluation report, ledger, Reground report and observations
          assessment, \* the assessment being made, or made again by a replay
          report,     \* the last report emitted
          answer,     \* how the last assessment or replay ended
          seen,       \* the diffs there were since the last replay began
          edits, made

trustVars == <<request, profile, source, diff, docs, assessment, report, answer, seen, edits, made>>
files == <<request, profile, source, diff, docs>>

Model == 0..5
WithR4 == 3..5          \* models that read R4 semantic evidence
WithSigning == {5}

TaskClassBand == [formatting |-> 0, documentation |-> 1, routine_code |-> 2, authentication |-> 3,
                  database_migration |-> 3, deployment |-> 3, verifier |-> 4]
HighRiskTask == {"authentication", "database_migration", "deployment"}

(* A request names at least one file (minItems of its schema). *)
Request ==
  [class : DOMAIN TaskClassBand, files : SUBSET Path, head : Head,
   scenarioMissing : BOOLEAN, repositoryMatch : BOOLEAN, headMatch : BOOLEAN, rollback : BOOLEAN, replay : BOOLEAN,
   minObservations : Nat, minCoverage : Nat, minPrecision : Nat, minRecall : Nat, maxFalsePositive : Nat]
Profile == [protected : SUBSET Path, packs : SUBSET Packs]

ASSUME TrustAssumption ==
  /\ Requests \subseteq Request /\ \A r \in Requests : r.files # {}
  /\ Profiles \subseteq Profile
  /\ \A packs \in SUBSET Packs : packs # Absent

----------------------------------------------------------------------------
(* What a path says. *)

IsDocumentation(p) == Name[p].docs \/ Name[p].insideDocs

PathClassification(p) ==
  IF Name[p].r4 THEN <<4, "VERIFIER_OR_POLICY_PATH">>
  ELSE IF Name[p].r3 THEN <<3, "HIGH_RISK_PATH">>
  ELSE IF Name[p].generated THEN <<0, "GENERATED_OR_REPORT_PATH">>
  ELSE IF Name[p].docs THEN <<1, "DOCUMENTATION_PATH">>
  ELSE <<2, "SOURCE_OR_CONFIGURATION_PATH">>

AuthoritativeClassification(p) ==
  IF PathClassification(p)[1] = 3 /\ IsDocumentation(p)
  THEN <<1, "DOCUMENTATION_HIGH_RISK_TOKEN_NEUTRALIZED">> ELSE PathClassification(p)

(* The packs a path's tokens ask for, of those a corroboration looks at. *)
PacksOf(p) ==
  LET t == Name[p].tokens IN
  (IF t \cap {"migration", "schema"} # {} THEN {"data.migration-safety"} ELSE {})
  \cup (IF t \cap {"rls", "policy", "policies"} # {} THEN {"data.rls", "application.authorization"} ELSE {})
  \cup (IF t \cap {"auth", "session"} # {}
        THEN {"application.authentication", "application.authorization"} ELSE {})
  \cup (IF t \cap {"route", "api"} # {} THEN {"application.authorization"} ELSE {})

GenericPolicyOnly(p) ==
  /\ ~IsDocumentation(p)
  /\ Name[p].tokens \cap {"policy", "policies"} # {}
  /\ Name[p].tokens \cap {"rls", "auth", "session", "route", "api"} = {}

----------------------------------------------------------------------------
(* What a patch says: s is the set of signals found in it. *)

WorkflowClass(s) ==
  IF s \cap {"write_permission", "secret", "mutating_api", "deploy"} # {} THEN "AUTHORITY_MUTATION"
  ELSE IF "only_test_wiring" \in s THEN "CI_TEST_WIRING_ONLY" ELSE "UNKNOWN"

WorkflowRisk(class) ==
  IF class = "CI_TEST_WIRING_ONLY" THEN <<2, "WORKFLOW_CI_TEST_WIRING_ONLY">>
  ELSE <<3, IF class = "UNKNOWN" THEN "WORKFLOW_SEMANTICS_UNKNOWN" ELSE "WORKFLOW_AUTHORITY_MUTATION">>

FailsClosed(s) == {"failure", "assertion"} \subseteq s

R4Class(p, s) ==
  IF "ceiling" \in s THEN "SUPPORTING_EVALUATION_ONLY"
  ELSE IF {"evaluator", "normative", "two_decisions"} \subseteq s THEN "NORMATIVE_DECISION_AUTHORITY"
  ELSE IF "gate" \in s /\ FailsClosed(s) THEN "EXECUTABLE_VERIFICATION_GATE_AUTHORITY"
  ELSE IF Name[p].live /\ "live" \in s /\ FailsClosed(s) THEN "EXECUTABLE_VERIFICATION_GATE_AUTHORITY"
  ELSE IF Name[p].supporting /\ s \cap {"failure", "assertion"} # {} THEN "SUPPORTING_REGRESSION_ONLY"
  ELSE "UNKNOWN"

(* The verifier role: a regression script that is an acceptance verifier after all. *)
VerifierRole(p, s) ==
  /\ R4Class(p, s) = "SUPPORTING_REGRESSION_ONLY"
  /\ FailsClosed(s)
  /\ {"acceptance", "external", "durable", "operational"} \subseteq s

R4Authority(m, p, s) ==
  \/ R4Class(p, s) \in {"NORMATIVE_DECISION_AUTHORITY", "EXECUTABLE_VERIFICATION_GATE_AUTHORITY"}
  \/ m > 3 /\ VerifierRole(p, s)

SigningTrustRoot(p, s) ==
  Name[p].surface /\ {"trust_material", "signing", "release_context", "root_assignment"} \subseteq s

----------------------------------------------------------------------------
(* The evidence taken from a captured pull request and the diff file beside it. *)

Captured(r, src, d) == src.head = r.head /\ src.files = r.files /\ src.diff = d

NoEvidence == [of |-> Absent, by |-> <<>>]

WorkflowsIn(fs) == {p \in fs : Name[p].workflow}
WorkflowEvidence(r, d) == [of |-> d, by |-> [p \in WorkflowsIn(r.files) |-> WorkflowClass(Signals[d][p])]]
R4Evidence(m, r, d) == [of |-> d, by |-> [p \in r.files |-> R4Authority(m, p, Signals[d][p])]]
SigningEvidence(r, d) == [of |-> d, by |-> [p \in r.files |-> SigningTrustRoot(p, Signals[d][p])]]

----------------------------------------------------------------------------
(* The risk of a request: e holds its workflow, R4 and signing evidence. *)

Holds(evidence, p) == p \in DOMAIN evidence.by /\ evidence.by[p]

(* A plausible slip: what the workflow analyser says of a path is looked up first. *)
PathRiskWorkflowFirst(m, e, p) ==
  IF p \in DOMAIN e.workflow.by THEN WorkflowRisk(e.workflow.by[p])
  ELSE IF Holds(e.r4, p) THEN <<4, "SEMANTIC_R4_AUTHORITY">>
  ELSE IF Holds(e.signing, p) THEN <<3, "SEMANTIC_R3_SIGNING_TRUST_ROOT_AUTHORITY">>
  ELSE IF m = 0 THEN PathClassification(p) ELSE AuthoritativeClassification(p)

PathRisk(m, e, p) ==
  IF Holds(e.r4, p) THEN <<4, "SEMANTIC_R4_AUTHORITY">>
  ELSE IF Holds(e.signing, p) THEN <<3, "SEMANTIC_R3_SIGNING_TRUST_ROOT_AUTHORITY">>
  ELSE IF p \in DOMAIN e.workflow.by THEN WorkflowRisk(e.workflow.by[p])
  ELSE IF m = 0 THEN PathClassification(p) ELSE AuthoritativeClassification(p)

Selected(pf, fs, pack) ==
  {p \in fs : pack \in pf.packs /\ pack \in PacksOf(p) /\ ~IsDocumentation(p)}

(* A plausible slip: one colliding path discredits the others. *)
AuthorizationRlsNoSurvivors(m, pf, fs) ==
  LET authorization == Selected(pf, fs, "application.authorization")
      rls == Selected(pf, fs, "data.rls")
      collisions == IF m > 1 THEN {p \in authorization \cap rls : GenericPolicyOnly(p)} ELSE {}
  IN IF authorization # {} /\ rls # {} /\ collisions = {} THEN authorization \cup rls ELSE {}

(* Authorization together with RLS; since model 1.2 a path that only says "policy" proves neither. *)
AuthorizationRls(m, pf, fs) ==
  LET authorization == Selected(pf, fs, "application.authorization")
      rls == Selected(pf, fs, "data.rls")
      collisions == IF m > 1 THEN {p \in authorization \cap rls : GenericPolicyOnly(p)} ELSE {}
  IN IF authorization \ collisions # {} /\ rls \ collisions # {} THEN authorization \cup rls ELSE {}

Corroborations(m, pf, fs) ==
  IF pf.packs = Absent THEN {}
  ELSE {c \in {[id |-> "AUTHENTICATION", paths |-> Selected(pf, fs, "application.authentication")],
               [id |-> "MIGRATION_SAFETY", paths |-> Selected(pf, fs, "data.migration-safety")],
               [id |-> "AUTHORIZATION_RLS", paths |-> AuthorizationRls(m, pf, fs)]} : c.paths # {}}

Risk(m, r, pf, e) ==
  LET protected == r.files \cap pf.protected
      classes == {PathRisk(m, e, p) : p \in r.files}
      floor == Max({c[1] : c \in classes} \cup (IF protected # {} THEN {3} ELSE {}))
      corroborated == Corroborations(m, pf, r.files)
      semantic == Max({floor} \cup (IF corroborated # {} THEN {3} ELSE {}))
      base == TaskClassBand[r.class]
  IN [base |-> base, protected |-> protected, floor |-> floor, reasons |-> {c[2] : c \in classes},
      corroborated |-> {c.id : c \in corroborated},
      underdeclared |-> pf.packs # Absent /\ base < semantic,
      effective |-> Max({base, semantic})]

----------------------------------------------------------------------------
(* Hard gates and readiness. *)

HighRiskReason == {"HIGH_RISK_PATH", "SEMANTIC_R3_SIGNING_TRUST_ROOT_AUTHORITY",
                   "WORKFLOW_AUTHORITY_MUTATION", "WORKFLOW_SEMANTICS_UNKNOWN"}

RollbackMissing(r) ==
  LET migration == r.class = "database_migration" \/ \E p \in r.files : Name[p].migration
      deployment == r.class = "deployment" \/ \E p \in r.files : Name[p].workflow \/ Name[p].deploys
  IN IF migration THEN ~r.rollback \/ ~r.replay ELSE deployment /\ ~r.rollback

PolicyReady(ev) == ev.match /\ ev.decision = "PASS"

HardGates(r, risk, ev) ==
  {g \in {<<"PROTECTED_PATH_CHANGED", risk.protected # {}>>,
          <<"REQUIRED_SCENARIO_MISSING", r.scenarioMissing>>,
          <<"REPOSITORY_MISMATCH", ~r.repositoryMatch>>,
          <<"HEAD_MISMATCH", ~r.headMatch>>,
          <<"AUTHORIZATION_OR_MIGRATION_CHANGE",
            r.class \in HighRiskTask \/ risk.reasons \cap HighRiskReason # {} \/ risk.corroborated # {}>>,
          <<"VERIFIER_CHANGED", r.class = "verifier" \/ "VERIFIER_OR_POLICY_PATH" \in risk.reasons>>,
          <<"POLICY_EVALUATION_MISSING", ~PolicyReady(ev)>>,
          <<"ROLLBACK_OR_REPLAY_EVIDENCE_MISSING", RollbackMissing(r)>>} : g[2]}

Triggered(r, risk, ev) == {g[1] : g \in HardGates(r, risk, ev)}

(* What the assessment keeps of the evidence files. *)
PolicyEvidence(registry, evaluation) ==
  [active |-> registry.active # Absent,
   decision |-> IF evaluation = Absent THEN Absent ELSE evaluation.decision,
   sound |-> evaluation # Absent /\ evaluation.sound,
   match |-> evaluation # Absent /\ registry.active # Absent /\ registry.active = evaluation.id]

(* How the statuses of a Reground report fare against what people observed. *)
Metrics(reground, observed) ==
  LET count(predicted, expected) ==
        Cardinality({r \in DOMAIN observed : reground.status[r] = predicted /\ observed[r] = expected})
  IN [tp |-> count("STALE", "STALE"), fp |-> count("STALE", "CURRENT"),
      tn |-> count("CURRENT", "CURRENT"), fn |-> count("CURRENT", "STALE"),
      relations |-> Cardinality(DOMAIN reground.status)]

NoMetrics == [tp |-> 0, fp |-> 0, tn |-> 0, fn |-> 0, relations |-> 0]

(* a of b is at least percent of it; nothing is at least anything when b is zero. *)
AtLeast(a, b, percent) == b > 0 /\ 100 * a >= percent * b

Ready(r, ev) ==
  LET g == ev.metrics
      observed == g.tp + g.fp + g.tn + g.fn IN
  /\ ev.ledger                                   \* ledger, decision and defect thresholds
  /\ ev.active /\ ev.decision = "PASS" /\ ev.match
  /\ ev.sound                                    \* holdout, repeatability, no protected regression
  /\ ev.observed /\ observed >= r.minObservations
  /\ AtLeast(observed, g.relations, r.minCoverage)
  /\ AtLeast(g.tp, g.tp + g.fp, r.minPrecision)
  /\ AtLeast(g.tp, g.tp + g.fn, r.minRecall)
  /\ g.fp + g.tn > 0 /\ 100 * g.fp <= r.maxFalsePositive * (g.fp + g.tn)

----------------------------------------------------------------------------
(* The report, its verifier, and the replay of its sources. *)

Compute(m, r, pf, e) ==
  LET risk == Risk(m, r, pf, e) IN
  [model |-> m, request |-> r, profile |-> pf, evidence |-> e, risk |-> risk,
   gates |-> Triggered(r, risk, e.policy), ready |-> Ready(r, e.policy)]

(* A plausible slip: old reports are derived again by the current model. *)
ReportVerifiesByCurrentModel(rp) ==
  /\ rp.evidence.workflow.of # Absent => rp.model # 0 /\ DOMAIN rp.evidence.workflow.by = WorkflowsIn(rp.request.files)
  /\ rp.evidence.r4.of # Absent => rp.model \in WithR4 /\ DOMAIN rp.evidence.r4.by = rp.request.files
  /\ rp.evidence.signing.of # Absent => rp.model \in WithSigning /\ DOMAIN rp.evidence.signing.by = rp.request.files
  /\ rp.risk = Risk(5, rp.request, rp.profile, rp.evidence)

(* What a report says of its own: everything derived is derived again, by the report's model. *)
ReportVerifies(rp) ==
  /\ rp.evidence.workflow.of # Absent => rp.model # 0 /\ DOMAIN rp.evidence.workflow.by = WorkflowsIn(rp.request.files)
  /\ rp.evidence.r4.of # Absent => rp.model \in WithR4 /\ DOMAIN rp.evidence.r4.by = rp.request.files
  /\ rp.evidence.signing.of # Absent => rp.model \in WithSigning /\ DOMAIN rp.evidence.signing.by = rp.request.files
  /\ rp = Compute(rp.model, rp.request, rp.profile, rp.evidence)

(* Can the analysers read this pair, for this request and model? *)
WorkflowReadable(r, src, d) == Captured(r, src, d) /\ WorkflowsIn(r.files) \subseteq Sections[d]
AllReadable(r, src, d) == Captured(r, src, d) /\ r.files \subseteq Sections[d]

ObservationsReadable(dc) ==
  dc.observations # Absent =>
    dc.reground # Absent /\ dc.observations.of = dc.reground.id
      /\ DOMAIN dc.observations.expected \subseteq DOMAIN dc.reground.status

Policy(registry, evaluation, ledger, reground, observations) ==
  LET p == PolicyEvidence(registry, evaluation) IN
  [active |-> p.active, decision |-> p.decision, sound |-> p.sound, match |-> p.match, ledger |-> ledger,
   observed |-> observations # Absent,
   metrics |-> IF observations = Absent THEN NoMetrics ELSE Metrics(reground, observations.expected)]

(* A plausible slip: a replay compares what the report concludes, not what it rests on. *)
ReplaysConclusions(rp, stored) == rp.risk = stored.risk /\ rp.gates = stored.gates /\ rp.ready = stored.ready

Replays(rp, stored) == rp = stored

----------------------------------------------------------------------------
Idle == [stage |-> "idle"]

TrustInit ==
  /\ assessment = Idle /\ report = Absent /\ answer = "none" /\ seen = {} /\ edits = 0 /\ made = 0
  /\ request \in Requests /\ profile \in Profiles
  /\ diff \in FirstDiffs
  /\ source = [head |-> request.head, files |-> request.files, diff |-> diff]
  /\ docs \in FirstDocs

(* Assessments. *)

Begin(m, pair, corroborate) ==
  /\ assessment = Idle /\ made < MaxReports
  /\ m # 0 => corroborate       \* the releases with numbered models always corroborate
  /\ made' = made + 1
  /\ IF m = 0 /\ pair
     THEN answer' = "refused" /\ UNCHANGED assessment
     ELSE /\ assessment' = [stage |-> "profile", replay |-> FALSE, model |-> m, pair |-> pair,
                            corroborate |-> corroborate, request |-> request]
          /\ answer' = "none"
  /\ UNCHANGED <<files, report, seen, edits>>

(* The sources of the report are verified by assessing them again, by the report's model.  The pair *)
(* must be supplied exactly when the report holds workflow evidence.                                *)
BeginReplay(pair) ==
  /\ assessment = Idle /\ report # Absent /\ made < MaxReports
  /\ made' = made + 1
  /\ IF ~ReportVerifies(report) \/ pair # (report.evidence.workflow.of # Absent)
     THEN answer' = "refused" /\ UNCHANGED <<assessment, seen>>
     ELSE /\ assessment' = [stage |-> "profile", replay |-> TRUE, model |-> report.model, pair |-> pair,
                            corroborate |-> report.profile.packs # Absent, request |-> request]
          /\ answer' = "none"
          /\ seen' = {diff}
  /\ UNCHANGED <<files, report, edits>>

Continue(stage, fields) ==
  assessment' = [f \in DOMAIN assessment \cup DOMAIN fields |->
            IF f = "stage" THEN stage ELSE IF f \in DOMAIN fields THEN fields[f] ELSE assessment[f]]

Refuse == assessment' = Idle /\ answer' = "refused"

ReadProfile ==
  /\ assessment.stage = "profile"
  /\ Continue("workflow", [profile |-> IF assessment.corroborate THEN profile ELSE [profile EXCEPT !.packs = Absent]])
  /\ UNCHANGED <<files, report, answer, seen, edits, made>>

ReadWorkflow ==
  /\ assessment.stage = "workflow"
  /\ IF ~assessment.pair
     THEN Continue("r4", [workflow |-> NoEvidence]) /\ UNCHANGED answer
     ELSE IF WorkflowReadable(assessment.request, source, diff)
          THEN Continue("r4", [workflow |-> WorkflowEvidence(assessment.request, diff)]) /\ UNCHANGED answer
          ELSE Refuse
  /\ UNCHANGED <<files, report, seen, edits, made>>

ReadR4 ==
  /\ assessment.stage = "r4"
  /\ IF ~assessment.pair \/ assessment.model \notin WithR4
     THEN Continue("signing", [r4 |-> NoEvidence]) /\ UNCHANGED answer
     ELSE IF AllReadable(assessment.request, source, diff)
          THEN Continue("signing", [r4 |-> R4Evidence(assessment.model, assessment.request, diff)]) /\ UNCHANGED answer
          ELSE Refuse
  /\ UNCHANGED <<files, report, seen, edits, made>>

ReadSigning ==
  /\ assessment.stage = "signing"
  /\ IF ~assessment.pair \/ assessment.model \notin WithSigning
     THEN Continue("registry", [signing |-> NoEvidence]) /\ UNCHANGED answer
     ELSE IF AllReadable(assessment.request, source, diff)
          THEN Continue("registry", [signing |-> SigningEvidence(assessment.request, diff)]) /\ UNCHANGED answer
          ELSE Refuse
  /\ UNCHANGED <<files, report, seen, edits, made>>

ReadRegistry ==
  /\ assessment.stage = "registry"
  /\ Continue("evaluation", [registry |-> docs.registry, ledger |-> docs.ledger])
  /\ UNCHANGED <<files, report, answer, seen, edits, made>>

ReadEvaluation ==
  /\ assessment.stage = "evaluation"
  /\ Continue("reground", [evaluation |-> docs.evaluation])
  /\ UNCHANGED <<files, report, answer, seen, edits, made>>

ReadReground ==
  /\ assessment.stage = "reground"
  /\ Continue("observations", [reground |-> docs.reground])
  /\ UNCHANGED <<files, report, answer, seen, edits, made>>

(* The observations name the Reground report they are about; then everything is derived.  An        *)
(* assessment emits the report; a replay holds it against the one it verifies.                      *)
ReadObservationsAndEmit ==
  /\ assessment.stage = "observations"
  /\ IF ObservationsReadable([docs EXCEPT !.reground = assessment.reground])
     THEN \E rp \in {Compute(assessment.model, assessment.request, assessment.profile,
              [workflow |-> assessment.workflow, r4 |-> assessment.r4, signing |-> assessment.signing,
               policy |-> Policy(assessment.registry, assessment.evaluation, assessment.ledger, assessment.reground, docs.observations)])} :
            IF assessment.replay
            THEN /\ answer' = IF ReportVerifies(rp) /\ Replays(rp, report) THEN "accepted" ELSE "refused"
                 /\ UNCHANGED report
            ELSE IF ReportVerifies(rp)
                 THEN answer' = "report" /\ report' = rp
                 ELSE answer' = "self-refused" /\ UNCHANGED report
     ELSE answer' = "refused" /\ UNCHANGED report
  /\ assessment' = Idle
  /\ UNCHANGED <<files, seen, edits, made>>

(* Whoever prepares the files replaces them, the diff after the capture it belongs to. *)

Replacing == edits < MaxEdits /\ edits' = edits + 1 /\ UNCHANGED <<assessment, report, answer, seen, made>>

WriteRequest ==
  /\ Replacing
  /\ \E p \in Path \ request.files : request' = [request EXCEPT !.files = @ \cup {p}]
  /\ UNCHANGED <<profile, source, diff, docs>>

WriteProfile ==
  /\ Replacing
  /\ \/ \E p \in Path \ profile.protected : profile' = [profile EXCEPT !.protected = @ \cup {p}]
     \/ \E k \in Packs \ profile.packs : profile' = [profile EXCEPT !.packs = @ \cup {k}]
  /\ UNCHANGED <<request, source, diff, docs>>

CaptureSource ==
  /\ Replacing
  /\ \E d \in Diff, h \in Head :
        /\ source' = [head |-> h, files |-> request.files, diff |-> d]
        /\ source' # source
  /\ UNCHANGED <<request, profile, diff, docs>>

CaptureDiff ==
  /\ diff # source.diff
  /\ diff' = source.diff
  /\ seen' = IF assessment # Idle /\ assessment.replay THEN seen \cup {diff'} ELSE seen
  /\ UNCHANGED <<request, profile, source, docs, assessment, report, answer, edits, made>>

WriteDocs ==
  /\ Replacing
  /\ docs' \in Docs \ {docs}
  /\ UNCHANGED <<request, profile, source, diff>>

TrustNext ==
  \/ \E m \in Model, pair \in BOOLEAN, corroborate \in BOOLEAN : Begin(m, pair, corroborate)
  \/ \E pair \in BOOLEAN : BeginReplay(pair)
  \/ ReadProfile \/ ReadWorkflow \/ ReadR4 \/ ReadSigning
  \/ ReadRegistry \/ ReadEvaluation \/ ReadReground \/ ReadObservationsAndEmit
  \/ WriteRequest \/ WriteProfile \/ CaptureSource \/ CaptureDiff \/ WriteDocs

TrustSpec == TrustInit /\ [][TrustNext]_trustVars

----------------------------------------------------------------------------
(* The shadow projections: what the analysers promised before they were given authority. *)

Evidence(m, r, d) ==
  [workflow |-> IF m # 0 THEN WorkflowEvidence(r, d) ELSE NoEvidence,
   r4 |-> IF m \in WithR4 THEN R4Evidence(m, r, d) ELSE NoEvidence,
   signing |-> IF m \in WithSigning THEN SigningEvidence(r, d) ELSE NoEvidence]

WithoutSemantics(r, d) == [Evidence(5, r, d) EXCEPT !.r4 = NoEvidence, !.signing = NoEvidence]

R4Candidate(m, r, pf, d) ==
  LET current == Risk(5, r, pf, WithoutSemantics(r, d)).effective
      triggered == {p \in r.files : R4Authority(m, p, Signals[d][p])}
  IN IF triggered # {} THEN 4 ELSE current

----------------------------------------------------------------------------
(* Properties. *)

(* An assessment never ends by refusing the report it has just computed, whatever the risk model:   *)
(* the verifier derives a report again by the model the report names.                               *)
ReportsVerify ==
  /\ answer # "self-refused"
  /\ report # Absent => ReportVerifies(report)

(* The three analysers read the captured pair one after the other, so a report can hold evidence of *)
(* two captures of one head, and it verifies all the same.  A replay reads the pair three times as  *)
(* well; it accepts no evidence of a capture that was not there while it ran, so a report of two    *)
(* captures is accepted only if the pair was replaced again during the replay.                      *)
AcceptedEvidenceWasThere ==
  answer = "accepted" =>
    \A n \in {"workflow", "r4", "signing"} : report.evidence[n].of \in {Absent} \cup seen

(* A change is never assessed more mildly for touching one more path, protecting one more, or      *)
(* configuring one more review pack: the band does not fall and no hard gate is cleared.           *)
GrowthNeverLowers ==
  [][assessment = Idle /\ (request' # request \/ profile' # profile) =>
     \A m \in Model :
       LET before == Risk(m, request, profile, Evidence(m, request, diff))
           after == Risk(m, request', profile', Evidence(m, request', diff))
           gates(r, risk) == Triggered(r, risk, [match |-> FALSE, decision |-> Absent])
       IN after.effective >= before.effective /\ gates(request, before) \subseteq gates(request', after)]_trustVars

(* Giving the R4 analysers authority (models 1.3 and 1.4) changed no band from what their shadow   *)
(* projections had announced for the same change.                                                   *)
PromotionKeepsItsShadow ==
  assessment = Idle =>
    \A m \in {3, 4} : Risk(m, request, profile, Evidence(m, request, diff)).effective = R4Candidate(m, request, profile, diff)

(* What the calibration of the signing analyser promises: its evidence cannot lower a result that  *)
(* is R3 or R4 without it.                                                                          *)
SigningNeverLowers ==
  Risk(5, request, profile, Evidence(5, request, diff)).effective
    >= Risk(4, request, profile, Evidence(4, request, diff)).effective
=============================================================================
