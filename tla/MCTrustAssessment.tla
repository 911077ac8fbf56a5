------------------------- MODULE MCTrustAssessment -------------------------
(* Eight paths, one for each way a name and a patch can disagree, three diffs and five evidence    *)
(* directories.                                                                                     *)
EXTENDS TrustAssessment

Plain == [r4 |-> FALSE, r3 |-> FALSE, generated |-> FALSE, docs |-> FALSE, insideDocs |-> FALSE,
          workflow |-> FALSE, migration |-> FALSE, deploys |-> FALSE, live |-> FALSE, supporting |-> FALSE,
          surface |-> TRUE, tokens |-> {}]

MCName == [
  workflow   |-> [Plain EXCEPT !.workflow = TRUE, !.r3 = TRUE],                 \* .github/workflows/ci.yml
  verifier   |-> [Plain EXCEPT !.r4 = TRUE],                                    \* src/gate.py
  policy     |-> [Plain EXCEPT !.tokens = {"policy"}],                          \* app/policy.py
  rls        |-> [Plain EXCEPT !.r3 = TRUE, !.surface = FALSE, !.tokens = {"rls"}],    \* db/rls.sql
  api        |-> [Plain EXCEPT !.tokens = {"policies", "api"}],                 \* api/policies.py
  doc        |-> [Plain EXCEPT !.docs = TRUE, !.insideDocs = TRUE, !.r3 = TRUE, !.surface = FALSE,
                               !.tokens = {"auth"}],                            \* docs/auth-token.md
  migration  |-> [Plain EXCEPT !.r3 = TRUE, !.migration = TRUE, !.tokens = {"migration"}], \* app/migration.py
  script     |-> [Plain EXCEPT !.supporting = TRUE, !.surface = FALSE]]         \* scripts/accept.mjs
MCPath == DOMAIN MCName

Quiet == [p \in MCPath |-> {}]
Signing == {"trust_material", "signing", "release_context", "root_assignment"}
CONSTANTS Wiring, Release, Partial
MCDiff == {Wiring, Release, Partial}
MCFirstDiffs == {Wiring, Release}
MCSections == [d \in MCDiff |-> IF d = Partial THEN {"workflow"} ELSE MCPath]
Accepts == {"failure", "assertion", "acceptance", "external", "durable", "operational"}
MCSignals == [d \in MCDiff |->
  IF d = Wiring THEN [Quiet EXCEPT !["workflow"] = {"only_test_wiring"}, !["script"] = Accepts,
                                   !["policy"] = {"evaluator", "normative", "two_decisions"}]
  ELSE IF d = Release THEN [Quiet EXCEPT !["workflow"] = {"secret", "gate", "failure", "assertion"},
                                   !["verifier"] = Signing, !["policy"] = Signing, !["api"] = Signing \cup {"ceiling"},
                                   !["script"] = {"ceiling", "gate", "failure", "assertion"}]
  ELSE Quiet]

MCPacks == {"application.authentication", "application.authorization", "data.rls", "data.migration-safety"}
MCProfiles == [protected : {{}}, packs : {{}, {"application.authorization", "data.rls"}}]

ARequest(class, fs) ==
  [class |-> class, files |-> fs, head |-> "h1", scenarioMissing |-> FALSE, repositoryMatch |-> TRUE, headMatch |-> TRUE,
   rollback |-> TRUE, replay |-> FALSE, minObservations |-> 2, minCoverage |-> 100, minPrecision |-> 50,
   minRecall |-> 50, maxFalsePositive |-> 50]
MCRequests == {ARequest("formatting", {p}) : p \in MCPath \ {"doc"}}
              \cup {ARequest("routine_code", fs) : fs \in {{"doc", "workflow"}, {"policy", "api"}, {"policy", "workflow"}, {"rls", "policy"}}}
              \cup {[ARequest("deployment", {"script"}) EXCEPT !.rollback = FALSE]}

Evaluated(n, decision) == [id |-> n, decision |-> decision, sound |-> TRUE]
Regrounded(n, status) == [id |-> n, status |-> status]
GoodDocs ==
  [registry |-> [active |-> "e1"], evaluation |-> Evaluated("e1", "PASS"), ledger |-> TRUE,
   reground |-> Regrounded("g1", [r1 |-> "STALE", r2 |-> "CURRENT"]),
   observations |-> [of |-> "g1", expected |-> [r1 |-> "STALE", r2 |-> "CURRENT"]]]
MCDocs ==
  {GoodDocs,
   [GoodDocs EXCEPT !.evaluation = Evaluated("e2", "PASS")],
   [GoodDocs EXCEPT !.registry = [active |-> "e2"], !.evaluation = Evaluated("e2", "FAIL")],
   [GoodDocs EXCEPT !.reground = Regrounded("g2", [r1 |-> "CURRENT", r2 |-> "CURRENT"]),
                    !.observations = [of |-> "g2", expected |-> [r1 |-> "CURRENT", r2 |-> "CURRENT"]]],
   [registry |-> [active |-> Absent], evaluation |-> Absent, ledger |-> FALSE, reground |-> Absent, observations |-> Absent]}
MCFirstDocs == {GoodDocs}

(* One assessment sees any one file replaced.  Beyond that, two requests whose paths the diffs      *)
(* disagree about are assessed twice or replayed, while only the captured pair is replaced, three   *)
(* times.                                                                                           *)
MCReplayRequests == {ARequest("routine_code", fs) : fs \in {{"doc", "workflow"}, {"policy", "workflow"}}}

Replayed ==
  /\ request \in MCReplayRequests /\ source.head = "h1"
  /\ profile = [protected |-> {}, packs |-> {}] /\ docs = GoodDocs

InstanceSpec == TrustInit /\ [][TrustNext /\ ((edits <= 1 /\ made <= 1) \/ Replayed)']_trustVars
=============================================================================
