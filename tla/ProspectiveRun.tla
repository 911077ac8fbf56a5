---------------------------- MODULE ProspectiveRun ----------------------------
(***************************************************************************)
(* run_github_pr: one pull request taken from GitHub to a bundle of        *)
(* evidence (prospective_automation.py and what it calls). A run reads     *)
(* the pull request in several calls, writes an analysis directory named   *)
(* for the head of the event, binds the policy of the base revision,       *)
(* materializes a case into a workspace, prepares the review packet and    *)
(* writes the bundle. Pushes and base moves fall between any two calls; a  *)
(* run ends anywhere, by a failed call or a crash, and is repeated. What   *)
(* an earlier run left is found by the next: the Trust report and the      *)
(* policy snapshot of the directory, the case, the bundle.                 *)
(*                                                                         *)
(* One repository, one project, one command at a time. The files and the   *)
(* diff of a pull request are a function of its head and its base.         *)
(***************************************************************************)
EXTENDS Naturals, FiniteSets

CONSTANTS
  Head, Base,
  FilesOf,      \* the files GitHub computes for a head on a base, a revision
  PolicyAt,     \* the policy file at a base revision: its classes, by name, or None
  FactsFile,    \* the Trust facts an operator may supply
  RequestFile,  \* the Trust requests an operator may write by hand
  None,
  Budgets       \* bounds: how many moves, edits, stops and runs there may be together

-----------------------------------------------------------------------------
(* What the files hold.                                                    *)

Revisions == [head : Head, base : Base]

(* Of what a record names by its head and its base. *)
Revision(x) == [head |-> x.head, base |-> x.base]

Files == {FilesOf[r] : r \in Revisions}

Policies == {PolicyAt[b] : b \in Base} \ {None}

Classes == UNION {DOMAIN p : p \in Policies}

Tasks == UNION {{p[c].task : c \in DOMAIN p} : p \in Policies}

Requests ==
  RequestFile \cup [task : Head, class : Tasks, files : Files, completed : {f.completed : f \in FactsFile}]

Candidates == [head : Head, base : Base, files : Files, clean : BOOLEAN, profile : Nat]

Bindings ==
  [base : Base, head : Head, files : Files, policy : Policies \cup {None},
   class : Classes \cup {None}, request : Requests \cup {None}]

Reports == [request : Requests, profile : Nat, made : Nat]

PacketDocs == [head : Head, base : Base, files : Files, report : Reports]

Summaries ==
  [cand : Candidates, binding : Bindings \cup {None}, packet : PacketDocs \cup {None},
   status : {"WAITING", "READY"}]

Results == [cand : Candidates, diff : Revisions \cup {None}, summary : Summaries]

ASSUME RunAssumption ==
  /\ \A r \in Revisions : IsFiniteSet(FilesOf[r])
  /\ Budgets \subseteq [moves : Nat, edits : Nat, stops : Nat, runs : Nat]
  /\ None \notin Candidates \cup Bindings \cup Reports \cup PacketDocs \cup Summaries \cup Results

VARIABLES
  pull,       \* the pull request at GitHub
  visits,     \* how often it has come to each head and base
  tree,       \* the local checkout: its head, and where it is modified
  profile,    \* the version of the Project Profile
  report,     \* prospective-trust-report.json of each analysis directory
  snapshot,   \* operational-base-policy.yml of each
  workspace,  \* the report each task was captured with
  bundles,    \* the bundle directories, by execution identity
  run,        \* the running command, None between two
  spent       \* what has been used of each bound

vars == <<pull, visits, tree, profile, report, snapshot, workspace, bundles, run, spent>>

outside == <<pull, visits, tree, profile>>
kept == <<report, snapshot, workspace, bundles>>

-----------------------------------------------------------------------------
(* Policy binding.                                                         *)

(* _matched_classes: a class matches when any changed file does. *)
Matched(policy, files) == {c \in DOMAIN policy : policy[c].paths \cap files # {}}

(* Mutant: of several classes, some class is taken. *)
SelectedOfSeveral(policy, files) ==
  {c \in Matched(policy, files) : c = CHOOSE d \in Matched(policy, files) : TRUE}

(* A class is selected when it is the only one that matches. *)
Selected(policy, files) == {c \in Matched(policy, files) : Matched(policy, files) = {c}}

(* The facts the binder refuses: of another head, or with scenarios the    *)
(* selected class does not know.                                           *)
FactsRefused(facts, rule, head) ==
  facts.head # head \/ ~(facts.completed \subseteq rule.scenarios)

(* The Trust request, when the facts cover the evidence the class asks for. *)
BoundRequest(cand, rule, facts) ==
  IF facts = None THEN None
  ELSE IF ~(rule.evidence \subseteq facts.verified) THEN None
  ELSE [task |-> cand.head, class |-> rule.task, files |-> cand.files,
        completed |-> facts.completed]

Binding(cand, policy, class, request) ==
  [base |-> cand.base, head |-> cand.head, files |-> cand.files,
   policy |-> policy, class |-> class, request |-> request]

-----------------------------------------------------------------------------
(* GitHub, the checkout and the profile, moved by others.                  *)

Count(name) ==
  /\ spent' = [spent EXCEPT ![name] = @ + 1]
  /\ \E b \in Budgets : \A n \in DOMAIN b : spent'[n] <= b[n]

(* A push, forced back to an earlier head or not, or another base. *)
PullMoves ==
  /\ Count("moves")
  /\ pull' \in Revisions \ {pull}
  /\ pull'.head = pull.head \/ pull'.base = pull.base
  /\ visits' = [visits EXCEPT ![pull'] = @ + 1]
  /\ UNCHANGED <<tree, profile, kept, run>>

(* The operator checks out a head, or files change in or outside the scope. *)
TreeChanges ==
  /\ Count("edits")
  /\ \E h \in Head, s \in {"clean", "outside", "inside"} : tree' = [head |-> h, state |-> s]
  /\ tree' # tree
  /\ UNCHANGED <<pull, visits, profile, kept, run>>

ProfileChanges ==
  /\ Count("edits")
  /\ profile' = profile + 1
  /\ UNCHANGED <<pull, visits, tree, kept, run>>

-----------------------------------------------------------------------------
(* Steps of the running command.                                           *)

At(step) == run # None /\ run.at = step

Continue(r) == run' = r /\ UNCHANGED spent

(* The run ends with an error. *)
Refuse == run' = None /\ UNCHANGED spent

(* A call fails, or the process dies. *)
Stop == /\ run # None
        /\ Count("stops")
        /\ run' = None
        /\ UNCHANGED <<outside, kept>>

Input ==
  [mode : {"policy"}, facts : FactsFile \cup {None}, request : {None}]
    \cup [mode : {"explicit"}, facts : {None}, request : RequestFile]
    \cup [mode : {"none"}, facts : {None}, request : {None}]

Begin ==
  /\ run = None
  /\ Count("runs")
  /\ \E e \in Head, i \in Input :
       run' = [at |-> "view", event |-> e, input |-> i, live |-> None, files |-> {},
               diff |-> None, cand |-> None, binding |-> None, request |-> None,
               id |-> None, packet |-> None, left |-> {}]
  /\ UNCHANGED <<outside, kept>>

(* gh pr view: head, base, and how many files there are. *)
Viewed == Revision(pull)

View ==
  /\ At("view")
  /\ Continue([run EXCEPT !.at = "files", !.live = Viewed])
  /\ UNCHANGED <<outside, kept>>

(* The files, paginated, in a call of their own; when it fails, those the  *)
(* view named. Another number than the view declared is an error.          *)
DeclaredFiles == FilesOf[run.live]

CollectedFiles ==
  {f \in {FilesOf[pull], DeclaredFiles} : Cardinality(f) = Cardinality(DeclaredFiles)}

Miscounted == Cardinality(FilesOf[pull]) # Cardinality(DeclaredFiles)

ReadFiles ==
  /\ At("files")
  /\ \/ \E f \in CollectedFiles : Continue([run EXCEPT !.at = "diff", !.files = f])
     \/ Miscounted /\ Refuse
  /\ UNCHANGED <<outside, kept>>

(* The diff, in a third call; a failure is only a warning. *)
ReadDiff ==
  /\ At("diff")
  /\ \E d \in {Viewed, None} : Continue([run EXCEPT !.at = "analyze", !.diff = d])
  /\ UNCHANGED <<outside, kept>>

(* analyze_pull_request: the checkout must be the head and unmodified in   *)
(* the scope; the candidate records the whole tree.                        *)
Analyzable == tree.head = run.live.head /\ tree.state # "inside" /\ run.files # {}

Candidate ==
  [head |-> run.live.head, base |-> run.live.base, files |-> run.files,
   clean |-> tree.state = "clean", profile |-> profile]

Analyze ==
  /\ At("analyze")
  /\ \/ /\ Analyzable /\ run.event = run.live.head
        /\ Continue([run EXCEPT !.at = "bind", !.cand = Candidate, !.live = None, !.files = {}])
     \/ /\ ~(Analyzable /\ run.event = run.live.head)
        /\ Refuse
  /\ UNCHANGED <<outside, kept>>

Bound(binding) ==
  Continue([run EXCEPT !.at = "identify", !.binding = binding, !.request = binding.request])

(* No policy file at the base: nothing is bound, the snapshot of an        *)
(* earlier run stays.                                                      *)
BindNone ==
  /\ PolicyAt[run.cand.base] = None
  /\ Bound(Binding(run.cand, None, None, None))
  /\ UNCHANGED snapshot

(* No class matches, or several do. *)
BindUnselected ==
  /\ Selected(PolicyAt[run.cand.base], run.cand.files) = {}
  /\ Bound(Binding(run.cand, PolicyAt[run.cand.base], None, None))

BindSelected ==
  \E c \in Selected(PolicyAt[run.cand.base], run.cand.files) :
    LET policy == PolicyAt[run.cand.base]
        facts == run.input.facts
    IN IF facts # None /\ FactsRefused(facts, policy[c], run.cand.head)
       THEN Refuse
       ELSE Bound(Binding(run.cand, policy, c, BoundRequest(run.cand, policy[c], facts)))

(* bind_operational_policy, of a clean candidate, at the base it names. *)
Bind ==
  /\ At("bind") /\ run.input.mode = "policy"
  /\ \/ ~run.cand.clean /\ Refuse /\ UNCHANGED snapshot
     \/ run.cand.clean /\ BindNone
     \/ /\ run.cand.clean /\ PolicyAt[run.cand.base] # None
        /\ snapshot' = [snapshot EXCEPT ![run.event] = PolicyAt[run.cand.base]]
        /\ BindUnselected \/ BindSelected
  /\ UNCHANGED <<outside, report, workspace, bundles>>

Unbound ==
  /\ At("bind") /\ run.input.mode # "policy"
  /\ Continue([run EXCEPT !.at = "identify", !.request = run.input.request])
  /\ UNCHANGED <<outside, kept>>

(* The execution identity, of the profile as it is now. Without a request  *)
(* the bundle is next.                                                     *)
Identity == [head |-> run.cand.head, profile |-> profile, request |-> run.request]

Identify ==
  /\ At("identify")
  /\ Continue([run EXCEPT !.id = Identity,
                          !.at = IF run.request = None THEN "bundle" ELSE "case view"])
  /\ UNCHANGED <<outside, kept>>

-----------------------------------------------------------------------------
(* With a Trust request: the case, and the packet for its review.          *)

(* materialize_github_prospective_capture and _verify_live_github collect  *)
(* the pull request anew, in two calls, and compare it with the candidate. *)
(* Mutant: only the head is compared. *)
SameHead == pull.head = run.cand.head

SameRevisions == pull.head = run.cand.head /\ pull.base = run.cand.base

LiveView(step, next) ==
  /\ At(step)
  /\ \/ SameRevisions /\ Continue([run EXCEPT !.at = next, !.live = Viewed])
     \/ ~SameRevisions /\ Refuse
  /\ UNCHANGED <<outside, kept>>

LiveFiles(step, next) ==
  /\ At(step)
  /\ \/ run.cand.files \in CollectedFiles /\ Continue([run EXCEPT !.at = next, !.live = None])
     \/ (Miscounted \/ CollectedFiles # {run.cand.files}) /\ Refuse
  /\ UNCHANGED <<outside, kept>>

(* The checkout, the profile and the request still are the candidate's. *)
Materializable ==
  /\ run.cand.clean
  /\ tree.head = run.cand.head /\ tree.state = "clean"
  /\ profile = run.cand.profile
  /\ run.request.task = run.cand.head
  /\ run.request.files = run.cand.files

(* verify_trust_report_sources: a report replays from what it was made of. *)
Replays(rep, request) == rep.request = request /\ rep.profile = profile

(* assess_trust; the number stands for the time it was generated. *)
Assessed == [request |-> run.request, profile |-> profile, made |-> spent.runs]

(* Mutant: the report of an earlier run is written over. *)
MaterializeAnew ==
  /\ At("materialize")
  /\ \/ /\ Materializable
        /\ report' = [report EXCEPT ![run.event] = Assessed]
        /\ Continue([run EXCEPT !.at = "intake"])
     \/ ~Materializable /\ Refuse /\ UNCHANGED report
  /\ UNCHANGED <<outside, snapshot, workspace, bundles>>

(* A report that is there is replayed, not made again. *)
Materialize ==
  /\ At("materialize")
  /\ \/ /\ Materializable /\ report[run.event] = None
        /\ report' = [report EXCEPT ![run.event] = Assessed]
        /\ Continue([run EXCEPT !.at = "intake"])
     \/ /\ Materializable /\ report[run.event] # None
        /\ Replays(report[run.event], run.request)
        /\ Continue([run EXCEPT !.at = "intake"])
        /\ UNCHANGED report
     \/ /\ \/ ~Materializable
           \/ report[run.event] # None /\ ~Replays(report[run.event], run.request)
        /\ Refuse
        /\ UNCHANGED report
  /\ UNCHANGED <<outside, snapshot, workspace, bundles>>

(* intake_prospective_case: one report per task and revision; the same     *)
(* again changes nothing.                                                  *)
TakesIn(rep) ==
  /\ Replays(rep, run.request)
  /\ workspace[run.cand.head] \in {None, rep}

Intake ==
  /\ At("intake")
  /\ \/ /\ TakesIn(report[run.event])
        /\ workspace' = [workspace EXCEPT ![run.cand.head] = report[run.event]]
        /\ Continue([run EXCEPT !.at = "packet view"])
     \/ ~TakesIn(report[run.event]) /\ Refuse /\ UNCHANGED workspace
  /\ UNCHANGED <<outside, report, snapshot, bundles>>

(* _candidate_binding_checks and _build_packet: the candidate is that of   *)
(* the captured report.                                                    *)
BindsCase == /\ run.cand.files = workspace[run.cand.head].request.files
             /\ run.cand.profile = workspace[run.cand.head].profile

Packet == [head |-> run.cand.head, base |-> run.cand.base, files |-> run.cand.files,
           report |-> workspace[run.cand.head]]

Prepare ==
  /\ At("prepare")
  /\ IF BindsCase THEN Continue([run EXCEPT !.at = "bundle", !.packet = Packet]) ELSE Refuse
  /\ UNCHANGED <<outside, kept>>

Case == LiveView("case view", "case files") \/ LiveFiles("case files", "materialize")
          \/ Materialize \/ Intake
Review == LiveView("packet view", "packet files") \/ LiveFiles("packet files", "prepare")
            \/ Prepare

-----------------------------------------------------------------------------
(* The bundle.                                                             *)

(* What a run has to bundle, by name; None where it has no such file. The  *)
(* summary names the candidate, the binding and the packet by their        *)
(* digests. The snapshot is the directory's, whoever left it.              *)
Summary == [cand |-> run.cand, binding |-> run.binding, packet |-> run.packet,
            status |-> IF run.request = None THEN "WAITING" ELSE "READY"]

(* build_deterministic_result, of a run without a request. *)
Result == IF run.request = None
          THEN [cand |-> run.cand, diff |-> run.diff, summary |-> Summary] ELSE None

Snapshot == IF run.input.mode = "policy" THEN snapshot[run.event] ELSE None

Evidence ==
  [name \in {"candidate", "diff", "binding", "snapshot", "facts", "request", "report", "packet"} |->
     CASE name = "candidate" -> run.cand
       [] name = "diff" -> run.diff
       [] name = "binding" -> run.binding
       [] name = "snapshot" -> Snapshot
       [] name = "facts" -> run.input.facts
       [] name = "request" -> run.request
       [] name = "report" -> IF run.packet = None THEN None ELSE report[run.event]
       [] name = "packet" -> run.packet]

(* _build_policy_match_explanation: the snapshot must be the policy the    *)
(* binding names, and match the same classes.                              *)
Explained == Snapshot # None => Snapshot = run.binding.policy

Explanation ==
  IF Snapshot = None THEN None
  ELSE [policy |-> Snapshot, classes |-> Matched(Snapshot, run.cand.files)]

(* Every file a run writes, in the order it writes them: the evidence is   *)
(* sorted by its path.                                                     *)
Rank ==
  [explanation |-> 1, summary |-> 2, result |-> 3, snapshot |-> 4, binding |-> 5, facts |-> 6,
   candidate |-> 7, packet |-> 8, diff |-> 9, report |-> 10, request |-> 11]

File == DOMAIN Rank

Output ==
  [name \in File |->
     CASE name = "explanation" -> Explanation
       [] name = "summary" -> Summary
       [] name = "result" -> Result
       [] OTHER -> Evidence[name]]

Empty == [file |-> [name \in File |-> None], manifest |-> None]

Directory == IF run.id \in DOMAIN bundles THEN bundles[run.id] ELSE Empty

Write(files, manifest) ==
  bundles' = [id \in DOMAIN bundles \cup {run.id} |->
                IF id = run.id THEN [file |-> files, manifest |-> manifest] ELSE bundles[id]]

(* _assert_source_closure holds of a run's own candidate, binding and      *)
(* packet. The explanation of an earlier run is removed first.             *)
BundleStart ==
  /\ At("bundle")
  /\ Write([Directory.file EXCEPT !["explanation"] = None], Directory.manifest)
  /\ \/ /\ Explained
        /\ Continue([run EXCEPT !.at = "bundle files",
                                !.left = {name \in File : Output[name] # None}])
     \/ ~Explained /\ Refuse
  /\ UNCHANGED <<outside, report, snapshot, workspace>>

(* Then file after file is written over; what this run has not is left. *)
FirstOf(names) == {name \in names : \A other \in names : Rank[name] <= Rank[other]}

BundleFile ==
  /\ At("bundle files")
  /\ \E name \in FirstOf(run.left) :
       /\ Write([Directory.file EXCEPT ![name] = Output[name]], Directory.manifest)
       /\ Continue([run EXCEPT !.left = @ \ {name}])
  /\ UNCHANGED <<outside, report, snapshot, workspace>>

(* Mutant: the manifest lists the evidence, and not the summary. *)
ListedEvidence(files) == [name \in DOMAIN Evidence |-> files[name]]

(* Every file found in the directory is listed, with its digest. *)
ListedFiles(files) == files

BundleManifest ==
  /\ At("bundle files") /\ run.left = {}
  /\ Write(Directory.file, ListedFiles(Directory.file))
  /\ Refuse
  /\ UNCHANGED <<outside, report, snapshot, workspace>>

Bundle == BundleStart \/ BundleFile \/ BundleManifest

(* verify_evidence_bundle: the listed files are as listed, and there is a  *)
(* deterministic result when the manifest names one.                       *)
Verifies(bundle) ==
  /\ bundle.manifest # None
  /\ \A name \in DOMAIN bundle.manifest :
       bundle.manifest[name] # None => bundle.file[name] = bundle.manifest[name]

-----------------------------------------------------------------------------
Init ==
  /\ pull \in Revisions
  /\ visits = [r \in Revisions |-> IF r = pull THEN 1 ELSE 0]
  /\ tree = [head |-> pull.head, state |-> "clean"]
  /\ profile = 0
  /\ report = [h \in Head |-> None]
  /\ snapshot = [h \in Head |-> None]
  /\ workspace = [h \in Head |-> None]
  /\ bundles = [id \in {} |-> None]
  /\ run = None
  /\ spent = [moves |-> 0, edits |-> 0, runs |-> 0, stops |-> 0]

Next ==
  \/ PullMoves \/ TreeChanges \/ ProfileChanges
  \/ Begin \/ Stop
  \/ View \/ ReadFiles \/ ReadDiff \/ Analyze
  \/ Bind \/ Unbound \/ Identify
  \/ Case \/ Review \/ Bundle

Spec == Init /\ [][Next]_vars

-----------------------------------------------------------------------------
(* Properties.                                                             *)

Packets == {bundles[id].file["packet"] : id \in DOMAIN bundles} \ {None}

(* A packet shows the reviewer the files the pull request really had: its  *)
(* head and its base, read in many calls, were the pull request's at one   *)
(* moment, the captured assessment is of the files the packet shows, and   *)
(* these are the files of that head and base, whatever is pushed between   *)
(* the calls: the files of another revision would have to be read, and     *)
(* found again, while the pull request is away, and the checks of its head *)
(* and base while it is there, so that it came to them three times         *)
(* (materialize_github_prospective_capture, _verify_live_github).          *)
PacketsAreOfOneMoment ==
  \A p \in Packets :
    /\ visits[Revision(p)] > 0
    /\ p.report.request.files = p.files
    /\ visits[Revision(p)] < 3 => p.files = FilesOf[Revision(p)]

(* A verified bundle whose summary says that the policy bound the request  *)
(* holds that policy, the one at the base its packet names; the request    *)
(* has the class of it that alone matches the files of the packet,         *)
(* whichever policies earlier runs on other bases left in the directories  *)
(* (bind_operational_policy, fetch_base_operational_policy).               *)
AssessedUnderTheBasePolicy ==
  \A id \in DOMAIN bundles :
    LET f == bundles[id].file
        policy == f["snapshot"]
    IN (Verifies(bundles[id]) /\ f["packet"] # None /\ f["summary"].binding # None)
         => /\ policy = PolicyAt[f["packet"].base]
            /\ \E c \in DOMAIN policy :
                 /\ f["request"].class = policy[c].task
                 /\ \A d \in DOMAIN policy :
                      (policy[d].paths \cap f["packet"].files # {}) <=> d = c

(* A retry of a run that captured its case and did not finish is not       *)
(* refused: it finds the report it captured, and not a later one of the    *)
(* same request, which the workspace would take for another assessment     *)
(* (materialize_github_prospective_capture, intake_prospective_case).      *)
RetriesFindTheirReport ==
  (At("intake") /\ workspace[run.cand.head] # None)
    => (Replays(workspace[run.cand.head], run.request)
          => report[run.event] = workspace[run.cand.head])

(* A bundle that verifies is whole: the candidate, the packet and the      *)
(* deterministic result in it are those its summary names, though it is    *)
(* written file by file, over what an earlier run of the same identity     *)
(* left, and a run may die in between (write_evidence_bundle).             *)
VerifiedBundlesAreWhole ==
  \A id \in DOMAIN bundles :
    LET f == bundles[id].file
    IN Verifies(bundles[id])
         => /\ f["candidate"] = f["summary"].cand
            /\ f["summary"].status = "READY" => f["packet"] = f["summary"].packet
            /\ f["summary"].status = "WAITING" => f["result"].summary = f["summary"]
===============================================================================
