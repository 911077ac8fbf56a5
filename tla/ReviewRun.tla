------------------------------- MODULE ReviewRun -------------------------------
(***************************************************************************)
(* One review run directory (run.py, gate.py, validation.py, identity.py): *)
(* reviewers keep findings.json and the check results in run.json by hand, *)
(* the commands sync-run, calculate-gate-dir and archive-run read and      *)
(* rewrite the directory file by file, and nothing locks it. A command can *)
(* die between two files, and reviewers edit while it runs.                *)
(*                                                                         *)
(* Files that nothing changes after init-run (profile, pack lock,          *)
(* companion inputs, logs) are taken as in agreement. Time stamps are left *)
(* out: two writings of the same content are the same file.                *)
(***************************************************************************)
EXTENDS Naturals, FiniteSets

CONSTANTS
  Id,          \* the findings of the run
  SeverityOf,  \* the severity of each
  Claim,       \* what a reviewer may write of one: status, confidence, evidence
  Outstanding, \* the checks the profile requires, none of them run yet
  Check,       \* the check results a reviewer may record, as sets of metrics
  BlockOn,     \* gate.block_on of the profile
  Policy,      \* the gate policies an operator may choose
  Snapshot,    \* TRUE when init-run took a protected baseline
  None,        \* no file, no value
  Template,    \* final-gate.md as init-run copies it
  MaxEdits, MaxCommands, MaxMoves   \* bounds: edits, commands, both together

-----------------------------------------------------------------------------
(* What the files hold.                                                    *)

Claims ==
  [status : {"OPEN", "ACCEPTED", "FIXED", "CLOSED", "REJECTED"},
   confidence : {"REJECTED", "HYPOTHESIS", "SUPPORTED", "CONFIRMED", "RESOLVED"},
   evidence : 0..5]

Findings == UNION {[ids -> Claims] : ids \in SUBSET Id}

Checks ==
  SUBSET {"baseline_failed", "integration_missing", "replay_missing", "runtime_missing", "tests_passed"}

Runs == [findings : Findings, checks : Checks, modified : BOOLEAN]

Counted == {"blocking_fail", "blocking_hold", "supported", "fixed_unverified", "accepted"}

Gates ==
  [decision : {"FAIL", "HOLD", "CONDITIONAL_PASS", "PASS"},
   effective : [metrics : [Counted -> Nat], checks : Checks, modified : BOOLEAN], policy : Policy]

ASSUME ReviewAssumption ==
  /\ IsFiniteSet(Id)
  /\ SeverityOf \in [Id -> {"P0", "P1", "P2", "P3"}]
  /\ "P0" \in BlockOn
  /\ Claim \subseteq Claims
  /\ Check \subseteq Checks /\ Outstanding \in Checks
  /\ Snapshot \in BOOLEAN
  /\ None \notin Gates
  /\ MaxEdits \in Nat /\ MaxCommands \in Nat /\ MaxMoves \in Nat

-----------------------------------------------------------------------------
VARIABLES
  file,      \* the files of the directory, by name; None for one not there
  intact,    \* the protected files are as the snapshot saw them
  pc, mem,   \* the running command: its next step, and the run it has in memory
  asked,     \* the policy the running gate was asked for
  touched,   \* somebody edited since the running command began
  gated,     \* the last command was a gate that completed, and nothing changed since
  archives,  \* the archives written
  edits, commands

vars == <<file, intact, pc, mem, asked, touched, gated, archives, edits, commands>>

-----------------------------------------------------------------------------
(* Findings.                                                               *)

(* validate_finding_data, for the fields a claim has. *)
ValidClaim(id, c) ==
  LET severe == SeverityOf[id] \in {"P0", "P1"}
  IN /\ c.confidence = "SUPPORTED" => c.evidence >= 2
     /\ c.confidence = "CONFIRMED" => c.evidence >= 3
     /\ c.confidence = "RESOLVED" => c.evidence >= 5 /\ c.status \in {"FIXED", "CLOSED"}
     /\ severe => c.confidence # "HYPOTHESIS"
     /\ (c.confidence = "REJECTED") = (c.status = "REJECTED")
     /\ c.status = "FIXED" => c.confidence \in {"SUPPORTED", "CONFIRMED", "RESOLVED"}
     /\ c.status = "CLOSED" => c.confidence \in {"RESOLVED", "REJECTED"}
     /\ c.status \in {"OPEN", "ACCEPTED"} => c.confidence \notin {"RESOLVED", "REJECTED"}
     /\ c.status = "ACCEPTED" => /\ c.confidence \in {"SUPPORTED", "CONFIRMED"}
                                 /\ SeverityOf[id] # "P0"

ValidFindings(f) == \A id \in DOMAIN f : ValidClaim(id, f[id])

(* derive_finding_metrics: the metric that counts a finding, if one does. *)
CountsWhileOpen(id, c) ==
  IF c.status # "OPEN" \/ SeverityOf[id] \notin BlockOn THEN "none"
  ELSE IF c.confidence = "SUPPORTED" THEN "supported"
  ELSE IF c.confidence # "CONFIRMED" THEN "none"
  ELSE IF SeverityOf[id] = "P0" THEN "blocking_fail" ELSE "blocking_hold"

Counts(id, c) ==
  IF c.status = "ACCEPTED" THEN "accepted"
  ELSE IF c.status = "FIXED" /\ c.confidence # "RESOLVED" /\ SeverityOf[id] \in BlockOn
       THEN "fixed_unverified"
  ELSE CountsWhileOpen(id, c)

Metrics(f) ==
  [m \in Counted |->
     Cardinality({id \in DOMAIN f : Counts(id, f[id]) = m})]

(* _quality; merge_findings for one finding that two reviewers report. *)
Quality(c) ==
  LET confidence == [REJECTED |-> 0, HYPOTHESIS |-> 1, SUPPORTED |-> 2, CONFIRMED |-> 3, RESOLVED |-> 4]
      status == [REJECTED |-> 0, OPEN |-> 1, ACCEPTED |-> 1, FIXED |-> 2, CLOSED |-> 3]
  IN 100 * c.evidence + 10 * confidence[c.confidence] + status[c.status]

MergedClaim(current, incoming) ==
  LET both == [current EXCEPT !.evidence = IF @ < incoming.evidence THEN incoming.evidence ELSE @]
      conflict == (current.confidence = "REJECTED") # (incoming.confidence = "REJECTED")
  IN IF conflict THEN current
     ELSE IF Quality(incoming) > Quality(both)
          THEN [both EXCEPT !.confidence = incoming.confidence, !.status = incoming.status]
          ELSE both

Merged(f, g) ==
  [id \in DOMAIN f \cup DOMAIN g |->
     IF id \notin DOMAIN f THEN g[id]
     ELSE IF id \notin DOMAIN g THEN f[id]
     ELSE MergedClaim(f[id], g[id])]

-----------------------------------------------------------------------------
(* The gate.                                                               *)

(* calculate_gate_from_run: the finding metrics are always derived anew. *)
Effective(run) == [metrics |-> Metrics(run.findings), checks |-> run.checks, modified |-> run.modified]

(* The rules of the default policy. *)
Triggers(rule, m) ==
  CASE rule = "confirmed_fail"   -> m.metrics.blocking_fail > 0
    [] rule = "baseline_failed"  -> "baseline_failed" \in m.checks
    [] rule = "protected"        -> m.modified
    [] rule = "confirmed_hold"   -> m.metrics.blocking_hold > 0
    [] rule = "integration"      -> "integration_missing" \in m.checks
    [] rule = "replay"           -> "replay_missing" \in m.checks
    [] rule = "unverified"       -> m.metrics.fixed_unverified > 0
    [] rule = "supported"        -> m.metrics.supported > 0
    [] rule = "accepted"         -> m.metrics.accepted > 0
    [] rule = "runtime"          -> "runtime_missing" \in m.checks
    [] rule = "tests"            -> "tests_passed" \in m.checks
    [] rule = "none_confirmed"   -> /\ m.metrics.blocking_fail = 0
                                    /\ m.metrics.blocking_hold = 0
    [] rule = "all_verified"     -> m.metrics.fixed_unverified = 0
    [] rule = "protected_intact" -> ~m.modified

DefaultPolicy ==
  [fail |-> {"confirmed_fail", "baseline_failed", "protected"},
   hold |-> {"confirmed_hold", "integration", "replay", "unverified"},
   conditional_pass |-> {"supported", "accepted", "runtime"},
   pass |-> {"tests", "none_confirmed", "all_verified", "protected_intact"}]

(* calculate_gate; a policy without a PASS rule is refused before this. *)
Decision(m, policy) ==
  IF \E rule \in policy.fail : Triggers(rule, m) THEN "FAIL"
  ELSE IF \E rule \in policy.hold : Triggers(rule, m) THEN "HOLD"
  ELSE IF \E rule \in policy.conditional_pass : Triggers(rule, m) THEN "CONDITIONAL_PASS"
  ELSE IF \A rule \in policy.pass : Triggers(rule, m) THEN "PASS"
  ELSE "HOLD"

Gate(run, policy) ==
  [decision |-> Decision(Effective(run), policy), effective |-> Effective(run), policy |-> policy]

-----------------------------------------------------------------------------
(* What binds the files: identity.json holds a hash of every other file    *)
(* but the manifests, manifest.sha256 of every other file.                 *)
Identified == {"findings", "run", "gate", "policy", "markdown", "verification"}

Hashes(names) == [n \in {m \in names : file[m] # None} |-> file[n]]

FindingsAreValid == ValidFindings(file.run.findings) /\ ValidFindings(file.findings)

FindingsInStep == FindingsAreValid /\ file.run.findings = file.findings

GateInStep ==
  /\ file.gate # None /\ file.policy # None
  /\ file.gate.decision = Gate(file.run, file.policy).decision
  /\ file.gate.effective = Effective(file.run)
  /\ file.gate.policy = file.policy
  /\ file.markdown = file.gate

BaselineInStep ==
  Snapshot => /\ file.verification = [intact |-> intact]
              /\ file.run.modified = ~intact

(* validate_identity_manifest: nothing modified, missing or unexpected. *)
IdentityInStep == file.identity = Hashes(Identified)

(* validate_run_directory with require_gate. *)
Valid == GateInStep /\ FindingsInStep /\ BaselineInStep /\ IdentityInStep

-----------------------------------------------------------------------------
(* initialize_run, _default_metrics. *)
NewRun == [findings |-> <<>>, checks |-> Outstanding, modified |-> FALSE]

Init ==
  /\ file = [findings |-> <<>>, run |-> NewRun, gate |-> None, policy |-> None,
             markdown |-> Template, verification |-> None,
             identity |-> [findings |-> <<>>, run |-> NewRun, markdown |-> Template],
             manifest |-> None]
  /\ intact = TRUE
  /\ pc = "idle" /\ mem = None /\ asked = None /\ touched = FALSE /\ gated = FALSE
  /\ archives = {} /\ edits = 0 /\ commands = 0

(* Reviewers and the repository.                                           *)
Edited ==
  /\ edits < MaxEdits /\ edits + commands < MaxMoves
  /\ edits' = edits + 1
  /\ touched' = (pc # "idle") /\ gated' = FALSE
  /\ UNCHANGED <<pc, mem, asked, archives, commands>>

WriteFinding(id, c) ==
  /\ Edited
  /\ file' = [file EXCEPT !.findings = [i \in DOMAIN @ \cup {id} |-> IF i = id THEN c ELSE @[i]]]
  /\ UNCHANGED intact

(* merge-findings with another reviewer's output, written over             *)
(* findings.json; it refuses inputs that are not valid.                    *)
MergeFindings(id, c) ==
  /\ id \in DOMAIN file.findings /\ file.findings[id] # c
  /\ ValidFindings(file.findings) /\ ValidClaim(id, c)
  /\ Edited
  /\ file' = [file EXCEPT !.findings = Merged(@, [i \in {id} |-> c])]
  /\ UNCHANGED intact

RecordChecks(checks) ==
  /\ checks # file.run.checks
  /\ Edited
  /\ file' = [file EXCEPT !.run = [@ EXCEPT !.checks = checks]]
  /\ UNCHANGED intact

TouchProtected ==
  /\ Edited
  /\ intact' = ~intact
  /\ UNCHANGED file

-----------------------------------------------------------------------------
(* The commands. *)
Begin(first) ==
  /\ pc = "idle" /\ commands < MaxCommands /\ edits + commands < MaxMoves
  /\ commands' = commands + 1
  /\ pc' = first /\ touched' = FALSE
  /\ UNCHANGED <<file, intact, mem, gated, archives, edits>>

BeginSync == Begin("sync") /\ asked' = None

BeginGate(policy) == Begin("sync") /\ asked' = policy

BeginArchive == Begin("validate") /\ asked' = None

End == pc' = "idle" /\ mem' = None /\ asked' = None /\ touched' = FALSE

Step(from, to) ==
  /\ pc = from /\ pc' = to
  /\ UNCHANGED <<intact, asked, touched, archives, edits, commands>>

(* sync_run reads findings.json into the run, or refuses it. *)
ReadFindings ==
  /\ Step("sync", "write_run")
  /\ ValidFindings(file.findings)
  /\ mem' = [file.run EXCEPT !.findings = file.findings]
  /\ UNCHANGED <<file, gated>>

RefuseFindings ==
  /\ pc = "sync" /\ ~ValidFindings(file.findings)
  /\ End
  /\ UNCHANGED <<file, intact, gated, archives, edits, commands>>

WriteRun(from, to) ==
  /\ Step(from, to)
  /\ file' = [file EXCEPT !.run = mem]
  /\ gated' = FALSE
  /\ UNCHANGED mem

(* _refresh_run_identity writes run.json, then identity.json. *)
SyncWritesRun == WriteRun("write_run", "write_identity")

WriteIdentity(from, to) ==
  /\ Step(from, to)
  /\ file' = [file EXCEPT !.identity = Hashes(Identified)]
  /\ UNCHANGED <<mem, gated>>

SyncWritesIdentity == asked # None /\ WriteIdentity("write_identity", "verify")

SyncEnds ==
  /\ pc = "write_identity" /\ asked = None
  /\ file' = [file EXCEPT !.identity = Hashes(Identified)]
  /\ End
  /\ UNCHANGED <<intact, gated, archives, edits, commands>>

(* calculate_gate_directory. *)
VerifyBaselineOnly ==
  /\ Step("verify", "gate_run")
  /\ file' = IF Snapshot THEN [file EXCEPT !.verification = [intact |-> intact]] ELSE file
  /\ UNCHANGED <<mem, gated>>

VerifyBaseline ==
  /\ Step("verify", "gate_run")
  /\ file' = IF Snapshot THEN [file EXCEPT !.verification = [intact |-> intact]] ELSE file
  /\ mem' = IF Snapshot THEN [mem EXCEPT !.modified = ~intact] ELSE mem
  /\ UNCHANGED gated

GateWritesRun == WriteRun("gate_run", "copy_policy")

CopyPolicy ==
  /\ Step("copy_policy", "write_gate")
  /\ file' = [file EXCEPT !.policy = asked]
  /\ UNCHANGED <<mem, gated>>

WriteGate ==
  /\ Step("write_gate", "write_markdown")
  /\ file' = [file EXCEPT !.gate = Gate(mem, file.policy)]
  /\ UNCHANGED <<mem, gated>>

WriteMarkdown ==
  /\ Step("write_markdown", "refresh_run")
  /\ file' = [file EXCEPT !.markdown = Gate(mem, file.policy)]
  /\ UNCHANGED <<mem, gated>>

RefreshRun == WriteRun("refresh_run", "refresh_identity")

GateEnds ==
  /\ pc = "refresh_identity"
  /\ file' = [file EXCEPT !.identity = Hashes(Identified)]
  /\ gated' = ~touched
  /\ End
  /\ UNCHANGED <<intact, archives, edits, commands>>

(* archive_run: validates, reads the run again and rewrites it with its    *)
(* identity and the manifest, then packs whatever the directory holds.     *)
ValidateForArchive ==
  /\ Step("validate", "load_run")
  /\ Valid
  /\ UNCHANGED <<file, mem, gated>>

RefuseArchive ==
  /\ pc = "validate" /\ ~Valid
  /\ End
  /\ UNCHANGED <<file, intact, gated, archives, edits, commands>>

LoadRun ==
  /\ Step("load_run", "archive_run")
  /\ mem' = file.run
  /\ UNCHANGED <<file, gated>>

ArchiveWritesRun == WriteRun("archive_run", "archive_identity")

ArchiveWritesIdentity == WriteIdentity("archive_identity", "manifest")

WriteManifest ==
  /\ Step("manifest", "zip")
  /\ file' = [file EXCEPT !.manifest = Hashes(Identified \cup {"identity"})]
  /\ UNCHANGED <<mem, gated>>

WriteZip ==
  /\ pc = "zip"
  /\ archives' = archives \cup {[file |-> file, intact |-> intact, alone |-> ~touched]}
  /\ End
  /\ UNCHANGED <<file, intact, gated, edits, commands>>

(* A command dies: what it wrote stays. *)
Crash ==
  /\ pc # "idle"
  /\ End
  /\ UNCHANGED <<file, intact, gated, archives, edits, commands>>

Next ==
  \/ \E id \in Id, c \in Claim : WriteFinding(id, c) \/ MergeFindings(id, c)
  \/ \E checks \in Check : RecordChecks(checks)
  \/ TouchProtected
  \/ BeginSync \/ (\E policy \in Policy : BeginGate(policy)) \/ BeginArchive
  \/ ReadFindings \/ RefuseFindings \/ SyncWritesRun \/ SyncWritesIdentity \/ SyncEnds
  \/ VerifyBaseline \/ GateWritesRun \/ CopyPolicy \/ WriteGate \/ WriteMarkdown
  \/ RefreshRun \/ GateEnds
  \/ ValidateForArchive \/ RefuseArchive \/ LoadRun \/ ArchiveWritesRun
  \/ ArchiveWritesIdentity \/ WriteManifest \/ WriteZip
  \/ Crash

Spec == Init /\ [][Next]_vars

-----------------------------------------------------------------------------
(* An archive nobody edited under agrees with itself: its findings are the *)
(* gated ones, its decision is what they, the checks and the policy give,  *)
(* the protected files are as the gate saw them, and its identity and      *)
(* manifest bind what it holds - whatever commands died or were overlapped *)
(* by edits before it.                                                     *)
ArchivesAreGated ==
  \A a \in archives :
    a.alone =>
      /\ a.file.run.findings = a.file.findings
      /\ a.file.gate = Gate(a.file.run, a.file.policy)
      /\ Snapshot => a.file.run.modified = ~a.intact
      /\ a.file.manifest = [n \in DOMAIN a.file.manifest |-> a.file[n]]
      /\ a.file.identity = [n \in DOMAIN a.file.identity |-> a.file[n]]

(* An archived PASS of the default policy has no blocker in any form: none *)
(* open but as a hypothesis, which no P0 or P1 can be, none fixed without  *)
(* proof, no accepted risk, no failed or missing check and no changed      *)
(* protected file.                                                         *)
PassMeansClean ==
  \A a \in archives :
    a.alone /\ a.file.policy = DefaultPolicy /\ a.file.gate.decision = "PASS" =>
      /\ a.file.run.checks = {"tests_passed"}
      /\ Snapshot => a.intact
      /\ \A id \in DOMAIN a.file.findings :
           LET c == a.file.findings[id]
           IN /\ c.status # "ACCEPTED"
              /\ SeverityOf[id] \in BlockOn =>
                   /\ c.status = "FIXED" => c.confidence = "RESOLVED" /\ c.evidence = 5
                   /\ c.status = "OPEN" => /\ c.confidence = "HYPOTHESIS"
                                           /\ SeverityOf[id] \notin {"P0", "P1"}

(* What a gate leaves behind can be archived: validate_run_directory finds *)
(* nothing after a gate that ran alone, whatever it found in the directory.*)
GatedRunsAreArchivable == gated /\ pc = "idle" => Valid
=============================================================================
