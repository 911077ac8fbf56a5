---------------------------- MODULE ReviewRunProofs ----------------------------
(***************************************************************************)
(* Proofs about ReviewRun, for any findings, severities, claims, checks    *)
(* and policies, with or without a protected baseline, and any number of   *)
(* edits and commands.                                                     *)
(*                                                                         *)
(* Nothing locks the directory, so every fact about the files is a fact    *)
(* about commands that nobody edited under: the run in memory then has the *)
(* findings of the directory, each file a gate writes agrees with those it *)
(* wrote before, and an archive adds nothing to what validation found.     *)
(* Commands that died leave files in any mixture; the invariant says       *)
(* nothing of them, and the next command starts from what it reads.        *)
(*                                                                         *)
(* The last part is about CampaignProjection, which shares nothing with    *)
(* the review run: the workspaces, processes, events and failures of a     *)
(* projection, again in any number.                                        *)
(***************************************************************************)
EXTENDS ReviewRun, CampaignProjection, FiniteSetTheorems, TLAPS

-----------------------------------------------------------------------------
(* The inductive invariant.                                                *)

Names == {"findings", "run", "gate", "policy", "markdown", "verification", "identity", "manifest"}

(* The steps of a gate, and of an archive, in their order. *)
Syncing == {"write_run", "write_identity"}
Gating == {"verify", "gate_run", "copy_policy", "write_gate", "write_markdown", "refresh_run",
           "refresh_identity"}
Archiving == {"load_run", "archive_run", "archive_identity", "manifest", "zip"}
Steps == {"idle", "sync", "validate"} \cup Syncing \cup Gating \cup Archiving

TypeOK ==
  /\ DOMAIN file = Names
  /\ file.findings \in Findings /\ file.run \in Runs
  /\ file.gate \in Gates \cup {None}
  /\ intact \in BOOLEAN /\ touched \in BOOLEAN /\ gated \in BOOLEAN
  /\ pc \in Steps
  /\ asked \in Policy \cup {None}

(* What a command holds, whoever edits while it runs. *)
HeldOK ==
  /\ pc \in Syncing \cup Gating \cup {"archive_run", "archive_identity"} => mem \in Runs
  /\ pc \in Gating => asked # None
  /\ pc \in {"write_gate", "write_markdown", "refresh_run", "refresh_identity"} => file.policy = asked

(* What a command that nobody edited under knows of the directory. *)
MemoryInStep == ValidFindings(file.findings) /\ mem.findings = file.findings

BaselineRead ==
  Snapshot => file.verification = [intact |-> intact] /\ mem.modified = ~intact

SyncOK ==
  /\ pc \in Syncing \cup {"verify"} => MemoryInStep
  /\ pc \in {"write_identity", "verify"} => file.run = mem

GateOK ==
  /\ pc \in Gating \ {"verify"} => MemoryInStep /\ BaselineRead
  /\ pc \in Gating \ {"verify", "gate_run"} => file.run = mem
  /\ pc \in {"write_markdown", "refresh_run", "refresh_identity"} => file.gate = Gate(mem, file.policy)
  /\ pc \in {"refresh_run", "refresh_identity"} => file.markdown = file.gate

ArchiveOK ==
  /\ pc \in Archiving => Valid
  /\ pc = "archive_run" => mem = file.run
  /\ pc = "zip" => file.manifest = Hashes(Identified \cup {"identity"})

AloneOK == ~touched => SyncOK /\ GateOK /\ ArchiveOK

(* A directory as its last gate left it, and the steps that leave it so. *)
GatedOK == gated => Valid /\ pc \in {"idle", "sync", "write_run", "validate", "load_run", "archive_run"}

(* What an archive that nobody edited under has. *)
Archived(a) ==
  /\ a.file.findings \in Findings /\ ValidFindings(a.file.findings)
  /\ a.file.run \in Runs /\ a.file.run.findings = a.file.findings
  /\ a.file.gate = Gate(a.file.run, a.file.policy)
  /\ a.intact \in BOOLEAN /\ (Snapshot => a.file.run.modified = ~a.intact)
  /\ a.file.manifest = [n \in DOMAIN a.file.manifest |-> a.file[n]]
  /\ a.file.identity = [n \in DOMAIN a.file.identity |-> a.file[n]]

ArchivesOK == \A a \in archives : a.alone => Archived(a)

IInv == TypeOK /\ HeldOK /\ AloneOK /\ GatedOK /\ ArchivesOK

-----------------------------------------------------------------------------
(* The data.                                                               *)

LEMMA FindingsTyped ==
  ASSUME NEW f \in Findings
  PROVE  DOMAIN f \subseteq Id /\ f \in [DOMAIN f -> Claims]
  BY DEF Findings

LEMMA FindingsBuilt ==
  ASSUME NEW ids \in SUBSET Id, NEW f \in [ids -> Claims]
  PROVE  f \in Findings
  BY DEF Findings

(* How many findings a metric counts, and what it means that it counts     *)
(* none.                                                                   *)
LEMMA MetricsTyped ==
  ASSUME NEW f \in Findings
  PROVE  /\ Metrics(f) \in [Counted -> Nat]
         /\ \A m \in Counted : Metrics(f)[m] = 0 => \A id \in DOMAIN f : Counts(id, f[id]) # m
<1> DEFINE Those(m) == {id \in DOMAIN f : Counts(id, f[id]) = m}
<1>1. \A m : IsFiniteSet(Those(m))
  <2>1. IsFiniteSet(Id)
    BY ReviewAssumption
  <2>. QED
    BY <2>1, FindingsTyped, FS_Subset
<1>2. \A m : Cardinality(Those(m)) \in Nat
  BY <1>1, FS_CardinalityType
<1>3. \A m : Cardinality(Those(m)) = 0 => Those(m) = {}
  BY <1>1, FS_EmptySet
<1>4. Metrics(f) = [m \in Counted |-> Cardinality(Those(m))]
  BY DEF Metrics
<1>5. Metrics(f) \in [Counted -> Nat]
  <2> HIDE DEF Those
  <2>. QED BY <1>2, <1>4
<1>6. \A m \in Counted : Metrics(f)[m] = 0 => Those(m) = {}
  <2> HIDE DEF Those
  <2>. QED BY <1>3, <1>4
<1>. QED
  BY <1>5, <1>6

LEMMA DecisionTyped ==
  ASSUME NEW m, NEW policy
  PROVE  Decision(m, policy) \in {"FAIL", "HOLD", "CONDITIONAL_PASS", "PASS"}
  BY DEF Decision

LEMMA GateTyped ==
  ASSUME NEW run \in Runs, NEW policy \in Policy
  PROVE  Gate(run, policy) \in Gates
<1>1. run.findings \in Findings /\ run.checks \in Checks /\ run.modified \in BOOLEAN
  BY DEF Runs
<1>2. Metrics(run.findings) \in [Counted -> Nat]
  BY <1>1, MetricsTyped
<1>. QED
  BY <1>1, <1>2, DecisionTyped DEF Gate, Gates, Effective

LEMMA MergedClaimTyped ==
  ASSUME NEW current \in Claims, NEW incoming \in Claims
  PROVE  MergedClaim(current, incoming) \in Claims
<1> DEFINE both == [current EXCEPT !.evidence = IF @ < incoming.evidence THEN incoming.evidence ELSE @]
<1>1. both \in Claims
  BY DEF Claims
<1>2. [both EXCEPT !.confidence = incoming.confidence, !.status = incoming.status] \in Claims
  <2> HIDE DEF both
  <2>. QED BY <1>1 DEF Claims
<1>3. MergedClaim(current, incoming) \in
        {current, both, [both EXCEPT !.confidence = incoming.confidence, !.status = incoming.status]}
  BY Zenon DEF MergedClaim
<1> HIDE DEF both
<1>. QED
  BY <1>1, <1>2, <1>3

LEMMA MergedTyped ==
  ASSUME NEW f \in Findings, NEW g \in Findings
  PROVE  Merged(f, g) \in Findings
<1>1. \A id \in DOMAIN f \cap DOMAIN g : MergedClaim(f[id], g[id]) \in Claims
  BY FindingsTyped, MergedClaimTyped
<1>2. Merged(f, g) \in [DOMAIN f \cup DOMAIN g -> Claims]
  BY <1>1, FindingsTyped DEF Merged
<1>. QED
  BY <1>2, FindingsTyped, FindingsBuilt

(* A directory stays valid while the files that identity.json names and    *)
(* the protected files are what they were.                                 *)
LEMMA ValidKept ==
  ASSUME Valid, UNCHANGED intact, \A n \in Identified \cup {"identity"} : file'[n] = file[n]
  PROVE  Valid'
<1>1. Hashes(Identified)' = Hashes(Identified)
  BY DEF Hashes, Identified
<1>2. /\ file'.findings = file.findings /\ file'.run = file.run /\ file'.gate = file.gate
      /\ file'.policy = file.policy /\ file'.markdown = file.markdown
      /\ file'.verification = file.verification /\ file'.identity = file.identity
  BY DEF Identified
<1>. QED
  BY <1>1, <1>2 DEF Valid, GateInStep, FindingsInStep, FindingsAreValid, BaselineInStep, IdentityInStep

(* Writing the identity again keeps it so: it names no manifest.           *)
LEMMA ValidIdentified ==
  ASSUME TypeOK, Valid, UNCHANGED intact, file' = [file EXCEPT !.identity = Hashes(Identified)]
  PROVE  Valid'
<1>1. file'.identity = file.identity
  BY DEF TypeOK, Names, Valid, IdentityInStep
<1>2. \A n \in Identified : file'[n] = file[n]
  BY DEF TypeOK, Names, Identified
<1>. QED
  BY <1>1, <1>2, ValidKept

-----------------------------------------------------------------------------
(* The start.                                                              *)

LEMMA InitIInv == Init => IInv
<1> SUFFICES ASSUME Init PROVE IInv
  OBVIOUS
<1>1. <<>> \in Findings
  <2>1. <<>> \in [{} -> Claims]
    OBVIOUS
  <2>. QED BY <2>1, FindingsBuilt
<1>2. NewRun \in Runs
  BY <1>1, ReviewAssumption DEF NewRun, Runs
<1>3. TypeOK
  BY <1>1, <1>2 DEF Init, TypeOK, Names, Steps
<1>. QED
  BY <1>3 DEF Init, IInv, HeldOK, AloneOK, SyncOK, GateOK, ArchiveOK, GatedOK, ArchivesOK,
     Syncing, Gating, Archiving

-----------------------------------------------------------------------------
(* Reviewers and the repository: an edit under a command marks it.         *)

LEMMA EditStep ==
  ASSUME IInv, Edited, DOMAIN file' = Names, file'.findings \in Findings, file'.run \in Runs,
         UNCHANGED <<file.gate, file.policy>>, intact' \in BOOLEAN
  PROVE  IInv'
<1>1. UNCHANGED <<pc, mem, asked, archives>> /\ touched' = (pc # "idle") /\ gated' = FALSE
  BY DEF Edited
<1>2. TypeOK'
  BY <1>1 DEF IInv, TypeOK
<1>3. HeldOK'
  BY <1>1 DEF IInv, HeldOK
<1>4. AloneOK'
  BY <1>1 DEF AloneOK, SyncOK, GateOK, ArchiveOK, Syncing, Gating, Archiving
<1>. QED
  BY <1>1, <1>2, <1>3, <1>4 DEF IInv, GatedOK, ArchivesOK

LEMMA WriteFindingStep ==
  ASSUME IInv, NEW id \in Id, NEW c \in Claim, WriteFinding(id, c)
  PROVE  IInv'
<1> DEFINE new == [i \in DOMAIN file.findings \cup {id} |-> IF i = id THEN c ELSE file.findings[i]]
<1>1. file' = [file EXCEPT !.findings = new] /\ Edited /\ UNCHANGED intact
  BY DEF WriteFinding
<1>2. new \in Findings
  <2>1. file.findings \in Findings /\ c \in Claims
    BY ReviewAssumption DEF IInv, TypeOK
  <2>2. DOMAIN file.findings \subseteq Id /\ file.findings \in [DOMAIN file.findings -> Claims]
    BY <2>1, FindingsTyped
  <2>3. new \in [DOMAIN file.findings \cup {id} -> Claims]
    BY <2>1, <2>2
  <2>. QED BY <2>2, <2>3, FindingsBuilt
<1> HIDE DEF new
<1>. QED
  BY <1>1, <1>2, EditStep DEF IInv, TypeOK, Names

LEMMA MergeFindingsStep ==
  ASSUME IInv, NEW id \in Id, NEW c \in Claim, MergeFindings(id, c)
  PROVE  IInv'
<1> DEFINE new == Merged(file.findings, [i \in {id} |-> c])
<1>1. file' = [file EXCEPT !.findings = new] /\ Edited /\ UNCHANGED intact
  BY DEF MergeFindings
<1>2. new \in Findings
  <2>1. file.findings \in Findings /\ [i \in {id} |-> c] \in [{id} -> Claims]
    BY ReviewAssumption DEF IInv, TypeOK
  <2>2. [i \in {id} |-> c] \in Findings
    BY <2>1, FindingsBuilt
  <2>. QED BY <2>1, <2>2, MergedTyped
<1> HIDE DEF new
<1>. QED
  BY <1>1, <1>2, EditStep DEF IInv, TypeOK, Names

LEMMA RecordChecksStep ==
  ASSUME IInv, NEW checks \in Check, RecordChecks(checks)
  PROVE  IInv'
<1> DEFINE new == [file.run EXCEPT !.checks = checks]
<1>1. file' = [file EXCEPT !.run = new] /\ Edited /\ UNCHANGED intact
  BY DEF RecordChecks
<1>2. new \in Runs
  BY ReviewAssumption DEF IInv, TypeOK, Runs
<1> HIDE DEF new
<1>. QED
  BY <1>1, <1>2, EditStep DEF IInv, TypeOK, Names

LEMMA TouchProtectedStep == ASSUME IInv, TouchProtected PROVE IInv'
  BY EditStep DEF TouchProtected, IInv, TypeOK

-----------------------------------------------------------------------------
(* Commands that begin and end without writing.                            *)

LEMMA BeginStep ==
  ASSUME IInv, NEW first \in {"sync", "validate"}, Begin(first), asked' \in Policy \cup {None}
  PROVE  IInv'
<1>1. pc' = first /\ touched' = FALSE /\ UNCHANGED <<file, intact, mem, gated, archives>>
  BY DEF Begin
<1>2. TypeOK'
  BY <1>1 DEF IInv, TypeOK, Steps
<1>3. HeldOK' /\ AloneOK'
  BY <1>1 DEF HeldOK, AloneOK, SyncOK, GateOK, ArchiveOK, Syncing, Gating, Archiving
<1>4. GatedOK'
  BY <1>1, ValidKept DEF IInv, GatedOK
<1>. QED
  BY <1>1, <1>2, <1>3, <1>4 DEF IInv, ArchivesOK

(* Nothing is said of a command that is over, but of what it left.         *)
LEMMA EndingStep ==
  ASSUME IInv, End, DOMAIN file' = Names, file'.findings \in Findings, file'.run \in Runs,
         file'.gate \in Gates \cup {None}, UNCHANGED intact, gated' \in BOOLEAN, gated' => Valid',
         ArchivesOK'
  PROVE  IInv'
<1>1. pc' = "idle" /\ touched' = FALSE /\ asked' = None
  BY DEF End
<1>2. TypeOK'
  BY <1>1 DEF IInv, TypeOK, Steps
<1>3. HeldOK' /\ AloneOK' /\ GatedOK'
  BY <1>1 DEF HeldOK, AloneOK, SyncOK, GateOK, ArchiveOK, Syncing, Gating, Archiving, GatedOK
<1>. QED
  BY <1>2, <1>3 DEF IInv

LEMMA QuietEndStep ==
  ASSUME IInv, RefuseFindings \/ RefuseArchive \/ Crash
  PROVE  IInv'
<1>1. End /\ UNCHANGED <<file, intact, gated, archives>>
  BY DEF RefuseFindings, RefuseArchive, Crash
<1>2. gated' => Valid'
  BY <1>1, ValidKept DEF IInv, GatedOK
<1>. QED
  BY <1>1, <1>2, EndingStep DEF IInv, TypeOK, ArchivesOK

-----------------------------------------------------------------------------
(* sync-run, and how a gate begins.                                        *)

LEMMA ReadFindingsStep ==
  ASSUME IInv, ReadFindings
  PROVE  IInv'
<1>1. /\ pc = "sync" /\ pc' = "write_run" /\ ValidFindings(file.findings)
      /\ UNCHANGED <<file, intact, asked, touched, gated, archives>>
  BY DEF ReadFindings, Step
<1>2. mem' \in Runs /\ mem'.findings = file.findings
  BY DEF IInv, TypeOK, ReadFindings, Runs
<1>3. TypeOK'
  BY <1>1 DEF IInv, TypeOK, Steps, Syncing
<1>4. HeldOK'
  BY <1>1, <1>2 DEF HeldOK, Gating
<1>5. AloneOK'
  BY <1>1, <1>2 DEF AloneOK, SyncOK, GateOK, ArchiveOK, Syncing, Gating, Archiving, MemoryInStep
<1>6. GatedOK'
  BY <1>1, ValidKept DEF IInv, GatedOK
<1>. QED
  BY <1>1, <1>3, <1>4, <1>5, <1>6 DEF IInv, ArchivesOK

(* The run in memory written over run.json, which is what a step does that *)
(* leaves the other files and the memory alone.                            *)
LEMMA WriteRunFacts ==
  ASSUME IInv, NEW from \in {"write_run", "gate_run", "refresh_run", "archive_run"}, NEW to \in Steps,
         WriteRun(from, to)
  PROVE  /\ pc = from /\ pc' = to /\ gated' = FALSE /\ mem \in Runs
         /\ UNCHANGED <<intact, mem, asked, touched, archives>>
         /\ file'.run = mem
         /\ \A n \in Names \ {"run"} : file'[n] = file[n]
         /\ TypeOK' /\ GatedOK' /\ ArchivesOK'
<1>1. /\ pc = from /\ pc' = to /\ gated' = FALSE
      /\ UNCHANGED <<intact, mem, asked, touched, archives>>
  BY DEF WriteRun, Step
<1>2. mem \in Runs
  BY <1>1 DEF IInv, HeldOK, Syncing, Gating
<1>3. DOMAIN file' = Names /\ file'.run = mem /\ \A n \in Names \ {"run"} : file'[n] = file[n]
  BY DEF IInv, TypeOK, WriteRun, Names
<1>4. TypeOK'
  BY <1>1, <1>2, <1>3 DEF IInv, TypeOK, Names
<1>. QED
  BY <1>1, <1>2, <1>3, <1>4 DEF IInv, GatedOK, ArchivesOK

LEMMA SyncWritesRunStep ==
  ASSUME IInv, SyncWritesRun
  PROVE  IInv'
<1>1. /\ pc = "write_run" /\ pc' = "write_identity" /\ mem \in Runs
      /\ UNCHANGED <<intact, mem, asked, touched, archives>>
      /\ file'.run = mem /\ file'.findings = file.findings
      /\ TypeOK' /\ GatedOK' /\ ArchivesOK'
  BY WriteRunFacts DEF SyncWritesRun, Names, Steps, Syncing
<1>2. HeldOK'
  BY <1>1 DEF HeldOK, Gating
<1>3. AloneOK'
  BY <1>1 DEF IInv, AloneOK, SyncOK, GateOK, ArchiveOK, Syncing, Gating, Archiving, MemoryInStep
<1>. QED
  BY <1>1, <1>2, <1>3 DEF IInv

LEMMA IdentityFacts ==
  ASSUME IInv, file' = [file EXCEPT !.identity = Hashes(Identified)]
  PROVE  DOMAIN file' = Names /\ \A n \in Names \ {"identity"} : file'[n] = file[n]
  BY DEF IInv, TypeOK, Names

LEMMA SyncWritesIdentityStep ==
  ASSUME IInv, SyncWritesIdentity
  PROVE  IInv'
<1>1. /\ pc = "write_identity" /\ pc' = "verify" /\ asked # None
      /\ UNCHANGED <<intact, mem, asked, touched, archives, gated>>
      /\ file' = [file EXCEPT !.identity = Hashes(Identified)]
  BY DEF SyncWritesIdentity, WriteIdentity, Step
<1>2. /\ DOMAIN file' = Names /\ file'.findings = file.findings /\ file'.run = file.run
      /\ file'.gate = file.gate /\ file'.policy = file.policy
  BY <1>1, IdentityFacts DEF Names
<1>3. TypeOK'
  BY <1>1, <1>2 DEF IInv, TypeOK, Steps, Gating
<1>4. HeldOK'
  BY <1>1, <1>2 DEF IInv, HeldOK, Syncing, Gating
<1>5. AloneOK'
  BY <1>1, <1>2 DEF IInv, AloneOK, SyncOK, GateOK, ArchiveOK, Syncing, Gating, Archiving, MemoryInStep
<1>6. ~gated
  BY <1>1 DEF IInv, GatedOK
<1>. QED
  BY <1>1, <1>3, <1>4, <1>5, <1>6 DEF IInv, GatedOK, ArchivesOK

LEMMA SyncEndsStep ==
  ASSUME IInv, SyncEnds
  PROVE  IInv'
<1>1. /\ pc = "write_identity" /\ End /\ UNCHANGED <<intact, gated, archives>>
      /\ file' = [file EXCEPT !.identity = Hashes(Identified)]
  BY DEF SyncEnds
<1>2. /\ DOMAIN file' = Names /\ file'.findings = file.findings /\ file'.run = file.run
      /\ file'.gate = file.gate
  BY <1>1, IdentityFacts DEF Names
<1>3. ~gated
  BY <1>1 DEF IInv, GatedOK
<1>. QED
  BY <1>1, <1>2, <1>3, EndingStep DEF IInv, TypeOK, ArchivesOK

-----------------------------------------------------------------------------
(* calculate-gate-dir: each step makes one more file agree.                *)

LEMMA VerifyBaselineStep ==
  ASSUME IInv, VerifyBaseline
  PROVE  IInv'
<1>1. /\ pc = "verify" /\ pc' = "gate_run"
      /\ UNCHANGED <<intact, asked, touched, archives, gated>>
  BY DEF VerifyBaseline, Step
<1>2. /\ DOMAIN file' = Names /\ \A n \in Names \ {"verification"} : file'[n] = file[n]
      /\ Snapshot => file'.verification = [intact |-> intact]
  BY DEF IInv, TypeOK, VerifyBaseline, Names
<1>3. file'.findings = file.findings /\ file'.run = file.run /\ file'.gate = file.gate
      /\ file'.policy = file.policy
  BY <1>2 DEF Names
<1>4. mem \in Runs /\ intact \in BOOLEAN
  BY <1>1 DEF IInv, TypeOK, HeldOK, Gating
<1>5. mem' \in Runs /\ mem'.findings = mem.findings /\ (Snapshot => mem'.modified = ~intact)
  BY <1>4 DEF VerifyBaseline, Runs
<1>6. TypeOK'
  BY <1>1, <1>2, <1>3 DEF IInv, TypeOK, Steps, Gating
<1>7. HeldOK'
  BY <1>1, <1>3, <1>5 DEF IInv, HeldOK, Gating
<1>8. AloneOK'
  BY <1>1, <1>2, <1>3, <1>5 DEF IInv, AloneOK, SyncOK, GateOK, ArchiveOK, Syncing, Gating, Archiving,
     MemoryInStep, BaselineRead
<1>9. ~gated
  BY <1>1 DEF IInv, GatedOK
<1>. QED
  BY <1>1, <1>6, <1>7, <1>8, <1>9 DEF IInv, GatedOK, ArchivesOK

LEMMA GateWritesRunStep ==
  ASSUME IInv, GateWritesRun
  PROVE  IInv'
<1>1. /\ pc = "gate_run" /\ pc' = "copy_policy" /\ mem \in Runs
      /\ UNCHANGED <<intact, mem, asked, touched, archives>>
      /\ file'.run = mem /\ file'.findings = file.findings /\ file'.verification = file.verification
      /\ TypeOK' /\ GatedOK' /\ ArchivesOK'
  BY WriteRunFacts DEF GateWritesRun, Names, Steps, Gating
<1>2. HeldOK'
  BY <1>1 DEF IInv, HeldOK, Gating
<1>3. AloneOK'
  BY <1>1 DEF IInv, AloneOK, SyncOK, GateOK, ArchiveOK, Syncing, Gating, Archiving, MemoryInStep,
     BaselineRead
<1>. QED
  BY <1>1, <1>2, <1>3 DEF IInv

LEMMA CopyPolicyStep ==
  ASSUME IInv, CopyPolicy
  PROVE  IInv'
<1>1. /\ pc = "copy_policy" /\ pc' = "write_gate"
      /\ UNCHANGED <<intact, mem, asked, touched, archives, gated>>
  BY DEF CopyPolicy, Step
<1>2. /\ DOMAIN file' = Names /\ file'.policy = asked
      /\ file'.findings = file.findings /\ file'.run = file.run /\ file'.gate = file.gate
      /\ file'.verification = file.verification
  BY DEF IInv, TypeOK, CopyPolicy, Names
<1>3. TypeOK'
  BY <1>1, <1>2 DEF IInv, TypeOK, Steps, Gating
<1>4. HeldOK'
  BY <1>1, <1>2 DEF IInv, HeldOK, Gating
<1>5. AloneOK'
  BY <1>1, <1>2 DEF IInv, AloneOK, SyncOK, GateOK, ArchiveOK, Syncing, Gating, Archiving, MemoryInStep,
     BaselineRead
<1>6. ~gated
  BY <1>1 DEF IInv, GatedOK
<1>. QED
  BY <1>1, <1>3, <1>4, <1>5, <1>6 DEF IInv, GatedOK, ArchivesOK

LEMMA GateHeld ==
  ASSUME IInv, pc \in {"write_gate", "write_markdown"}
  PROVE  file.policy = asked /\ asked \in Policy /\ mem \in Runs /\ Gate(mem, file.policy) \in Gates
<1>1. file.policy = asked /\ asked \in Policy /\ mem \in Runs
  BY DEF IInv, TypeOK, HeldOK, Gating
<1>. QED
  BY <1>1, GateTyped

LEMMA WriteGateStep ==
  ASSUME IInv, WriteGate
  PROVE  IInv'
<1>1. /\ pc = "write_gate" /\ pc' = "write_markdown"
      /\ UNCHANGED <<intact, mem, asked, touched, archives, gated>>
  BY DEF WriteGate, Step
<1>2. /\ DOMAIN file' = Names /\ file'.gate = Gate(mem, file.policy)
      /\ file'.findings = file.findings /\ file'.run = file.run /\ file'.policy = file.policy
      /\ file'.verification = file.verification
  BY DEF IInv, TypeOK, WriteGate, Names
<1>3. file'.gate \in Gates
  BY <1>1, <1>2, GateHeld
<1>4. TypeOK'
  BY <1>1, <1>2, <1>3 DEF IInv, TypeOK, Steps, Gating
<1>5. HeldOK'
  BY <1>1, <1>2 DEF IInv, HeldOK, Gating
<1>6. AloneOK'
  BY <1>1, <1>2 DEF IInv, AloneOK, SyncOK, GateOK, ArchiveOK, Syncing, Gating, Archiving, MemoryInStep,
     BaselineRead
<1>7. ~gated
  BY <1>1 DEF IInv, GatedOK
<1>. QED
  BY <1>1, <1>4, <1>5, <1>6, <1>7 DEF IInv, GatedOK, ArchivesOK

LEMMA WriteMarkdownStep ==
  ASSUME IInv, WriteMarkdown
  PROVE  IInv'
<1>1. /\ pc = "write_markdown" /\ pc' = "refresh_run"
      /\ UNCHANGED <<intact, mem, asked, touched, archives, gated>>
  BY DEF WriteMarkdown, Step
<1>2. /\ DOMAIN file' = Names /\ file'.markdown = Gate(mem, file.policy)
      /\ file'.findings = file.findings /\ file'.run = file.run /\ file'.policy = file.policy
      /\ file'.gate = file.gate /\ file'.verification = file.verification
  BY DEF IInv, TypeOK, WriteMarkdown, Names
<1>3. TypeOK'
  BY <1>1, <1>2 DEF IInv, TypeOK, Steps, Gating
<1>4. HeldOK'
  BY <1>1, <1>2 DEF IInv, HeldOK, Gating
<1>5. AloneOK'
  BY <1>1, <1>2 DEF IInv, AloneOK, SyncOK, GateOK, ArchiveOK, Syncing, Gating, Archiving, MemoryInStep,
     BaselineRead
<1>6. ~gated
  BY <1>1 DEF IInv, GatedOK
<1>. QED
  BY <1>1, <1>3, <1>4, <1>5, <1>6 DEF IInv, GatedOK, ArchivesOK

LEMMA RefreshRunStep ==
  ASSUME IInv, RefreshRun
  PROVE  IInv'
<1>1. /\ pc = "refresh_run" /\ pc' = "refresh_identity" /\ mem \in Runs
      /\ UNCHANGED <<intact, mem, asked, touched, archives>>
      /\ file'.run = mem /\ file'.findings = file.findings /\ file'.verification = file.verification
      /\ file'.gate = file.gate /\ file'.policy = file.policy /\ file'.markdown = file.markdown
      /\ TypeOK' /\ GatedOK' /\ ArchivesOK'
  BY WriteRunFacts DEF RefreshRun, Names, Steps, Gating
<1>2. HeldOK'
  BY <1>1 DEF IInv, HeldOK, Gating
<1>3. AloneOK'
  BY <1>1 DEF IInv, AloneOK, SyncOK, GateOK, ArchiveOK, Syncing, Gating, Archiving, MemoryInStep,
     BaselineRead
<1>. QED
  BY <1>1, <1>2, <1>3 DEF IInv

(* The identity is the last file of a gate: with it the directory is       *)
(* valid, unless somebody edited meanwhile.                                *)
LEMMA GateEndsStep ==
  ASSUME IInv, GateEnds
  PROVE  IInv'
<1>1. /\ pc = "refresh_identity" /\ End /\ gated' = ~touched /\ UNCHANGED <<intact, archives>>
      /\ file' = [file EXCEPT !.identity = Hashes(Identified)]
  BY DEF GateEnds
<1>2. DOMAIN file' = Names /\ \A n \in Names \ {"identity"} : file'[n] = file[n]
  BY <1>1, IdentityFacts
<1>3. /\ file'.findings = file.findings /\ file'.run = file.run /\ file'.gate = file.gate
      /\ file'.policy = file.policy /\ file'.markdown = file.markdown
      /\ file'.verification = file.verification
  BY <1>2 DEF Names
<1>4. ASSUME ~touched PROVE Valid'
  <2>1. /\ MemoryInStep /\ BaselineRead /\ file.run = mem
        /\ file.gate = Gate(mem, file.policy) /\ file.markdown = file.gate
    BY <1>1, <1>4 DEF IInv, AloneOK, GateOK, Gating
  <2>2. file.policy = asked /\ asked \in Policy /\ asked # None /\ mem \in Runs
    BY <1>1 DEF IInv, TypeOK, HeldOK, Gating
  <2>3. file.gate \in Gates /\ file.gate # None
    BY <2>1, <2>2, GateTyped, ReviewAssumption
  <2>4. FindingsInStep'
    BY <1>3, <2>1 DEF FindingsInStep, FindingsAreValid, MemoryInStep
  <2>5. GateInStep'
    BY <1>3, <2>1, <2>2, <2>3 DEF GateInStep, Gate
  <2>6. BaselineInStep'
    BY <1>1, <1>3, <2>1 DEF BaselineInStep, BaselineRead
  <2>7. Hashes(Identified)' = Hashes(Identified)
    BY <1>3 DEF Hashes, Identified
  <2>8. file'.identity = Hashes(Identified)
    BY <1>1 DEF IInv, TypeOK, Names
  <2>. QED
    BY <2>4, <2>5, <2>6, <2>7, <2>8 DEF Valid, IdentityInStep
<1>. QED
  BY <1>1, <1>2, <1>3, <1>4, EndingStep DEF IInv, TypeOK, ArchivesOK

-----------------------------------------------------------------------------
(* archive-run: what validation found stays so.                            *)

LEMMA ValidateForArchiveStep ==
  ASSUME IInv, ValidateForArchive
  PROVE  IInv'
<1>1. /\ pc = "validate" /\ pc' = "load_run" /\ Valid
      /\ UNCHANGED <<file, intact, mem, asked, touched, archives, gated>>
  BY DEF ValidateForArchive, Step
<1>2. TypeOK' /\ HeldOK'
  BY <1>1 DEF IInv, TypeOK, HeldOK, Steps, Syncing, Gating, Archiving
<1>3. Valid'
  BY <1>1, ValidKept
<1>4. AloneOK'
  BY <1>1, <1>3 DEF AloneOK, SyncOK, GateOK, ArchiveOK, Syncing, Gating
<1>. QED
  BY <1>1, <1>2, <1>3, <1>4 DEF IInv, GatedOK, ArchivesOK

LEMMA LoadRunStep ==
  ASSUME IInv, LoadRun
  PROVE  IInv'
<1>1. /\ pc = "load_run" /\ pc' = "archive_run" /\ mem' = file.run
      /\ UNCHANGED <<file, intact, asked, touched, archives, gated>>
  BY DEF LoadRun, Step
<1>2. TypeOK' /\ HeldOK'
  BY <1>1 DEF IInv, TypeOK, HeldOK, Steps, Gating, Archiving
<1>3. Valid => Valid'
  BY <1>1, ValidKept
<1>4. AloneOK'
  BY <1>1, <1>3 DEF IInv, AloneOK, SyncOK, GateOK, ArchiveOK, Syncing, Gating, Archiving
<1>. QED
  BY <1>1, <1>2, <1>3, <1>4 DEF IInv, GatedOK, ArchivesOK

LEMMA ArchiveWritesRunStep ==
  ASSUME IInv, ArchiveWritesRun
  PROVE  IInv'
<1>1. /\ pc = "archive_run" /\ pc' = "archive_identity" /\ mem \in Runs
      /\ UNCHANGED <<intact, mem, asked, touched, archives>>
      /\ file'.run = mem /\ \A n \in Names \ {"run"} : file'[n] = file[n]
      /\ TypeOK' /\ GatedOK' /\ ArchivesOK'
  BY WriteRunFacts DEF ArchiveWritesRun, Steps, Archiving
<1>2. HeldOK'
  BY <1>1 DEF HeldOK, Gating
<1>3. ASSUME ~touched PROVE Valid'
  <2>1. Valid /\ mem = file.run
    BY <1>1, <1>3 DEF IInv, AloneOK, ArchiveOK, Archiving
  <2>2. \A n \in Identified \cup {"identity"} : file'[n] = file[n]
    BY <1>1, <2>1 DEF Identified, Names
  <2>. QED BY <1>1, <2>1, <2>2, ValidKept
<1>4. AloneOK'
  BY <1>1, <1>3 DEF AloneOK, SyncOK, GateOK, ArchiveOK, Syncing, Gating
<1>. QED
  BY <1>1, <1>2, <1>4 DEF IInv

LEMMA ArchiveWritesIdentityStep ==
  ASSUME IInv, ArchiveWritesIdentity
  PROVE  IInv'
<1>1. /\ pc = "archive_identity" /\ pc' = "manifest"
      /\ UNCHANGED <<intact, mem, asked, touched, archives, gated>>
      /\ file' = [file EXCEPT !.identity = Hashes(Identified)]
  BY DEF ArchiveWritesIdentity, WriteIdentity, Step
<1>2. /\ DOMAIN file' = Names /\ file'.findings = file.findings /\ file'.run = file.run
      /\ file'.gate = file.gate
  BY <1>1, IdentityFacts DEF Names
<1>3. TypeOK' /\ HeldOK'
  BY <1>1, <1>2 DEF IInv, TypeOK, HeldOK, Steps, Syncing, Gating, Archiving
<1>4. ASSUME ~touched PROVE Valid'
  <2>1. Valid
    BY <1>1, <1>4 DEF IInv, AloneOK, ArchiveOK, Archiving
  <2>. QED BY <1>1, <2>1, ValidIdentified DEF IInv
<1>5. AloneOK'
  BY <1>1, <1>4 DEF AloneOK, SyncOK, GateOK, ArchiveOK, Syncing, Gating
<1>6. ~gated
  BY <1>1 DEF IInv, GatedOK
<1>. QED
  BY <1>1, <1>3, <1>5, <1>6 DEF IInv, GatedOK, ArchivesOK

LEMMA WriteManifestStep ==
  ASSUME IInv, WriteManifest
  PROVE  IInv'
<1>1. /\ pc = "manifest" /\ pc' = "zip"
      /\ UNCHANGED <<intact, mem, asked, touched, archives, gated>>
  BY DEF WriteManifest, Step
<1>2. /\ DOMAIN file' = Names /\ \A n \in Names \ {"manifest"} : file'[n] = file[n]
      /\ file'.manifest = Hashes(Identified \cup {"identity"})
  BY DEF IInv, TypeOK, WriteManifest, Names
<1>3. file'.findings = file.findings /\ file'.run = file.run /\ file'.gate = file.gate
  BY <1>2 DEF Names
<1>4. TypeOK' /\ HeldOK'
  BY <1>1, <1>2, <1>3 DEF IInv, TypeOK, HeldOK, Steps, Syncing, Gating, Archiving
<1>5. \A n \in Identified \cup {"identity"} : file'[n] = file[n]
  BY <1>2 DEF Identified, Names
<1>6. Hashes(Identified \cup {"identity"})' = Hashes(Identified \cup {"identity"})
  BY <1>5 DEF Hashes
<1>7. ASSUME ~touched PROVE Valid'
  <2>1. Valid
    BY <1>1, <1>7 DEF IInv, AloneOK, ArchiveOK, Archiving
  <2>. QED BY <1>1, <1>5, <2>1, ValidKept
<1>8. AloneOK'
  BY <1>1, <1>2, <1>6, <1>7 DEF AloneOK, SyncOK, GateOK, ArchiveOK, Syncing, Gating
<1>9. ~gated
  BY <1>1 DEF IInv, GatedOK
<1>. QED
  BY <1>1, <1>4, <1>8, <1>9 DEF IInv, GatedOK, ArchivesOK

LEMMA ZipStep ==
  ASSUME IInv, WriteZip
  PROVE  IInv'
<1> DEFINE new == [file |-> file, intact |-> intact, alone |-> ~touched]
<1>1. /\ pc = "zip" /\ archives' = archives \cup {new} /\ End
      /\ UNCHANGED <<file, intact, gated>>
  BY DEF WriteZip
<1>2. ASSUME ~touched PROVE Archived(new)
  <2>1. Valid /\ file.manifest = Hashes(Identified \cup {"identity"})
    BY <1>1, <1>2 DEF IInv, AloneOK, ArchiveOK, Archiving
  <2>2. file.gate = Gate(file.run, file.policy)
    <3>1. file.gate \in Gates
      BY <2>1 DEF IInv, TypeOK, Valid, GateInStep
    <3>2. /\ file.gate.decision = Gate(file.run, file.policy).decision
          /\ file.gate.effective = Effective(file.run) /\ file.gate.policy = file.policy
      BY <2>1 DEF Valid, GateInStep
    <3>3. file.gate = [decision |-> file.gate.decision, effective |-> file.gate.effective,
                       policy |-> file.gate.policy]
      BY <3>1 DEF Gates
    <3>. QED BY <3>2, <3>3 DEF Gate
  <2>3. ValidFindings(file.findings) /\ file.run.findings = file.findings
    BY <2>1 DEF Valid, FindingsInStep, FindingsAreValid
  <2>4. Snapshot => file.run.modified = ~intact
    BY <2>1 DEF Valid, BaselineInStep
  <2>5. file.identity = [n \in DOMAIN file.identity |-> file[n]]
    BY <2>1 DEF Valid, IdentityInStep, Hashes
  <2>6. file.manifest = [n \in DOMAIN file.manifest |-> file[n]]
    BY <2>1 DEF Hashes
  <2>7. new.file = file /\ new.intact = intact
    OBVIOUS
  <2> HIDE DEF new
  <2>. QED
    BY <2>2, <2>3, <2>4, <2>5, <2>6, <2>7 DEF IInv, TypeOK, Archived
<1>3. ArchivesOK'
  <2>1. new.alone = ~touched
    OBVIOUS
  <2> HIDE DEF new
  <2>. QED BY <1>1, <1>2, <2>1 DEF IInv, ArchivesOK
<1>4. gated' => Valid'
  BY <1>1 DEF IInv, GatedOK
<1>. QED
  BY <1>1, <1>3, <1>4, EndingStep DEF IInv, TypeOK

-----------------------------------------------------------------------------
(* The invariant.                                                          *)

LEMMA StutterStep ==
  ASSUME IInv, UNCHANGED vars
  PROVE  IInv'
<1>1. UNCHANGED <<file, intact, pc, mem, asked, touched, gated, archives>>
  BY DEF vars
<1>2. TypeOK' /\ HeldOK' /\ ArchivesOK'
  BY <1>1 DEF IInv, TypeOK, HeldOK, ArchivesOK
<1>3. Valid => Valid'
  BY <1>1, ValidKept
<1>4. Hashes(Identified \cup {"identity"})' = Hashes(Identified \cup {"identity"})
  BY <1>1 DEF Hashes
<1>5. AloneOK'
  BY <1>1, <1>3, <1>4 DEF IInv, AloneOK, SyncOK, GateOK, ArchiveOK, MemoryInStep, BaselineRead
<1>. QED
  BY <1>1, <1>2, <1>3, <1>5 DEF IInv, GatedOK

LEMMA StepIInv ==
  ASSUME IInv, [Next]_vars
  PROVE  IInv'
<1>1. CASE \E id \in Id, c \in Claim : WriteFinding(id, c) \/ MergeFindings(id, c)
  BY <1>1, WriteFindingStep, MergeFindingsStep
<1>2. CASE \E checks \in Check : RecordChecks(checks)
  BY <1>2, RecordChecksStep
<1>3. CASE TouchProtected
  BY <1>3, TouchProtectedStep
<1>4. CASE BeginSync \/ (\E policy \in Policy : BeginGate(policy)) \/ BeginArchive
  BY <1>4, BeginStep DEF BeginSync, BeginGate, BeginArchive
<1>5. CASE RefuseFindings \/ RefuseArchive \/ Crash
  BY <1>5, QuietEndStep
<1>6. CASE ReadFindings \/ SyncWritesRun \/ SyncWritesIdentity \/ SyncEnds
  BY <1>6, ReadFindingsStep, SyncWritesRunStep, SyncWritesIdentityStep, SyncEndsStep
<1>7. CASE VerifyBaseline \/ GateWritesRun \/ CopyPolicy \/ WriteGate
  BY <1>7, VerifyBaselineStep, GateWritesRunStep, CopyPolicyStep, WriteGateStep
<1>8. CASE WriteMarkdown \/ RefreshRun \/ GateEnds
  BY <1>8, WriteMarkdownStep, RefreshRunStep, GateEndsStep
<1>9. CASE ValidateForArchive \/ LoadRun \/ ArchiveWritesRun
  BY <1>9, ValidateForArchiveStep, LoadRunStep, ArchiveWritesRunStep
<1>10. CASE ArchiveWritesIdentity \/ WriteManifest \/ WriteZip
  BY <1>10, ArchiveWritesIdentityStep, WriteManifestStep, ZipStep
<1>11. CASE UNCHANGED vars
  BY <1>11, StutterStep
<1>. QED
  BY <1>1, <1>2, <1>3, <1>4, <1>5, <1>6, <1>7, <1>8, <1>9, <1>10, <1>11 DEF Next

(* However edits, commands and deaths interleave, what a command knows of  *)
(* the directory nobody edited under it is so.                             *)
THEOREM Invariant == Spec => []IInv
  BY InitIInv, StepIInv, PTL DEF Spec

(* An archive nobody edited under has the findings its gate decided on,    *)
(* and its identity and manifest bind what it holds.                       *)
THEOREM ArchivesHold == Spec => []ArchivesAreGated
<1>1. IInv => ArchivesAreGated
  BY DEF IInv, ArchivesOK, Archived, ArchivesAreGated
<1>. QED
  BY <1>1, Invariant, PTL

(* A gate that ran alone leaves a directory that archive-run accepts.      *)
THEOREM GatesEnable == Spec => []GatedRunsAreArchivable
<1>1. IInv => GatedRunsAreArchivable
  BY DEF IInv, GatedOK, GatedRunsAreArchivable
<1>. QED
  BY <1>1, Invariant, PTL

-----------------------------------------------------------------------------
(* What a PASS of the default policy means.                                *)

LEMMA DefaultPass ==
  ASSUME NEW run \in Runs, Gate(run, DefaultPolicy).decision = "PASS"
  PROVE  /\ run.checks = {"tests_passed"} /\ run.modified = FALSE
         /\ \A m \in Counted : \A id \in DOMAIN run.findings : Counts(id, run.findings[id]) # m
<1> DEFINE m == Effective(run)
<1>1. Decision(m, DefaultPolicy) = "PASS"
  BY DEF Gate
<1>2. /\ \A rule \in DefaultPolicy.fail : ~Triggers(rule, m)
      /\ \A rule \in DefaultPolicy.hold : ~Triggers(rule, m)
      /\ \A rule \in DefaultPolicy.conditional_pass : ~Triggers(rule, m)
      /\ \A rule \in DefaultPolicy.pass : Triggers(rule, m)
  <2> HIDE DEF m
  <2>. QED BY <1>1, Zenon DEF Decision
<1>3. /\ ~Triggers("confirmed_fail", m) /\ ~Triggers("baseline_failed", m) /\ ~Triggers("protected", m)
      /\ ~Triggers("confirmed_hold", m) /\ ~Triggers("integration", m) /\ ~Triggers("replay", m)
      /\ ~Triggers("unverified", m) /\ ~Triggers("supported", m) /\ ~Triggers("accepted", m)
      /\ ~Triggers("runtime", m) /\ Triggers("tests", m)
  <2> HIDE DEF m
  <2>. QED BY <1>2 DEF DefaultPolicy
<1>4. /\ m.metrics = Metrics(run.findings) /\ m.checks = run.checks /\ m.modified = run.modified
  BY DEF Effective
<1>5. /\ ~(m.metrics.blocking_fail > 0) /\ "baseline_failed" \notin m.checks /\ ~m.modified
      /\ ~(m.metrics.blocking_hold > 0) /\ "integration_missing" \notin m.checks
      /\ "replay_missing" \notin m.checks /\ ~(m.metrics.fixed_unverified > 0)
      /\ ~(m.metrics.supported > 0) /\ ~(m.metrics.accepted > 0)
      /\ "runtime_missing" \notin m.checks /\ "tests_passed" \in m.checks
  <2> HIDE DEF m
  <2>. QED BY <1>3 DEF Triggers
<1>6. run.findings \in Findings /\ run.checks \in Checks /\ run.modified \in BOOLEAN
  BY DEF Runs
<1>7. run.checks = {"tests_passed"} /\ run.modified = FALSE
  <2> HIDE DEF m
  <2>. QED BY <1>4, <1>5, <1>6 DEF Checks
<1>8. \A x \in Counted : Metrics(run.findings)[x] = 0
  <2>1. Metrics(run.findings) \in [Counted -> Nat]
    BY <1>6, MetricsTyped
  <2> HIDE DEF m
  <2>. QED BY <1>4, <1>5, <2>1 DEF Counted
<1>. QED
  BY <1>6, <1>7, <1>8, MetricsTyped

(* Of a valid finding that no metric counts.                               *)
LEMMA Uncounted ==
  ASSUME NEW id \in Id, NEW c \in Claims, ValidClaim(id, c), Counts(id, c) \notin Counted
  PROVE  /\ c.status # "ACCEPTED"
         /\ SeverityOf[id] \in BlockOn =>
              /\ c.status = "FIXED" => c.confidence = "RESOLVED" /\ c.evidence = 5
              /\ c.status = "OPEN" => /\ c.confidence = "HYPOTHESIS"
                                      /\ SeverityOf[id] \notin {"P0", "P1"}
<1>1. c.status # "ACCEPTED"
  BY DEF Counts, Counted
<1>2. ASSUME SeverityOf[id] \in BlockOn, c.status = "FIXED"
      PROVE  c.confidence = "RESOLVED" /\ c.evidence = 5
  <2>1. c.confidence = "RESOLVED"
    BY <1>2 DEF Counts, Counted
  <2>2. c.evidence >= 5 /\ c.evidence \in 0..5
    BY <2>1 DEF ValidClaim, Claims
  <2>. QED BY <2>1, <2>2
<1>3. ASSUME SeverityOf[id] \in BlockOn, c.status = "OPEN"
      PROVE  c.confidence = "HYPOTHESIS" /\ SeverityOf[id] \notin {"P0", "P1"}
  <2>1. CountsWhileOpen(id, c) \notin Counted
    BY <1>3 DEF Counts
  <2>2. c.confidence # "SUPPORTED" /\ c.confidence # "CONFIRMED"
    BY <1>3, <2>1 DEF CountsWhileOpen, Counted
  <2>3. c.confidence \notin {"RESOLVED", "REJECTED"}
    BY <1>3 DEF ValidClaim
  <2>4. c.confidence = "HYPOTHESIS"
    BY <2>2, <2>3 DEF Claims
  <2>. QED BY <2>4 DEF ValidClaim
<1>. QED
  BY <1>1, <1>2, <1>3

(* An archived PASS of the default policy has no blocker in any form.      *)
THEOREM PassesAreClean == Spec => []PassMeansClean
<1>1. ASSUME IInv, NEW a \in archives, a.alone, a.file.policy = DefaultPolicy,
             a.file.gate.decision = "PASS"
      PROVE  /\ a.file.run.checks = {"tests_passed"}
             /\ Snapshot => a.intact
             /\ \A id \in DOMAIN a.file.findings :
                  LET c == a.file.findings[id]
                  IN /\ c.status # "ACCEPTED"
                     /\ SeverityOf[id] \in BlockOn =>
                          /\ c.status = "FIXED" => c.confidence = "RESOLVED" /\ c.evidence = 5
                          /\ c.status = "OPEN" => /\ c.confidence = "HYPOTHESIS"
                                                  /\ SeverityOf[id] \notin {"P0", "P1"}
  <2>1. /\ a.file.findings \in Findings /\ ValidFindings(a.file.findings)
        /\ a.file.run \in Runs /\ a.file.run.findings = a.file.findings
        /\ Gate(a.file.run, DefaultPolicy).decision = "PASS"
        /\ a.intact \in BOOLEAN /\ (Snapshot => a.file.run.modified = ~a.intact)
    BY <1>1 DEF IInv, ArchivesOK, Archived
  <2>2. /\ a.file.run.checks = {"tests_passed"} /\ a.file.run.modified = FALSE
        /\ \A m \in Counted : \A id \in DOMAIN a.file.findings : Counts(id, a.file.findings[id]) # m
    BY <2>1, DefaultPass
  <2>3. \A id \in DOMAIN a.file.findings :
          /\ id \in Id /\ a.file.findings[id] \in Claims /\ ValidClaim(id, a.file.findings[id])
          /\ Counts(id, a.file.findings[id]) \notin Counted
    <3>1. DOMAIN a.file.findings \subseteq Id /\ a.file.findings \in [DOMAIN a.file.findings -> Claims]
      BY <2>1, FindingsTyped
    <3>. QED BY <2>1, <2>2, <3>1 DEF ValidFindings
  <2>4. Snapshot => a.intact
    BY <2>1, <2>2
  <2>. QED
    BY <2>2, <2>3, <2>4, Uncounted
<1>2. IInv => PassMeansClean
  BY <1>1, Zenon DEF PassMeansClean
<1>. QED
  BY <1>2, Invariant, PTL

-----------------------------------------------------------------------------
(* The projection of other workspaces onto a campaign (CampaignProjection).*)
(* A command is followed only while no other is under way: each event it   *)
(* replays is put behind those of the one source it reads, and an error    *)
(* takes back the directory, the archive and the files of that event.      *)

(* What holds of chains is said event by event.                            *)
Chains == Seq(Event)
Begins(s, t) == Len(s) <= Len(t) /\ \A i \in 1..Len(s) : s[i] = t[i]

LEMMA CutIs ==
  ASSUME NEW T, NEW s \in Seq(T), NEW t \in Seq(T), NEW n \in Nat, n <= Len(t)
  PROVE  s = SubSeq(t, 1, n) <=> Len(s) = n /\ \A i \in 1..n : s[i] = t[i]
<1>1. SubSeq(t, 1, n) \in Seq(T) /\ Len(SubSeq(t, 1, n)) = n /\ \A i \in 1..n : SubSeq(t, 1, n)[i] = t[i]
  OBVIOUS
<1>2. ASSUME Len(s) = n, \A i \in 1..n : s[i] = t[i] PROVE s = SubSeq(t, 1, n)
  BY <1>1, <1>2
<1>. QED BY <1>1, <1>2

LEMMA PrefixIs ==
  ASSUME NEW s \in Chains, NEW t \in Chains
  PROVE  IsPrefix(s, t) <=> Begins(s, t)
<1>1. CASE Len(s) <= Len(t)
  <2>1. s = SubSeq(s, 1, Len(s))
    BY CutIs DEF Chains
  <2>2. s = SubSeq(t, 1, Len(s)) <=> Len(s) = Len(s) /\ \A i \in 1..Len(s) : s[i] = t[i]
    BY <1>1, CutIs DEF Chains
  <2>. QED BY <1>1, <2>1, <2>2 DEF IsPrefix, Begins
<1>2. CASE ~(Len(s) <= Len(t))
  BY <1>2 DEF IsPrefix, Begins
<1>. QED BY <1>1, <1>2

(* An outcome is known by the events up to it.                             *)
LEMMA IdsGrow ==
  ASSUME NEW f, NEW g, NEW e \in Event, f.events \in Chains, g.events = Append(f.events, e)
  PROVE  /\ e.type = "outcome" => OutcomeIds(g) = OutcomeIds(f) \cup {Append(f.events, e)}
         /\ e.type # "outcome" => OutcomeIds(g) = OutcomeIds(f)
<1>. DEFINE ev == f.events
            ev2 == Append(ev, e)
            n == Len(ev)
            O == {j \in DOMAIN ev : ev[j].type = "outcome"}
            O2 == {j \in DOMAIN ev2 : ev2[j].type = "outcome"}
<1>1. ev \in Chains /\ ev2 \in Chains /\ Len(ev2) = n + 1 /\ n \in Nat
      /\ DOMAIN ev = 1..n /\ DOMAIN ev2 = 1..(n + 1) /\ ev2[n + 1] = e /\ \A i \in 1..n : ev2[i] = ev[i]
  BY DEF Chains
<1>. HIDE DEF ev, ev2, n
<1>2. e.type = "outcome" => O2 = O \cup {n + 1}
  BY <1>1
<1>3. e.type # "outcome" => O2 = O
  BY <1>1
<1>4. \A i \in O : SubSeq(ev2, 1, i) = SubSeq(ev, 1, i)
  <2>. SUFFICES ASSUME NEW i \in O PROVE SubSeq(ev2, 1, i) = SubSeq(ev, 1, i)
    OBVIOUS
  <2>1. i \in Nat /\ i <= n
    BY <1>1
  <2>2. SubSeq(ev, 1, i) \in Chains /\ Len(SubSeq(ev, 1, i)) = i /\ \A k \in 1..i : SubSeq(ev, 1, i)[k] = ev[k]
    BY <1>1, <2>1 DEF Chains, n
  <2>3. \A k \in 1..i : SubSeq(ev, 1, i)[k] = ev2[k]
    BY <1>1, <2>1, <2>2
  <2>. QED BY <1>1, <2>1, <2>2, <2>3, CutIs DEF Chains
<1>5. SubSeq(ev2, 1, n + 1) = ev2
  BY <1>1, CutIs DEF Chains
<1>6. OutcomeIds(f) = {SubSeq(ev, 1, i) : i \in O}
  BY DEF OutcomeIds, ev
<1>7. OutcomeIds(g) = {SubSeq(ev2, 1, i) : i \in O2}
  BY DEF OutcomeIds, ev, ev2
<1>. HIDE DEF O, O2
<1>8. {SubSeq(ev2, 1, i) : i \in O} = {SubSeq(ev, 1, i) : i \in O}
  BY <1>4
<1>9. {SubSeq(ev2, 1, i) : i \in O \cup {n + 1}} = {SubSeq(ev2, 1, i) : i \in O} \cup {SubSeq(ev2, 1, n + 1)}
  OBVIOUS
<1>10. e.type = "outcome" => OutcomeIds(g) = OutcomeIds(f) \cup {ev2}
  BY <1>2, <1>5, <1>6, <1>7, <1>8, <1>9, Zenon
<1>11. e.type # "outcome" => OutcomeIds(g) = OutcomeIds(f)
  BY <1>3, <1>6, <1>7, <1>8, Zenon
<1>. QED BY <1>10, <1>11 DEF ev, ev2

-----------------------------------------------------------------------------
(* The invariant. It is about commands that have not overlapped: then at   *)
(* most one is under way, the destination is the beginning of one source   *)
(* of its lineage, and what the command is about to write continues it.    *)


Registries == [cases : SUBSET Source, events : Chains]
Manifests == [cases : SUBSET Source, outcomes : SUBSET Chains]
FilePairs == [registry : Registries, manifest : Manifests]
Processes == [phase : Phase, chain : Chains, at : Nat, prefix : Nat, todo : SUBSET Source,
              base : FilePairs, old : FilePairs, new : FilePairs,
              dir : {"none"} \cup Source \cup Chains, copied : BOOLEAN]

(* The events of a source are its own and numbered.                        *)
Sourced ==
  /\ created \in [Source -> Created] /\ source \in [Source -> Chains]
  /\ \A s \in Source : \A i \in 1..Len(source[s]) : source[s][i].case = s /\ source[s][i].no = i

Typed ==
  /\ registry \in Registries /\ manifest \in Manifests
  /\ proc \in [Projector -> Processes]
  /\ lineage \in Nat /\ faults \in Nat /\ reported \subseteq Chains

Read(chain) == chain # <<>> /\ \E s \in Source : Begins(chain, source[s])
OfOneSource(events) == events # <<>> => \E s \in Source : created[s] = lineage /\ Begins(events, source[s])
Includes(events) == \A chain \in reported : Begins(chain, events)

Leads(chain, events) == Read(chain) /\ lineage = created[chain[1].case] /\ Begins(events, chain)

(* Where a replay is, and that its next event is the next one of events.   *)
ReplayedTo(r, events) ==
  /\ Leads(r.chain, events)
  /\ r.at \in 1..(Len(r.chain) + 1) /\ r.prefix <= Len(events)
  /\ Len(events) = IF r.at <= r.prefix THEN r.prefix ELSE r.at - 1
Next1(r, events) ==
  /\ Leads(r.chain, events)
  /\ r.at = Len(events) + 1 /\ r.at <= Len(r.chain) /\ r.prefix <= Len(events)

(* What a recording that has placed its directory makes of files.          *)
Grows(r, f) ==
  \/ r.chain = <<>> /\ r.dir \in Source /\ r.new = WithCase(f, r.dir)
  \/ /\ Next1(r, f.registry.events) /\ r.chain[r.at].type = "outcome"
     /\ r.dir = Append(f.registry.events, r.chain[r.at]) /\ r.new = WithOutcome(f, r.chain[r.at])

(* Everything recorded is mapped and has its directory, and nothing else.  *)
Tidy(f, ds) ==
  /\ f.manifest.cases = f.registry.cases /\ f.manifest.outcomes = OutcomeIds(f.registry)
  /\ ds = f.registry.cases \cup OutcomeIds(f.registry)

Reviewing == {"copying", "recording", "writing"}

Holds(r) ==
  /\ r.phase = "assessing" => r.chain = <<>>
  /\ r.phase \in {"preflight", "checking"} => Leads(r.chain, registry.events)
  /\ r.phase = "replaying" => ReplayedTo(r, registry.events)
  /\ r.phase \in Reviewing => Next1(r, registry.events) /\ r.chain[r.at].type = "review"
  /\ r.phase = "writing" => r.new = WithReview(Current, r.chain[r.at])
  /\ r.phase = "replacing" => Grows(r, Current)
  /\ r.phase = "mapping" =>
       /\ Grows(r, r.old) /\ registry = r.new.registry /\ manifest = r.old.manifest
       /\ OfOneSource(r.old.registry.events) /\ Includes(r.old.registry.events)

Clean(r) ==
  /\ r.phase \notin {"replacing", "mapping"} => Tidy(Current, dirs)
  /\ r.phase = "replacing" => r.dir \in dirs /\ Tidy(Current, dirs \ {r.dir})
  /\ r.phase = "mapping" => r.dir \in dirs /\ Tidy(r.old, dirs \ {r.dir})
  /\ part = IF r.phase = "copying" THEN {r.chain[r.at]} ELSE {}

Busy(r) == lineage # 0 /\ Holds(r) /\ (faults = 0 => Clean(r))
Rest == faults = 0 => Tidy(Current, dirs) /\ part = {}

Destined ==
  /\ OfOneSource(registry.events) /\ Includes(registry.events)
  /\ lineage = 0 => registry.events = <<>> /\ reported = {}

Free(p) == proc[p].phase = "idle"

Alone ==
  /\ Sourced /\ Typed /\ Destined
  /\ \A p, q \in Projector : p # q => Free(p) \/ Free(q)
  /\ \A p \in Projector : ~Free(p) => Busy(proc[p])
  /\ (\A p \in Projector : Free(p)) => Rest

ProjectionInv == alone => Alone

LEMMA BeginsSound == ProjectionInit => ProjectionInv
<1>. SUFFICES ASSUME ProjectionInit PROVE Alone
  BY DEF ProjectionInv
<1>. USE DEF ProjectionInit, Idle, EmptyRegistry, EmptyManifest, NoFiles
<1>1. <<>> \in Chains
  BY DEF Chains
<1>2. registry \in Registries /\ manifest \in Manifests
  BY <1>1 DEF Registries, Manifests
<1>3. Idle \in Processes
  BY <1>1 DEF Processes, FilePairs, Registries, Manifests, Phase
<1>4. Typed
  BY <1>2, <1>3, ProjectionAssumption DEF Typed
<1>5. Sourced
  BY <1>1 DEF Sourced
<1>6. Destined
  BY DEF Destined, OfOneSource, Includes
<1>7. \A p \in Projector : Free(p)
  BY DEF Free
<1>8. Rest
  <2>1. OutcomeIds(registry) = {}
    BY DEF OutcomeIds
  <2>. QED BY <2>1 DEF Rest, Tidy, Current
<1>. QED BY <1>4, <1>5, <1>6, <1>7, <1>8 DEF Alone

(* A step of one command, while no other is under way.                     *)
LEMMA OneSteps ==
  ASSUME Alone, NEW p \in Projector, \A q \in Projector \ {p} : Free(q),
         \A q \in Projector \ {p} : proc'[q] = proc[q],
         UNCHANGED <<created, source>>, Typed', Destined',
         proc'[p].phase = "idle" => Rest', proc'[p].phase # "idle" => Busy(proc[p])'
  PROVE  Alone'
<1>1. Sourced'
  BY DEF Alone, Sourced
<1>2. \A q \in Projector \ {p} : Free(q)'
  BY DEF Free
<1>3. ASSUME NEW q \in Projector, ~Free(q)' PROVE Busy(proc[q])'
  <2>1. q = p
    BY <1>2, <1>3
  <2>. QED BY <1>3, <2>1 DEF Free
<1>4. (\A q \in Projector : Free(q)') => Rest'
  BY DEF Free
<1>. QED BY <1>1, <1>2, <1>3, <1>4 DEF Alone

LEMMA OthersFree ==
  ASSUME Alone, NEW p \in Projector, ~Free(p)
  PROVE  (\A q \in Projector \ {p} : Free(q)) /\ Busy(proc[p]) /\ proc[p] \in Processes
BY DEF Alone, Typed

LEMMA Becoming ==
  ASSUME Alone, NEW p \in Projector
  PROVE  \A v : Becomes(p, v) =>
           /\ proc'[p] = v /\ \A q \in Projector \ {p} : proc'[q] = proc[q]
           /\ v \in Processes => proc' \in [Projector -> Processes]
BY DEF Alone, Typed, Becomes

LEMMA IdleIs == Idle \in Processes /\ Idle.phase = "idle"
<1>1. <<>> \in Chains
  BY DEF Chains
<1>. QED
  BY <1>1 DEF Idle, EmptyRegistry, EmptyManifest, NoFiles, Processes,
     FilePairs, Registries, Manifests, Phase

(* A command that ends without writing.                                    *)
LEMMA Quits ==
  ASSUME Alone, NEW p \in Projector, ~Free(p), Becomes(p, Idle),
         UNCHANGED <<created, source, lineage, registry, manifest, dirs, part, reported>>,
         \/ faults' = faults /\ proc[p].phase \notin {"replacing", "mapping", "copying"}
         \/ faults' = faults + 1
  PROVE  Alone'
<1>1. (\A q \in Projector \ {p} : Free(q)) /\ Busy(proc[p])
  BY OthersFree
<1>2. proc'[p].phase = "idle" /\ proc' \in [Projector -> Processes] /\ \A q \in Projector \ {p} : proc'[q] = proc[q]
  BY IdleIs, Becoming
<1>3. Typed'
  BY <1>2 DEF Alone, Typed
<1>4. Destined'
  BY DEF Alone, Destined, OfOneSource, Includes
<1>5. Rest'
  <2>1. CASE faults' = faults + 1
    BY <2>1 DEF Rest, Alone, Typed
  <2>2. CASE faults' = faults /\ proc[p].phase \notin {"replacing", "mapping", "copying"}
    <3>1. faults = 0 => Tidy(Current, dirs) /\ part = {}
      BY <1>1, <2>2 DEF Busy, Clean
    <3>. QED BY <2>2, <3>1 DEF Rest, Tidy, Current, OutcomeIds
  <2>. QED BY <2>1, <2>2
<1>. QED BY <1>1, <1>2, <1>3, <1>4, <1>5, OneSteps

(* One that goes on without writing, or comes to a write.                  *)
LEMMA GoesOn ==
  ASSUME Alone, NEW p \in Projector, ~Free(p), NEW v \in Processes, Becomes(p, v),
         UNCHANGED <<created, source, lineage, registry, manifest, dirs, part, reported, faults>>,
         proc[p].phase \notin {"replacing", "mapping", "copying"}, v.phase \notin {"idle", "replacing", "mapping", "copying"},
         Holds(v)
  PROVE  Alone'
<1>1. (\A q \in Projector \ {p} : Free(q)) /\ Busy(proc[p])
  BY OthersFree
<1>2. proc'[p] = v /\ proc' \in [Projector -> Processes] /\ \A q \in Projector \ {p} : proc'[q] = proc[q]
  BY Becoming
<1>3. Typed'
  BY <1>2 DEF Alone, Typed
<1>4. Destined'
  BY DEF Alone, Destined, OfOneSource, Includes
<1>5. Holds(proc[p])'
  BY <1>2 DEF Holds, Leads, Read, ReplayedTo, Next1, Current
<1>6. faults' = 0 => Clean(proc[p])'
  <2>1. faults = 0 => Tidy(Current, dirs) /\ part = {}
    BY <1>1 DEF Busy, Clean
  <2>. QED BY <1>2, <2>1 DEF Clean, Tidy, Current, OutcomeIds
<1>7. Busy(proc[p])'
  BY <1>1, <1>5, <1>6 DEF Busy
<1>. QED BY <1>1, <1>2, <1>3, <1>4, <1>7, OneSteps

LEMMA SameIs ==
  ASSUME NEW events \in Chains, NEW chain \in Chains, NEW n \in Nat, n <= Len(chain)
  PROVE  SameEvents(events, chain, n) <=>
           lineage = created[chain[1].case] /\ Len(events) = n /\ Begins(events, chain)
<1>1. events = SubSeq(chain, 1, n) <=> Len(events) = n /\ \A i \in 1..n : events[i] = chain[i]
  BY CutIs DEF Chains
<1>2. Len(events) = n /\ (\A i \in 1..n : events[i] = chain[i]) <=> Len(events) = n /\ Begins(events, chain)
  BY DEF Begins
<1>. QED BY <1>1, <1>2 DEF SameEvents

LEMMA FollowsIs ==
  ASSUME Alone, NEW chain \in Chains, Follows(chain), Read(chain)
  PROVE  Leads(chain, registry.events)
<1>1. registry.events \in Chains /\ Len(registry.events) \in Nat
  BY DEF Alone, Typed, Registries, Chains
<1>. QED BY <1>1, SameIs DEF Follows, Leads

LEMMA CurrentIs == Alone => Current \in FilePairs
BY DEF Alone, Typed, Current, FilePairs

(* A command begins.                                                       *)
LEMMA Begun ==
  ASSUME Alone, alone', NEW p \in Projector, NEW v \in Processes, Starts(p, v),
         lineage # 0, v.phase \notin {"idle", "replacing", "mapping", "copying"}, Holds(v)
  PROVE  Alone'
<1>1. /\ \A q \in Projector : Free(q)
      /\ Becomes(p, v)
      /\ UNCHANGED <<created, source, lineage, registry, manifest, dirs, part, reported, faults>>
  BY DEF Starts, OthersIdle, At, Free, destination
<1>2. proc'[p] = v /\ proc' \in [Projector -> Processes] /\ \A q \in Projector \ {p} : proc'[q] = proc[q]
  BY <1>1, Becoming
<1>3. Typed'
  BY <1>1, <1>2 DEF Alone, Typed
<1>4. Destined'
  BY <1>1 DEF Alone, Destined, OfOneSource, Includes
<1>5. Holds(proc[p])'
  BY <1>1, <1>2 DEF Holds, Leads, Read, ReplayedTo, Next1, Current
<1>6. faults' = 0 => Clean(proc[p])'
  <2>1. faults = 0 => Tidy(Current, dirs) /\ part = {}
    BY <1>1 DEF Alone, Rest
  <2>. QED BY <1>1, <1>2, <2>1 DEF Clean, Tidy, Current, OutcomeIds
<1>7. Busy(proc[p])'
  BY <1>1, <1>5, <1>6 DEF Busy
<1>. QED BY <1>1, <1>2, <1>3, <1>4, <1>7, OneSteps

LEMMA StartAssessKept ==
  ASSUME Alone, alone', NEW p \in Projector, NEW S \in SUBSET Source, StartAssess(p, S)
  PROVE  Alone'
<1>. DEFINE v == [Idle EXCEPT !.phase = "assessing", !.todo = S, !.base = Current]
<1>1. v \in Processes /\ v.phase = "assessing" /\ v.chain = <<>>
  BY IdleIs, CurrentIs DEF Processes, Phase, Idle
<1>2. lineage # 0 /\ Starts(p, v)
  BY DEF StartAssess, CanAssess
<1>. HIDE DEF v
<1>3. Holds(v)
  BY <1>1 DEF Holds, Reviewing
<1>. QED BY <1>1, <1>2, <1>3, Begun

LEMMA StartProjectKept ==
  ASSUME Alone, alone', NEW p \in Projector, NEW s \in Source, StartProject(p, s)
  PROVE  Alone'
<1>. DEFINE v == [Idle EXCEPT !.phase = "preflight", !.chain = source[s], !.base = Current]
<1>0. source[s] \in Chains
  BY DEF Alone, Sourced
<1>1. v \in Processes /\ v.phase = "preflight" /\ v.chain = source[s]
  BY <1>0, IdleIs, CurrentIs DEF Processes, Phase, Idle
<1>2. lineage # 0 /\ Starts(p, v) /\ Follows(source[s])
  BY DEF StartProject
<1>. HIDE DEF v
<1>3. Read(source[s])
  BY <1>0, <1>2 DEF Read, Begins, Follows, Chains
<1>4. Leads(v.chain, registry.events)
  BY <1>0, <1>1, <1>2, <1>3, FollowsIs
<1>5. Holds(v)
  BY <1>1, <1>4 DEF Holds, Reviewing
<1>. QED BY <1>1, <1>2, <1>5, Begun

LEMMA SourceEventKept ==
  ASSUME Alone, NEW s \in Source, NEW type \in {"review", "outcome"}, SourceEvent(s, type)
  PROVE  Alone'
<1>. DEFINE e == [type |-> type, case |-> s, no |-> Len(source[s]) + 1]
<1>1. source[s] \in Chains /\ Len(source[s]) \in Nat
  BY DEF Alone, Sourced, Chains
<1>2. e \in Event
  BY <1>1, ProjectionAssumption DEF SourceEvent, Event
<1>3. source' = [source EXCEPT ![s] = Append(@, e)]
  BY DEF SourceEvent
<1>4. UNCHANGED <<created, lineage, registry, manifest, dirs, part, proc, reported, faults>>
  BY DEF SourceEvent, destination
<1>5. e.case = s /\ e.no = Len(source[s]) + 1
  OBVIOUS
<1>. HIDE DEF e
<1>6. /\ source' \in [Source -> Chains] /\ source'[s] = Append(source[s], e)
      /\ \A t \in Source \ {s} : source'[t] = source[t]
  BY <1>1, <1>2, <1>3 DEF Alone, Sourced, Chains
<1>7. Sourced'
  <2>1. ASSUME NEW t \in Source, NEW i \in 1..Len(source'[t]) PROVE source'[t][i].case = t /\ source'[t][i].no = i
    <3>1. CASE t = s /\ i = Len(source[s]) + 1
      BY <1>1, <1>2, <1>5, <1>6, <3>1 DEF Chains
    <3>2. CASE ~(t = s /\ i = Len(source[s]) + 1)
      <4>1. i \in 1..Len(source[t]) /\ source'[t][i] = source[t][i]
        BY <1>1, <1>2, <1>6, <2>1, <3>2 DEF Chains
      <4>. QED BY <4>1 DEF Alone, Sourced
    <3>. QED BY <3>1, <3>2
  <2>. QED BY <1>4, <1>6, <2>1 DEF Alone, Sourced
<1>8. \A c \in Chains, t \in Source : Begins(c, source[t]) => Begins(c, source'[t])
  <2>. SUFFICES ASSUME NEW c \in Chains, NEW t \in Source, Begins(c, source[t]) PROVE Begins(c, source'[t])
    OBVIOUS
  <2>1. CASE t = s
    <3>1. Len(source'[s]) = Len(source[s]) + 1 /\ \A i \in 1..Len(source[s]) : source'[s][i] = source[s][i]
      BY <1>1, <1>2, <1>6 DEF Chains
    <3>2. Len(c) \in Nat
      BY DEF Chains
    <3>. QED BY <1>1, <2>1, <3>1, <3>2 DEF Begins
  <2>2. CASE t # s
    BY <1>6, <2>2
  <2>. QED BY <2>1, <2>2
<1>9. \A c \in Chains : Read(c) => Read(c)'
  BY <1>8 DEF Read
<1>10. \A c \in Chains : OfOneSource(c) => OfOneSource(c)'
  BY <1>4, <1>8 DEF OfOneSource
<1>11. Typed'
  BY <1>4 DEF Alone, Typed
<1>12. registry.events \in Chains
  BY DEF Alone, Typed, Registries
<1>13. Destined'
  BY <1>4, <1>10, <1>12 DEF Alone, Destined, Includes
<1>14. ASSUME NEW q \in Projector, ~Free(q) PROVE Busy(proc[q])'
  <2>1. Busy(proc[q]) /\ proc[q] \in Processes
    BY <1>14, OthersFree
  <2>2. proc[q].chain \in Chains /\ proc[q].old.registry.events \in Chains
    BY <2>1 DEF Processes, FilePairs, Registries
  <2>3. \A ev : Leads(proc[q].chain, ev) => Leads(proc[q].chain, ev)'
    BY <1>4, <1>9, <2>2 DEF Leads
  <2>. QED BY <1>4, <1>10, <2>1, <2>2, <2>3, ZenonT(40)
           DEF Busy, Holds, ReplayedTo, Next1, Grows, Includes, Current, Clean, Tidy
<1>. QED BY <1>4, <1>7, <1>11, <1>13, <1>14 DEF Alone, Free, Rest, Tidy, Current

LEMMA CreateWorkspaceKept ==
  ASSUME Alone, NEW S \in SUBSET Source, CreateWorkspace(S)
  PROVE  Alone'
<1>1. PICK t \in Created : lineage' = t
  BY DEF CreateWorkspace
<1>2. /\ lineage = 0 /\ registry' = [cases |-> S, events |-> <<>>]
      /\ manifest' = [cases |-> S, outcomes |-> {}] /\ dirs' = S
      /\ UNCHANGED <<created, source, part, proc, reported, faults>>
  BY DEF CreateWorkspace, history
<1>3. <<>> \in Chains
  BY DEF Chains
<1>4. lineage' \in Nat /\ lineage' # 0
  BY <1>1, ProjectionAssumption
<1>5. Typed'
  BY <1>2, <1>3, <1>4 DEF Alone, Typed, Registries, Manifests
<1>6. Destined'
  BY <1>2, <1>4 DEF Alone, Destined, OfOneSource, Includes
<1>7. \A q \in Projector : Free(q)
  BY <1>2 DEF Alone, Busy
<1>8. OutcomeIds(registry)' = {}
  BY <1>2 DEF OutcomeIds
<1>9. Rest'
  BY <1>2, <1>7, <1>8 DEF Alone, Rest, Tidy, Current
<1>10. Sourced'
  BY <1>2 DEF Alone, Sourced
<1>. QED BY <1>2, <1>5, <1>6, <1>7, <1>9, <1>10 DEF Alone, Free

(* A recording places its directory.                                       *)
LEMMA Places ==
  ASSUME Alone, NEW p \in Projector, ~Free(p), NEW v \in Processes, Becomes(p, v),
         v.dir \notin dirs, dirs' = dirs \cup {v.dir},
         UNCHANGED <<created, source, lineage, registry, manifest, part, reported, faults>>,
         v.phase = "replacing", Grows(v, Current),
         proc[p].phase \notin {"replacing", "mapping", "copying"}
  PROVE  Alone'
<1>1. (\A q \in Projector \ {p} : Free(q)) /\ Busy(proc[p])
  BY OthersFree
<1>2. UNCHANGED <<created, source, lineage, registry, manifest, part, reported, faults>>
  OBVIOUS
<1>3. proc'[p] = v /\ proc' \in [Projector -> Processes] /\ \A q \in Projector \ {p} : proc'[q] = proc[q]
  BY <1>2, Becoming
<1>4. Typed'
  BY <1>2, <1>3 DEF Alone, Typed
<1>5. Destined'
  BY <1>2 DEF Alone, Destined, OfOneSource, Includes
<1>6. Holds(proc[p])'
  BY <1>2, <1>3 DEF Holds, Grows, Leads, Read, Next1, Current, Reviewing
<1>7. faults' = 0 => Clean(proc[p])'
  <2>1. faults = 0 => Tidy(Current, dirs) /\ part = {}
    BY <1>1 DEF Busy, Clean
  <2>2. dirs' \ {v.dir} = dirs
    OBVIOUS
  <2>3. faults' = 0 => Tidy(Current, dirs \ {v.dir})'
    BY <1>2, <2>1, <2>2 DEF Tidy, Current, OutcomeIds
  <2>. QED BY <1>2, <1>3, <2>1, <2>3 DEF Clean
<1>8. Busy(proc[p])'
  BY <1>1, <1>2, <1>6, <1>7 DEF Busy
<1>. QED BY <1>1, <1>2, <1>3, <1>4, <1>5, <1>8, OneSteps

LEMMA IdleQuits ==
  ASSUME Alone, NEW p \in Projector, ~Free(p), Fail(p),
         proc[p].phase \notin {"replacing", "mapping", "copying"}
  PROVE  Alone'
<1>1. /\ Becomes(p, Idle)
      /\ UNCHANGED <<created, source, lineage, registry, manifest, dirs, part, reported, faults>>
  BY DEF Fail, Only, destination, history
<1>. QED BY <1>1, Quits

LEMMA OnlyGoesOn ==
  ASSUME Alone, NEW p \in Projector, ~Free(p), NEW v \in Processes, Only(p, v),
         proc[p].phase \notin {"replacing", "mapping", "copying"}, v.phase \notin {"idle", "replacing", "mapping", "copying"},
         Holds(v)
  PROVE  Alone'
<1>1. /\ Becomes(p, v)
      /\ UNCHANGED <<created, source, lineage, registry, manifest, dirs, part, reported, faults>>
  BY DEF Only, destination, history
<1>. QED BY <1>1, GoesOn

LEMMA IntakeKept ==
  ASSUME Alone, NEW p \in Projector, NEW c \in Source, Intake(p, c)
  PROVE  Alone'
<1>. DEFINE w == [proc[p] EXCEPT !.todo = @ \ {c}]
            new == WithCase(Current, c)
            v == [w EXCEPT !.phase = "replacing", !.new = new, !.dir = c]
<1>1. ~Free(p) /\ proc[p].phase = "assessing"
  BY DEF Intake, At, Free
<1>2. proc[p] \in Processes /\ Holds(proc[p])
  BY <1>1, OthersFree DEF Busy
<1>3. proc[p].chain = <<>>
  BY <1>1, <1>2 DEF Holds
<1>4. w \in Processes /\ w.phase = "assessing" /\ w.chain = <<>>
  BY <1>1, <1>2, <1>3 DEF Processes
<1>5. CASE Fail(p)
  BY <1>1, <1>5, IdleQuits
<1>6. CASE Only(p, w)
  <2>1. Holds(w)
    BY <1>4 DEF Holds, Reviewing
  <2>. QED BY <1>1, <1>4, <1>6, <2>1, OnlyGoesOn
<1>7. CASE Place(p, w, new, c)
  <2>1. Current \in FilePairs
    BY CurrentIs
  <2>2. new \in FilePairs
    BY <2>1 DEF FilePairs, Registries, Manifests, WithCase
  <2>3. v \in Processes /\ v.phase = "replacing" /\ v.dir = c /\ v.new = new /\ v.chain = <<>>
    <3>. HIDE DEF w, new
    <3>. QED BY <1>4, <2>2 DEF Processes, Phase
  <2>4. Grows(v, Current)
    BY <2>3 DEF Grows
  <2>5. /\ c \notin dirs /\ dirs' = dirs \cup {c} /\ Becomes(p, v)
        /\ UNCHANGED <<created, source, lineage, registry, manifest, part, reported, faults>>
    BY <1>7, Zenon DEF Place, history
  <2>. HIDE DEF w, new, v
  <2>. QED BY <1>1, <2>3, <2>4, <2>5, Places
<1>. QED BY <1>5, <1>6, <1>7 DEF Intake

-----------------------------------------------------------------------------
(* What is written continues what is there.                                *)

LEMMA BeginsOn ==
  ASSUME NEW s \in Chains, NEW t \in Chains, NEW u \in Chains, Begins(s, t), Begins(t, u)
  PROVE  Begins(s, u)
BY DEF Begins, Chains

LEMMA FollowsOne ==
  ASSUME Alone, NEW chain \in Chains, NEW ev \in Chains, Leads(chain, ev)
  PROVE  OfOneSource(ev)
<1>1. PICK s \in Source : Begins(chain, source[s])
  BY DEF Leads, Read
<1>2. source[s] \in Chains /\ \A i \in 1..Len(source[s]) : source[s][i].case = s
  BY DEF Alone, Sourced
<1>3. chain # <<>> /\ Len(chain) \in Nat /\ Len(chain) >= 1 /\ chain[1] = source[s][1] /\ Len(source[s]) >= 1
  BY <1>1, <1>2 DEF Leads, Read, Begins, Chains
<1>4. created[s] = lineage
  BY <1>2, <1>3 DEF Leads, Chains
<1>5. Begins(ev, source[s])
  BY <1>1, <1>2, BeginsOn DEF Leads
<1>. QED BY <1>4, <1>5 DEF OfOneSource

LEMMA NextContinues ==
  ASSUME Alone, NEW r \in Processes, NEW ev \in Chains, Next1(r, ev)
  PROVE  /\ r.chain[r.at] \in Event
         /\ Append(ev, r.chain[r.at]) \in Chains
         /\ Len(Append(ev, r.chain[r.at])) = r.at
         /\ Begins(Append(ev, r.chain[r.at]), r.chain)
         /\ Leads(r.chain, Append(ev, r.chain[r.at]))
         /\ OfOneSource(Append(ev, r.chain[r.at]))
         /\ Includes(ev) => Includes(Append(ev, r.chain[r.at]))
<1>. DEFINE e == r.chain[r.at]
            ev2 == Append(ev, e)
<1>1. r.chain \in Chains /\ r.at \in 1..Len(r.chain) /\ r.at = Len(ev) + 1 /\ Len(ev) \in Nat
  BY DEF Processes, Next1, Chains
<1>2. e \in Event
  BY <1>1 DEF Chains
<1>3. ev2 \in Chains /\ Len(ev2) = r.at /\ ev2[r.at] = e /\ \A i \in 1..Len(ev) : ev2[i] = ev[i]
  BY <1>1, <1>2 DEF Chains
<1>4. Begins(ev, r.chain)
  BY DEF Next1, Leads
<1>5. Begins(ev2, r.chain) /\ Begins(ev, ev2)
  <2>. HIDE DEF e, ev2
  <2>1. Len(r.chain) \in Nat
    BY <1>1 DEF Chains
  <2>. QED BY <1>1, <1>3, <1>4, <2>1 DEF Begins, e
<1>6. Leads(r.chain, ev2)
  BY <1>5 DEF Next1, Leads
<1>7. OfOneSource(ev2)
  <2>. HIDE DEF ev2
  <2>. QED BY <1>1, <1>3, <1>6, FollowsOne
<1>8. Includes(ev) => Includes(ev2)
  <2>. HIDE DEF ev2
  <2>1. reported \subseteq Chains
    BY DEF Alone, Typed
  <2>. QED BY <1>3, <1>5, <2>1, BeginsOn DEF Includes
<1>. QED BY <1>2, <1>3, <1>5, <1>6, <1>7, <1>8

LEMMA GrownHolds ==
  ASSUME Alone, NEW r \in Processes, NEW f \in FilePairs, Grows(r, f),
         OfOneSource(f.registry.events), Includes(f.registry.events)
  PROVE  /\ OfOneSource(r.new.registry.events) /\ Includes(r.new.registry.events)
         /\ \A ds : r.dir \in ds /\ Tidy(f, ds \ {r.dir}) => Tidy(r.new, ds)
<1>. DEFINE ev == f.registry.events
            e == r.chain[r.at]
<1>0. f.registry \in Registries /\ f.manifest \in Manifests /\ ev \in Chains
  BY DEF FilePairs, Registries
<1>1. CASE r.chain = <<>> /\ r.dir \in Source /\ r.new = WithCase(f, r.dir)
  <2>1. /\ r.new.registry.events = ev /\ r.new.registry.cases = f.registry.cases \cup {r.dir}
        /\ r.new.manifest.cases = f.manifest.cases \cup {r.dir} /\ r.new.manifest.outcomes = f.manifest.outcomes
    BY <1>0, <1>1 DEF WithCase, Registries, Manifests
  <2>2. OutcomeIds(r.new.registry) = OutcomeIds(f.registry)
    BY <2>1 DEF OutcomeIds
  <2>. QED BY <2>1, <2>2 DEF Tidy
<1>2. CASE /\ Next1(r, ev) /\ e.type = "outcome"
           /\ r.dir = Append(ev, e) /\ r.new = WithOutcome(f, e)
  <2>1. /\ r.new.registry.events = Append(ev, e) /\ r.new.registry.cases = f.registry.cases
        /\ r.new.manifest.cases = f.manifest.cases
        /\ r.new.manifest.outcomes = f.manifest.outcomes \cup {Append(ev, e)}
    <3>. DEFINE ev2 == Append(ev, e)
    <3>1. /\ r.new.registry = [f.registry EXCEPT !.events = ev2]
          /\ r.new.manifest = [f.manifest EXCEPT !.outcomes = f.manifest.outcomes \cup {ev2}]
      BY <1>2 DEF WithOutcome
    <3>. HIDE DEF ev2
    <3>2. r.new.registry.events = ev2 /\ r.new.registry.cases = f.registry.cases
      BY <1>0, <3>1 DEF Registries
    <3>3. /\ r.new.manifest.cases = f.manifest.cases /\ r.new.manifest.outcomes = f.manifest.outcomes \cup {ev2}
      BY <1>0, <3>1 DEF Manifests
    <3>. QED BY <3>2, <3>3 DEF ev2
  <2>2. e \in Event /\ OfOneSource(Append(ev, e)) /\ Includes(Append(ev, e))
    BY <1>0, <1>2, NextContinues
  <2>3. OutcomeIds(r.new.registry) = OutcomeIds(f.registry) \cup {Append(ev, e)}
    <3>. HIDE DEF e
    <3>. QED BY <1>0, <1>2, <2>1, <2>2, IdsGrow
  <2>. HIDE DEF e, ev
  <2>. QED BY <1>2, <2>1, <2>2, <2>3 DEF Tidy
<1>. QED BY <1>1, <1>2 DEF Grows

LEMMA ComesToMapping ==
  ASSUME Alone, NEW p \in Projector, ~Free(p), proc[p].phase = "replacing", NEW v \in Processes, Becomes(p, v),
         v.phase = "mapping", v.old = Current,
         v.chain = proc[p].chain, v.at = proc[p].at, v.prefix = proc[p].prefix, v.dir = proc[p].dir, v.new = proc[p].new,
         registry' = proc[p].new.registry,
         UNCHANGED <<created, source, lineage, manifest, dirs, part, reported, faults>>
  PROVE  Alone'
<1>1. (\A q \in Projector \ {p} : Free(q)) /\ Busy(proc[p]) /\ proc[p] \in Processes
  BY OthersFree
<1>2. proc'[p] = v /\ proc' \in [Projector -> Processes] /\ \A q \in Projector \ {p} : proc'[q] = proc[q]
  BY Becoming
<1>3. v.old \in FilePairs /\ v.old.registry = registry /\ v.old.manifest = manifest
  BY CurrentIs DEF Current
<1>4. Grows(v, v.old)
  <2>1. Grows(proc[p], Current)
    BY <1>1 DEF Busy, Holds
  <2>. QED BY <2>1 DEF Grows, Next1
<1>5. OfOneSource(v.old.registry.events) /\ Includes(v.old.registry.events)
  BY <1>3 DEF Alone, Destined
<1>6. OfOneSource(v.new.registry.events) /\ Includes(v.new.registry.events)
  BY <1>3, <1>4, <1>5, GrownHolds
<1>7. v.new \in FilePairs
  BY DEF Processes
<1>8. Typed'
  BY <1>2, <1>7 DEF Alone, Typed, FilePairs
<1>9. Destined'
  BY <1>1, <1>6 DEF Destined, OfOneSource, Includes, Busy
<1>10. Holds(proc[p])'
  <2>1. Grows(v, v.old)'
    BY <1>4 DEF Grows, Next1, Leads, Read
  <2>2. (OfOneSource(v.old.registry.events) /\ Includes(v.old.registry.events))'
    BY <1>5 DEF OfOneSource, Includes
  <2>. QED BY <1>2, <1>3, <2>1, <2>2 DEF Holds, Reviewing, Grows, Next1, Leads, Read, OfOneSource, Includes
<1>11. faults' = 0 => Clean(proc[p])'
  <2>1. faults = 0 => v.dir \in dirs /\ Tidy(v.old, dirs \ {v.dir}) /\ part = {}
    BY <1>1 DEF Busy, Clean
  <2>. QED BY <1>2, <2>1 DEF Clean, Tidy, OutcomeIds
<1>12. Busy(proc[p])'
  BY <1>1, <1>10, <1>11 DEF Busy
<1>. QED BY <1>1, <1>2, <1>8, <1>9, <1>12, OneSteps

LEMMA ReplaceRegistryKept ==
  ASSUME Alone, NEW p \in Projector, ReplaceRegistry(p)
  PROVE  Alone'
<1>. DEFINE v == [proc[p] EXCEPT !.phase = "mapping", !.old = Current]
<1>1. ~Free(p) /\ proc[p].phase = "replacing"
  BY DEF ReplaceRegistry, At, Free
<1>2. proc[p] \in Processes
  BY <1>1, OthersFree
<1>3. /\ registry' = proc[p].new.registry /\ Becomes(p, v)
      /\ UNCHANGED <<created, source, lineage, manifest, dirs, part, reported, faults>>
  BY Zenon DEF ReplaceRegistry, history
<1>4. Current \in FilePairs
  BY CurrentIs
<1>5. /\ v \in Processes /\ v.phase = "mapping" /\ v.old = Current
      /\ v.chain = proc[p].chain /\ v.at = proc[p].at /\ v.prefix = proc[p].prefix /\ v.dir = proc[p].dir /\ v.new = proc[p].new
  BY <1>2, <1>4 DEF Processes, Phase
<1>. HIDE DEF v
<1>. QED BY <1>1, <1>3, <1>5, ComesToMapping

(* The manifest follows the registry: the recording is done.               *)
LEMMA Completes ==
  ASSUME Alone, NEW p \in Projector, ~Free(p), proc[p].phase = "mapping", NEW v \in Processes, Becomes(p, v),
         v.phase = "idle" \/ (v.phase = "assessing" /\ v.chain = <<>>)
           \/ (v.phase = "replaying" /\ v.chain = proc[p].chain /\ v.chain # <<>>
                 /\ v.at = proc[p].at + 1 /\ v.prefix = proc[p].prefix),
         manifest' = proc[p].new.manifest,
         UNCHANGED <<created, source, lineage, registry, dirs, part, reported, faults>>
  PROVE  Alone'
<1>1. (\A q \in Projector \ {p} : Free(q)) /\ Busy(proc[p]) /\ proc[p] \in Processes
  BY OthersFree
<1>2. proc'[p] = v /\ proc' \in [Projector -> Processes] /\ \A q \in Projector \ {p} : proc'[q] = proc[q]
  BY Becoming
<1>3. /\ Grows(proc[p], proc[p].old) /\ registry = proc[p].new.registry
      /\ OfOneSource(proc[p].old.registry.events) /\ Includes(proc[p].old.registry.events)
      /\ faults = 0 => proc[p].dir \in dirs /\ Tidy(proc[p].old, dirs \ {proc[p].dir}) /\ part = {}
  BY <1>1 DEF Busy, Holds, Clean
<1>4. proc[p].old \in FilePairs /\ proc[p].new \in FilePairs
  BY <1>1 DEF Processes
<1>5. faults = 0 => Tidy(proc[p].new, dirs)
  BY <1>1, <1>3, <1>4, GrownHolds
<1>6. (Current)'.registry = proc[p].new.registry /\ (Current)'.manifest = proc[p].new.manifest
  BY <1>3 DEF Current
<1>7. faults' = 0 => Tidy(Current, dirs)' /\ part' = {}
  <2>1. Tidy(proc[p].new, dirs) => Tidy(Current, dirs)'
    BY <1>6 DEF Tidy, OutcomeIds
  <2>. QED BY <1>3, <1>5, <2>1
<1>8. Typed'
  BY <1>2, <1>4 DEF Alone, Typed, FilePairs
<1>9. Destined'
  BY DEF Alone, Destined, OfOneSource, Includes
<1>10. v.phase = "idle" => Rest'
  BY <1>7 DEF Rest
<1>11. ASSUME v.phase # "idle" PROVE Busy(proc[p])'
  <2>1. v.phase = "replaying" => ReplayedTo(v, registry.events)
    <3>. SUFFICES ASSUME v.phase = "replaying" PROVE ReplayedTo(v, registry.events)
      OBVIOUS
    <3>. DEFINE r == proc[p]
                ev == r.old.registry.events
                ev2 == Append(ev, r.chain[r.at])
    <3>1. /\ Next1(r, ev) /\ r.new = WithOutcome(r.old, r.chain[r.at])
          /\ v.chain = r.chain /\ v.at = r.at + 1 /\ v.prefix = r.prefix
      BY <1>3 DEF Grows
    <3>2. ev \in Chains /\ r.old.registry \in Registries
      BY <1>4 DEF FilePairs, Registries
    <3>3. Len(ev2) = r.at /\ Leads(r.chain, ev2)
      BY <1>1, <3>1, <3>2, NextContinues
    <3>4. registry.events = ev2
      <4>1. r.new.registry = [r.old.registry EXCEPT !.events = ev2]
        BY <3>1 DEF WithOutcome
      <4>. HIDE DEF ev2
      <4>. QED BY <1>3, <3>2, <4>1 DEF Registries
    <3>5. r.at \in 1..Len(r.chain) /\ r.prefix < r.at /\ r.at \in Nat /\ r.prefix \in Nat /\ Len(r.chain) \in Nat
      BY <1>1, <3>1, <3>2, SMTT(30) DEF Next1, Processes, Chains
    <3>. HIDE DEF r, ev, ev2
    <3>. QED BY <3>1, <3>3, <3>4, <3>5 DEF ReplayedTo
  <2>2. Holds(proc[p])'
    BY <1>2, <1>11, <2>1 DEF Holds, Reviewing, ReplayedTo, Leads, Read
  <2>3. faults' = 0 => Clean(proc[p])'
    BY <1>2, <1>7, <1>11 DEF Clean
  <2>. QED BY <1>1, <2>2, <2>3 DEF Busy
<1>. QED BY <1>1, <1>2, <1>8, <1>9, <1>10, <1>11, OneSteps

LEMMA NoFilesTyped == NoFiles \in FilePairs
<1>1. <<>> \in Chains
  BY DEF Chains
<1>. QED
  BY <1>1 DEF NoFiles, EmptyRegistry, EmptyManifest, FilePairs, Registries, Manifests

LEMMA ReplaceManifestKept ==
  ASSUME Alone, NEW p \in Projector, ReplaceManifest(p)
  PROVE  Alone'
<1>1. ~Free(p) /\ proc[p].phase = "mapping"
  BY DEF ReplaceManifest, At, Free
<1>2. proc[p] \in Processes
  BY <1>1, OthersFree
<1>3. /\ manifest' = proc[p].new.manifest
      /\ Becomes(p, Idle) \/ Becomes(p, Written(proc[p]))
      /\ UNCHANGED <<created, source, lineage, registry, dirs, part, reported, faults>>
  BY Zenon DEF ReplaceManifest, history
<1>4. CASE Becomes(p, Idle)
  BY <1>1, <1>3, <1>4, IdleIs, Completes
<1>5. CASE Becomes(p, Written(proc[p]))
  <2>. DEFINE v == Written(proc[p])
  <2>1. v \in Processes
    <3>. DEFINE ph == IF proc[p].chain = <<>> THEN "assessing" ELSE "replaying"
                at == IF proc[p].chain = <<>> THEN 0 ELSE proc[p].at + 1
    <3>1. ph \in Phase /\ at \in Nat
      BY <1>2 DEF Processes, Phase
    <3>2. v = [proc[p] EXCEPT !.phase = ph, !.at = at, !.old = NoFiles, !.new = NoFiles, !.dir = "none"]
      BY DEF Written
    <3>. HIDE DEF ph, at, v
    <3>. QED BY <1>2, <3>1, <3>2, NoFilesTyped DEF Processes
  <2>2. /\ v.chain = proc[p].chain /\ v.prefix = proc[p].prefix
        /\ v.chain = <<>> => v.phase = "assessing"
        /\ v.chain # <<>> => v.phase = "replaying" /\ v.at = proc[p].at + 1
    BY <1>2, NoFilesTyped DEF Written, Processes
  <2>. HIDE DEF v
  <2>3. Becomes(p, v)
    BY <1>5 DEF v
  <2>. QED BY <1>1, <1>3, <2>1, <2>2, <2>3, Completes
<1>. QED BY <1>3, <1>4, <1>5

(* An error puts everything back.                                          *)
LEMMA UndoKept ==
  ASSUME Alone, NEW p \in Projector, Undo(p)
  PROVE  Alone'
<1>. DEFINE r == proc[p]
            f == IF r.phase = "mapping" THEN r.old ELSE Current
<1>1. ~Free(p) /\ (r.phase = "replacing" \/ r.phase = "mapping")
  BY DEF Undo, At, Free
<1>2. (\A q \in Projector \ {p} : Free(q)) /\ Busy(r) /\ r \in Processes
  BY <1>1, OthersFree
<1>3. /\ registry' = IF r.phase = "mapping" THEN r.old.registry ELSE registry
      /\ manifest' = IF r.phase = "mapping" THEN r.old.manifest ELSE manifest
      /\ dirs' = dirs \ {r.dir} /\ Becomes(p, Idle)
      /\ UNCHANGED <<created, source, lineage, part, reported, faults>>
  BY Zenon DEF Undo, Erring, At
<1>4. proc'[p].phase = "idle" /\ proc' \in [Projector -> Processes] /\ \A q \in Projector \ {p} : proc'[q] = proc[q]
  BY <1>3, IdleIs, Becoming
<1>5. registry' = f.registry /\ manifest' = f.manifest
  BY <1>3 DEF Current
<1>6. f \in FilePairs
  BY <1>2, CurrentIs DEF Processes
<1>7. OfOneSource(f.registry.events) /\ Includes(f.registry.events)
  BY <1>2 DEF Busy, Holds, Alone, Destined, Current
<1>8. faults = 0 => Tidy(f, dirs \ {r.dir}) /\ part = {}
  BY <1>1, <1>2 DEF Busy, Clean
<1>9. lineage # 0
  BY <1>2 DEF Busy
<1>. HIDE DEF r, f
<1>10. Typed'
  BY <1>3, <1>4, <1>5, <1>6 DEF Alone, Typed, FilePairs
<1>11. Destined'
  BY <1>3, <1>5, <1>7, <1>9 DEF Destined, OfOneSource, Includes
<1>12. Rest'
  BY <1>3, <1>5, <1>8 DEF Rest, Tidy, Current, OutcomeIds
<1>. QED BY <1>2, <1>3, <1>4, <1>10, <1>11, <1>12, OneSteps

-----------------------------------------------------------------------------
(* The steps of a replay.                                                  *)

LEMMA PreflightKept ==
  ASSUME Alone, NEW p \in Projector, Preflight(p)
  PROVE  Alone'
<1>. DEFINE v == [proc[p] EXCEPT !.phase = "checking"]
<1>1. ~Free(p) /\ proc[p].phase = "preflight"
  BY DEF Preflight, At, Free
<1>2. proc[p] \in Processes /\ Holds(proc[p])
  BY <1>1, OthersFree DEF Busy
<1>3. v \in Processes /\ v.phase = "checking" /\ v.chain = proc[p].chain
  BY <1>2 DEF Processes, Phase
<1>4. Only(p, v) \/ Fail(p)
  BY DEF Preflight
<1>. HIDE DEF v
<1>5. Holds(v)
  BY <1>1, <1>2, <1>3 DEF Holds, Reviewing
<1>. QED BY <1>1, <1>3, <1>4, <1>5, OnlyGoesOn, IdleQuits

LEMMA CheckKept ==
  ASSUME Alone, NEW p \in Projector, CheckUnchanged(p)
  PROVE  Alone'
<1>. DEFINE n == Len(registry.events)
            v == [proc[p] EXCEPT !.phase = "replaying", !.at = 1, !.prefix = n]
<1>1. ~Free(p) /\ proc[p].phase = "checking"
  BY DEF CheckUnchanged, At, Free
<1>2. proc[p] \in Processes /\ Holds(proc[p])
  BY <1>1, OthersFree DEF Busy
<1>3. n \in Nat
  BY DEF Alone, Typed, Registries, Chains
<1>4. Only(p, v) \/ Fail(p)
  BY DEF CheckUnchanged
<1>5. v \in Processes /\ v.phase = "replaying" /\ v.chain = proc[p].chain /\ v.at = 1 /\ v.prefix = n
  <2>. HIDE DEF n
  <2>. QED BY <1>2, <1>3 DEF Processes, Phase
<1>. HIDE DEF v
<1>6. ReplayedTo(v, registry.events)
  <2>1. Len(proc[p].chain) \in Nat
    BY <1>2 DEF Processes, Chains
  <2>. QED BY <1>1, <1>2, <1>3, <1>5, <2>1 DEF Holds, ReplayedTo
<1>7. Holds(v)
  BY <1>5, <1>6 DEF Holds, Reviewing
<1>. QED BY <1>1, <1>4, <1>5, <1>7, OnlyGoesOn, IdleQuits

(* The event that is replayed is there, or it is the next one.             *)
LEMMA ReplayingIs ==
  ASSUME Alone, NEW p \in Projector, NEW type, Replaying(p, type)
  PROVE  /\ ~Free(p) /\ proc[p].phase = "replaying" /\ proc[p] \in Processes
         /\ proc[p].at \in 1..Len(proc[p].chain) /\ Len(proc[p].chain) \in Nat /\ proc[p].prefix \in Nat
         /\ proc[p].chain[proc[p].at] \in Event /\ proc[p].chain[proc[p].at].type = type
         /\ proc[p].chain # <<>> /\ registry.events \in Chains /\ Len(registry.events) \in Nat
         /\ ReplayedTo(proc[p], registry.events)
         /\ proc[p].at > Len(registry.events) => Next1(proc[p], registry.events)
         /\ proc[p].at > proc[p].prefix => proc[p].at > Len(registry.events)
<1>1. ~Free(p) /\ proc[p].phase = "replaying" /\ proc[p].at <= Len(proc[p].chain)
      /\ proc[p].chain[proc[p].at].type = type
  BY DEF Replaying, At, Free
<1>2. proc[p] \in Processes /\ Holds(proc[p])
  BY <1>1, OthersFree DEF Busy
<1>3. ReplayedTo(proc[p], registry.events)
  BY <1>1, <1>2 DEF Holds
<1>4. proc[p].chain \in Chains /\ Len(proc[p].chain) \in Nat /\ proc[p].prefix \in Nat
      /\ registry.events \in Chains /\ Len(registry.events) \in Nat
  BY <1>2 DEF Processes, Chains, Alone, Typed, Registries
<1>5. proc[p].at \in 1..Len(proc[p].chain)
  BY <1>1, <1>3, <1>4 DEF ReplayedTo
<1>6. proc[p].chain[proc[p].at] \in Event
  BY <1>4, <1>5 DEF Chains
<1>7. /\ proc[p].at > Len(registry.events) => Next1(proc[p], registry.events)
      /\ proc[p].at > proc[p].prefix => proc[p].at > Len(registry.events)
  BY <1>3, <1>4, <1>5 DEF ReplayedTo, Next1
<1>. QED BY <1>1, <1>2, <1>3, <1>4, <1>5, <1>6, <1>7 DEF ReplayedTo, Leads, Read

LEMMA AdvancedIs ==
  ASSUME NEW r \in Processes
  PROVE  /\ Advanced(r) \in Processes /\ Advanced(r).phase = "replaying"
         /\ Advanced(r).chain = r.chain /\ Advanced(r).at = r.at + 1
         /\ Advanced(r).prefix = r.prefix
<1>. DEFINE v == Advanced(r)
            none == NoFiles
            n == r.at + 1
<1>1. v = [r EXCEPT !.phase = "replaying", !.at = n, !.new = none, !.copied = FALSE]
  BY DEF Advanced
<1>2. none \in FilePairs /\ n \in Nat /\ "replaying" \in Phase
  BY NoFilesTyped DEF Processes, Phase
<1>. HIDE DEF v, none, n
<1>3. v \in Processes /\ v.phase = "replaying" /\ v.chain = r.chain /\ v.at = n /\ v.prefix = r.prefix
  BY <1>1, <1>2 DEF Processes
<1>. QED BY <1>3 DEF v, n

(* An event that is there already is passed over.                          *)
LEMMA PassesOver ==
  ASSUME Alone, NEW p \in Projector, NEW type, Replaying(p, type),
         proc[p].at <= Len(registry.events), Only(p, Advanced(proc[p]))
  PROVE  Alone'
<1>. DEFINE v == Advanced(proc[p])
<1>1. /\ ~Free(p) /\ proc[p].phase = "replaying" /\ proc[p] \in Processes
      /\ proc[p].at \in 1..Len(proc[p].chain) /\ Len(proc[p].chain) \in Nat /\ proc[p].prefix \in Nat
      /\ ReplayedTo(proc[p], registry.events)
  BY ReplayingIs
<1>2. v \in Processes /\ v.phase = "replaying" /\ v.chain = proc[p].chain /\ v.at = proc[p].at + 1 /\ v.prefix = proc[p].prefix
  BY <1>1, AdvancedIs
<1>. HIDE DEF v
<1>3. ReplayedTo(v, registry.events)
  BY <1>1, <1>2 DEF ReplayedTo
<1>4. Holds(v)
  BY <1>2, <1>3 DEF Holds, Reviewing
<1>5. Only(p, v)
  BY DEF v
<1>. QED BY <1>1, <1>2, <1>4, <1>5, OnlyGoesOn

LEMMA SkipReviewKept ==
  ASSUME Alone, NEW p \in Projector, SkipReview(p)
  PROVE  Alone'
<1>1. Replaying(p, "review") /\ proc[p].at <= proc[p].prefix
  BY DEF SkipReview
<1>2. /\ ~Free(p) /\ proc[p].phase = "replaying" /\ proc[p].at \in Nat /\ proc[p].prefix \in Nat
      /\ ReplayedTo(proc[p], registry.events) /\ Len(registry.events) \in Nat
  BY <1>1, ReplayingIs
<1>3. proc[p].at <= Len(registry.events)
  BY <1>1, <1>2 DEF ReplayedTo
<1>4. Only(p, Advanced(proc[p])) \/ Fail(p)
  BY DEF SkipReview
<1>. QED BY <1>1, <1>2, <1>3, <1>4, PassesOver, IdleQuits

(* A review is about to be recorded, its archive copied or there.          *)
LEMMA Copies ==
  ASSUME Alone, NEW p \in Projector, ~Free(p), NEW v \in Processes, Becomes(p, v),
         proc[p].phase \in {"replaying", "copying"}, v.phase \in {"copying", "recording"},
         Next1(v, registry.events), v.chain[v.at].type = "review",
         (IF proc[p].phase = "copying" THEN part = {v.chain[v.at]} ELSE part = {})
           => part' = IF v.phase = "copying" THEN {v.chain[v.at]} ELSE {},
         proc[p].phase = "copying" => proc[p].chain[proc[p].at] = v.chain[v.at],
         UNCHANGED <<created, source, lineage, registry, manifest, dirs, reported, faults>>
  PROVE  Alone'
<1>1. (\A q \in Projector \ {p} : Free(q)) /\ Busy(proc[p])
  BY OthersFree
<1>2. proc'[p] = v /\ proc' \in [Projector -> Processes] /\ \A q \in Projector \ {p} : proc'[q] = proc[q]
  BY Becoming
<1>3. Typed'
  BY <1>2 DEF Alone, Typed
<1>4. Destined'
  BY DEF Alone, Destined, OfOneSource, Includes
<1>5. Holds(proc[p])'
  BY <1>2 DEF Holds, Leads, Read, Next1, Reviewing
<1>6. faults' = 0 => Clean(proc[p])'
  <2>1. faults = 0 => Tidy(Current, dirs)
    BY <1>1 DEF Busy, Clean
  <2>2. faults = 0 => part' = IF v.phase = "copying" THEN {v.chain[v.at]} ELSE {}
    BY <1>1 DEF Busy, Clean
  <2>. QED BY <1>2, <2>1, <2>2 DEF Clean, Tidy, Current, OutcomeIds
<1>7. Busy(proc[p])'
  BY <1>1, <1>5, <1>6 DEF Busy
<1>. QED BY <1>1, <1>2, <1>3, <1>4, <1>7, OneSteps

LEMMA BeginReviewKept ==
  ASSUME Alone, NEW p \in Projector, BeginReview(p)
  PROVE  Alone'
<1>. DEFINE e == proc[p].chain[proc[p].at]
<1>1. Replaying(p, "review") /\ proc[p].at > proc[p].prefix
  BY DEF BeginReview
<1>2. /\ ~Free(p) /\ proc[p].phase = "replaying" /\ proc[p] \in Processes /\ e.type = "review"
      /\ Next1(proc[p], registry.events)
  BY <1>1, ReplayingIs
<1>3. CASE Fail(p)
  BY <1>2, <1>3, IdleQuits
<1>4. CASE Only(p, [proc[p] EXCEPT !.phase = "recording"])
  <2>. DEFINE v == [proc[p] EXCEPT !.phase = "recording"]
  <2>1. v \in Processes /\ v.phase = "recording" /\ v.chain = proc[p].chain /\ v.at = proc[p].at /\ v.prefix = proc[p].prefix
    BY <1>2 DEF Processes, Phase
  <2>. HIDE DEF v
  <2>2. Holds(v)
    BY <1>2, <2>1 DEF Holds, Reviewing, Next1
  <2>3. Only(p, v)
    BY <1>4 DEF v
  <2>. QED BY <1>2, <2>1, <2>2, <2>3, OnlyGoesOn
<1>5. CASE /\ part' = part \cup {e} /\ Becomes(p, [proc[p] EXCEPT !.phase = "copying"])
           /\ UNCHANGED <<lineage, registry, manifest, dirs, whole>> /\ UNCHANGED history
  <2>. DEFINE v == [proc[p] EXCEPT !.phase = "copying"]
  <2>1. v \in Processes /\ v.phase = "copying" /\ v.chain = proc[p].chain /\ v.at = proc[p].at /\ v.prefix = proc[p].prefix
    BY <1>2 DEF Processes, Phase
  <2>. HIDE DEF v
  <2>2. Next1(v, registry.events) /\ v.chain[v.at] = e
    BY <1>2, <2>1 DEF Next1
  <2>3. Becomes(p, v) /\ UNCHANGED <<created, source, lineage, registry, manifest, dirs, reported, faults>>
    BY <1>5 DEF v, history
  <2>4. part = {} => part' = {v.chain[v.at]}
    BY <1>5, <2>2
  <2>. QED BY <1>2, <2>1, <2>2, <2>3, <2>4, Copies
<1>. QED BY <1>3, <1>4, <1>5, Zenon DEF BeginReview

LEMMA CopyArchiveKept ==
  ASSUME Alone, NEW p \in Projector, CopyArchive(p)
  PROVE  Alone'
<1>. DEFINE e == proc[p].chain[proc[p].at]
            v == [proc[p] EXCEPT !.phase = "recording", !.copied = TRUE]
<1>1. ~Free(p) /\ proc[p].phase = "copying"
  BY DEF CopyArchive, At, Free
<1>2. proc[p] \in Processes /\ Next1(proc[p], registry.events) /\ e.type = "review"
  BY <1>1, OthersFree DEF Busy, Holds, Reviewing
<1>3. v \in Processes /\ v.phase = "recording" /\ v.chain = proc[p].chain /\ v.at = proc[p].at /\ v.prefix = proc[p].prefix
  BY <1>2 DEF Processes, Phase
<1>4. /\ part' = part \ {e} /\ Becomes(p, v)
      /\ UNCHANGED <<created, source, lineage, registry, manifest, dirs, reported, faults>>
  BY Zenon DEF CopyArchive, history
<1>. HIDE DEF v
<1>5. Next1(v, registry.events) /\ v.chain[v.at] = e
  BY <1>2, <1>3 DEF Next1
<1>6. part = {e} => part' = {}
  BY <1>4
<1>. QED BY <1>1, <1>2, <1>3, <1>4, <1>5, <1>6, Copies

LEMMA RecordReviewKept ==
  ASSUME Alone, NEW p \in Projector, RecordReview(p)
  PROVE  Alone'
<1>. DEFINE e == proc[p].chain[proc[p].at]
            new == WithReview(Current, e)
            v == [proc[p] EXCEPT !.phase = "writing", !.new = new]
<1>1. ~Free(p) /\ proc[p].phase = "recording"
  BY DEF RecordReview, At, Free
<1>2. proc[p] \in Processes /\ Next1(proc[p], registry.events) /\ e.type = "review"
  BY <1>1, OthersFree DEF Busy, Holds, Reviewing
<1>3. CASE Only(p, v)
  <2>1. new \in FilePairs
    <3>1. registry.events \in Chains
      BY DEF Alone, Typed, Registries
    <3>2. Append(registry.events, e) \in Chains
      BY <1>2, <3>1, NextContinues
    <3>3. registry \in Registries /\ manifest \in Manifests
      BY DEF Alone, Typed
    <3>. DEFINE ev2 == Append(registry.events, e)
    <3>4. new = [registry |-> [registry EXCEPT !.events = ev2], manifest |-> manifest]
      BY DEF WithReview, Current
    <3>. HIDE DEF ev2, new
    <3>5. [registry EXCEPT !.events = ev2] \in Registries
      BY <3>2, <3>3 DEF Registries, ev2
    <3>. QED BY <3>3, <3>4, <3>5 DEF FilePairs
  <2>2. /\ v \in Processes /\ v.phase = "writing" /\ v.new = new
        /\ v.chain = proc[p].chain /\ v.at = proc[p].at /\ v.prefix = proc[p].prefix
    <3>. HIDE DEF new
    <3>. QED BY <1>2, <2>1 DEF Processes, Phase
  <2>. HIDE DEF v
  <2>3. Holds(v)
    <3>1. Next1(v, registry.events) /\ v.chain[v.at] = e
      BY <1>2, <2>2 DEF Next1
    <3>. QED BY <1>2, <2>2, <3>1 DEF Holds, Reviewing
  <2>. QED BY <1>1, <1>3, <2>2, <2>3, OnlyGoesOn
<1>4. CASE RemoveArchive(p) /\ UNCHANGED <<lineage, registry, manifest, dirs, part>>
           /\ UNCHANGED history
  BY <1>1, <1>4, Quits DEF RemoveArchive, history
<1>. QED BY <1>3, <1>4, Zenon DEF RecordReview

LEMMA WritesReview ==
  ASSUME Alone, NEW p \in Projector, ~Free(p), proc[p].phase = "writing", NEW v \in Processes, Becomes(p, v),
         v.phase = "idle" \/ (v.phase = "replaying" /\ v.chain = proc[p].chain
                                /\ v.at = proc[p].at + 1 /\ v.prefix = proc[p].prefix),
         registry' = proc[p].new.registry,
         UNCHANGED <<created, source, lineage, manifest, dirs, part, reported, faults>>
  PROVE  Alone'
<1>. DEFINE r == proc[p]
            ev == registry.events
            e == r.chain[r.at]
            ev2 == Append(ev, e)
<1>1. (\A q \in Projector \ {p} : Free(q)) /\ Busy(r) /\ r \in Processes
  BY OthersFree
<1>2. proc'[p] = v /\ proc' \in [Projector -> Processes] /\ \A q \in Projector \ {p} : proc'[q] = proc[q]
  BY Becoming
<1>3. /\ Next1(r, ev) /\ e.type = "review" /\ r.new = WithReview(Current, e)
      /\ faults = 0 => Tidy(Current, dirs) /\ part = {}
  BY <1>1 DEF Busy, Holds, Clean, Reviewing
<1>4. ev \in Chains /\ Len(ev) \in Nat /\ registry \in Registries /\ OfOneSource(ev) /\ Includes(ev)
  BY DEF Alone, Typed, Registries, Chains, Destined
<1>5. /\ e \in Event /\ ev2 \in Chains /\ Len(ev2) = r.at /\ Leads(r.chain, ev2)
      /\ OfOneSource(ev2) /\ Includes(ev2)
  BY <1>1, <1>3, <1>4, NextContinues
<1>6. registry'.events = ev2 /\ registry'.cases = registry.cases /\ registry' \in Registries
  <2>1. registry' = [registry EXCEPT !.events = ev2]
    BY <1>3 DEF WithReview, Current
  <2>. HIDE DEF ev2
  <2>. QED BY <1>4, <1>5, <2>1 DEF Registries
<1>7. OutcomeIds(registry') = OutcomeIds(registry)
  <2>1. e.type # "outcome"
    BY <1>3
  <2>2. \A g : g.events = Append(registry.events, e) => OutcomeIds(g) = OutcomeIds(registry)
    <3>. HIDE DEF e
    <3>. QED BY <1>4, <1>5, <2>1, IdsGrow
  <2>. HIDE DEF e
  <2>. QED BY <1>6, <2>2
<1>8. Typed'
  BY <1>2, <1>6 DEF Alone, Typed
<1>9. lineage # 0
  BY <1>1 DEF Busy
<1>10. Destined'
  BY <1>5, <1>6, <1>9 DEF Destined, OfOneSource, Includes
<1>11. faults' = 0 => Tidy(Current, dirs)' /\ part' = {}
  <2>1. /\ (Current)'.registry = registry' /\ (Current)'.manifest = manifest
        /\ Current.registry = registry /\ Current.manifest = manifest
    BY DEF Current
  <2>2. PICK f : f.registry = registry' /\ f.manifest = manifest
    <3>1. (Current)'.registry = registry' /\ (Current)'.manifest = manifest
      BY <2>1
    <3>. QED BY <3>1, Zenon
  <2>3. Tidy(Current, dirs) => Tidy(f, dirs)
    BY <1>6, <1>7, <2>1, <2>2 DEF Tidy
  <2>4. Tidy(f, dirs) => Tidy(Current, dirs)'
    BY <2>1, <2>2 DEF Tidy, OutcomeIds
  <2>. QED BY <1>3, <2>3, <2>4
<1>12. v.phase = "idle" => Rest'
  BY <1>11 DEF Rest
<1>13. ASSUME v.phase = "replaying" PROVE Busy(proc[p])'
  <2>1. /\ v.chain = r.chain /\ v.at = r.at + 1 /\ v.prefix = r.prefix
    BY <1>13
  <2>2. r.at \in 1..Len(r.chain) /\ r.prefix < r.at /\ r.at \in Nat /\ r.prefix \in Nat /\ Len(r.chain) \in Nat
    BY <1>1, <1>3, <1>4 DEF Next1, Processes, Chains
  <2>3. ReplayedTo(v, ev2)
    <3>. HIDE DEF r, ev2
    <3>. QED BY <1>5, <2>1, <2>2 DEF ReplayedTo
  <2>4. Holds(proc[p])'
    <3>. HIDE DEF ev2
    <3>. QED BY <1>2, <1>6, <1>13, <2>3 DEF Holds, Reviewing, ReplayedTo, Leads, Read
  <2>5. faults' = 0 => Clean(proc[p])'
    BY <1>2, <1>11, <1>13 DEF Clean
  <2>. QED BY <1>9, <2>4, <2>5 DEF Busy
<1>. QED BY <1>1, <1>2, <1>8, <1>10, <1>12, <1>13, OneSteps

LEMMA WriteReviewKept ==
  ASSUME Alone, NEW p \in Projector, WriteReview(p)
  PROVE  Alone'
<1>1. ~Free(p) /\ proc[p].phase = "writing"
  BY DEF WriteReview, At, Free
<1>2. proc[p] \in Processes
  BY <1>1, OthersFree
<1>3. /\ registry' = proc[p].new.registry
      /\ Becomes(p, Idle) \/ Becomes(p, Advanced(proc[p]))
      /\ UNCHANGED <<created, source, lineage, manifest, dirs, part, reported, faults>>
  BY Zenon DEF WriteReview, history
<1>4. CASE Becomes(p, Idle)
  BY <1>1, <1>3, <1>4, IdleIs, WritesReview
<1>5. CASE Becomes(p, Advanced(proc[p]))
  <2>. DEFINE v == Advanced(proc[p])
  <2>1. v \in Processes /\ v.phase = "replaying" /\ v.chain = proc[p].chain /\ v.at = proc[p].at + 1 /\ v.prefix = proc[p].prefix
    BY <1>2, AdvancedIs
  <2>. HIDE DEF v
  <2>2. Becomes(p, v)
    BY <1>5 DEF v
  <2>. QED BY <1>1, <1>3, <2>1, <2>2, WritesReview
<1>. QED BY <1>3, <1>4, <1>5

LEMMA RecordedIsBehind ==
  ASSUME Alone, NEW r \in Processes, NEW ev \in Chains, ReplayedTo(r, ev), r.at \in 1..Len(r.chain)
  PROVE  r.chain[r.at] \in Range(ev) <=> r.at <= Len(ev)
<1>. DEFINE e == r.chain[r.at]
<1>1. r.chain \in Chains /\ Len(r.chain) \in Nat /\ Len(ev) \in Nat /\ DOMAIN ev = 1..Len(ev) /\ r.at \in Nat
  BY DEF Processes, Chains
<1>2. PICK s \in Source : Begins(r.chain, source[s])
  BY DEF ReplayedTo, Leads, Read
<1>3. \A i \in 1..Len(r.chain) : r.chain[i].no = i
  <2>1. source[s] \in Chains /\ \A i \in 1..Len(source[s]) : source[s][i].no = i
    BY DEF Alone, Sourced
  <2>2. Len(source[s]) \in Nat
    BY <2>1 DEF Chains
  <2>. QED BY <1>1, <1>2, <2>1, <2>2 DEF Begins
<1>4. Len(ev) <= Len(r.chain) /\ \A i \in 1..Len(ev) : ev[i] = r.chain[i]
  BY DEF ReplayedTo, Leads, Begins
<1>5. ASSUME e \in Range(ev) PROVE r.at <= Len(ev)
  <2>1. PICK j \in 1..Len(ev) : ev[j] = e
    BY <1>1, <1>5 DEF Range
  <2>2. j \in 1..Len(r.chain) /\ r.chain[j] = r.chain[r.at]
    BY <1>1, <1>4, <2>1
  <2>3. j = r.at
    BY <1>3, <2>2
  <2>. QED BY <1>1, <2>1, <2>3
<1>6. ASSUME r.at <= Len(ev) PROVE e \in Range(ev)
  <2>1. r.at \in 1..Len(ev) /\ ev[r.at] = e
    BY <1>1, <1>4, <1>6
  <2>. QED BY <1>1, <2>1 DEF Range
<1>. QED BY <1>5, <1>6

LEMMA TransportKept ==
  ASSUME Alone, NEW p \in Projector, Transport(p)
  PROVE  Alone'
<1>. DEFINE r == proc[p]
            ev == registry.events
            e == r.chain[r.at]
            new == WithOutcome(Current, e)
            dir == Append(ev, e)
            v == [r EXCEPT !.phase = "replacing", !.new = new, !.dir = dir]
<1>1. Replaying(p, "outcome")
  BY DEF Transport
<1>2. /\ ~Free(p) /\ r.phase = "replaying" /\ r \in Processes /\ e.type = "outcome" /\ r.chain # <<>>
      /\ r.at \in 1..Len(r.chain) /\ Len(r.chain) \in Nat /\ ev \in Chains /\ Len(ev) \in Nat
      /\ ReplayedTo(r, ev)
      /\ r.at > Len(ev) => Next1(r, ev)
      /\ e \in Range(ev) <=> r.at <= Len(ev)
  <2>1. /\ ~Free(p) /\ r.phase = "replaying" /\ r \in Processes /\ e.type = "outcome" /\ r.chain # <<>>
        /\ r.at \in 1..Len(r.chain) /\ Len(r.chain) \in Nat /\ ev \in Chains /\ Len(ev) \in Nat
        /\ ReplayedTo(r, ev)
        /\ r.at > Len(ev) => Next1(r, ev)
    BY <1>1, ReplayingIs
  <2>2. e \in Range(ev) <=> r.at <= Len(ev)
    BY <2>1, RecordedIsBehind
  <2>. QED BY <2>1, <2>2
<1>3. CASE Fail(p)
  BY <1>2, <1>3, IdleQuits
<1>4. CASE e \in Range(ev) /\ Only(p, Advanced(r))
  BY <1>1, <1>2, <1>4, PassesOver
<1>5. CASE e \notin Range(ev) /\ Place(p, r, new, dir)
  <2>1. r.at > Len(ev)
    BY <1>2, <1>5
  <2>2. Next1(r, ev)
    BY <1>2, <2>1
  <2>3. dir \in Chains
    BY <1>2, <2>2, NextContinues
  <2>4. new \in FilePairs
    <3>1. new = [registry |-> [registry EXCEPT !.events = dir],
                 manifest |-> [manifest EXCEPT !.outcomes = manifest.outcomes \cup {dir}]]
      BY DEF WithOutcome, Current
    <3>2. registry \in Registries /\ manifest \in Manifests
      BY DEF Alone, Typed
    <3>. HIDE DEF dir, new
    <3>3. [registry EXCEPT !.events = dir] \in Registries
      BY <2>3, <3>2 DEF Registries
    <3>4. [manifest EXCEPT !.outcomes = manifest.outcomes \cup {dir}] \in Manifests
      BY <2>3, <3>2 DEF Manifests
    <3>. QED BY <3>1, <3>3, <3>4 DEF FilePairs
  <2>5. /\ v \in Processes /\ v.phase = "replacing" /\ v.dir = dir /\ v.new = new
        /\ v.chain = r.chain /\ v.at = r.at /\ v.prefix = r.prefix
    <3>. HIDE DEF new, dir
    <3>. QED BY <1>2, <2>3, <2>4 DEF Processes, Phase
  <2>6. /\ dir \notin dirs /\ dirs' = dirs \cup {dir} /\ Becomes(p, v)
        /\ UNCHANGED <<created, source, lineage, registry, manifest, part, reported, faults>>
    BY <1>5, Zenon DEF Place, history
  <2>7. Grows(v, Current)
    <3>1. Current.registry.events = ev
      BY DEF Current
    <3>2. Next1(v, ev) /\ v.chain[v.at] = e
      <4>. HIDE DEF v
      <4>. QED BY <2>2, <2>5 DEF Next1
    <3>. HIDE DEF v
    <3>. QED BY <1>2, <2>5, <3>1, <3>2 DEF Grows
  <2>. HIDE DEF v, new, dir
  <2>. QED BY <1>2, <2>5, <2>6, <2>7, Places
<1>. QED BY <1>3, <1>4, <1>5, Zenon DEF Transport

LEMMA FinishProjectKept ==
  ASSUME Alone, NEW p \in Projector, FinishProject(p)
  PROVE  Alone'
<1>. DEFINE r == proc[p]
<1>1. ~Free(p) /\ r.phase = "replaying"
  BY DEF FinishProject, At, Free
<1>2. (\A q \in Projector \ {p} : Free(q)) /\ Busy(r) /\ r \in Processes
  BY <1>1, OthersFree
<1>3. /\ Becomes(p, Idle)
      /\ UNCHANGED <<created, source, lineage, registry, manifest, dirs, part, faults>>
  BY DEF FinishProject, destination
<1>4. proc'[p].phase = "idle" /\ proc' \in [Projector -> Processes] /\ \A q \in Projector \ {p} : proc'[q] = proc[q]
  BY <1>3, IdleIs, Becoming
<1>5. reported' = reported \/ (reported' = reported \cup {r.chain} /\ registry.events = r.chain)
  <2>1. CASE AsPreflight(r)
    <3>1. registry = [r.base.registry EXCEPT !.events = r.chain]
      BY <2>1, Zenon DEF AsPreflight
    <3>2. r.base.registry \in Registries
      BY <1>2 DEF Processes, FilePairs
    <3>3. registry.events = r.chain
      BY <3>1, <3>2 DEF Registries
    <3>4. reported' = reported \cup {r.chain}
      BY <2>1, Zenon DEF FinishProject
    <3>. QED BY <3>3, <3>4
  <2>2. CASE ~AsPreflight(r)
    BY <2>2, Zenon DEF FinishProject
  <2>. QED BY <2>1, <2>2
<1>6. r.chain \in Chains /\ Begins(r.chain, r.chain)
  BY <1>2 DEF Processes, Begins, Chains
<1>7. Typed'
  BY <1>3, <1>4, <1>5, <1>6 DEF Alone, Typed
<1>8. Destined'
  <2>. HIDE DEF r
  <2>1. lineage # 0
    BY <1>2 DEF Busy
  <2>2. Includes(registry.events)'
    BY <1>3, <1>5, <1>6 DEF Alone, Destined, Includes
  <2>. QED BY <1>3, <2>1, <2>2 DEF Alone, Destined, OfOneSource
<1>9. Rest'
  <2>1. faults = 0 => Tidy(Current, dirs) /\ part = {}
    BY <1>1, <1>2 DEF Busy, Clean
  <2>. QED BY <1>3, <2>1 DEF Rest, Tidy, Current, OutcomeIds
<1>. QED BY <1>2, <1>3, <1>4, <1>7, <1>8, <1>9, OneSteps

LEMMA FailuresKept ==
  ASSUME Alone, NEW p \in Projector, Fault(p)
  PROVE  Alone'
<1>1. CASE Undo(p)
  BY <1>1, UndoKept
<1>2. CASE ReviewFails(p)
  <2>1. /\ Becomes(p, Idle) /\ ~Free(p) /\ proc[p].phase \in {"recording", "writing"}
        /\ UNCHANGED <<created, source, lineage, registry, manifest, dirs, part, reported, faults>>
    BY <1>2 DEF ReviewFails, RemoveArchive, Erring, At, Free
  <2>. QED BY <2>1, Quits
<1>3. CASE CopyFails(p) \/ Die(p)
  <2>1. /\ Becomes(p, Idle) /\ ~Free(p) /\ faults' = faults + 1
        /\ UNCHANGED <<created, source, lineage, registry, manifest, dirs, part, reported>>
    BY <1>3 DEF CopyFails, Die, At, Free, destination
  <2>. QED BY <2>1, Quits
<1>. QED BY <1>1, <1>2, <1>3 DEF Fault

LEMMA StepsKept ==
  ASSUME Alone, NEW p \in Projector, Proceed(p)
  PROVE  Alone'
<1>1. CASE FinishAssess(p)
  <2>1. ~Free(p) /\ proc[p].phase = "assessing" /\ Fail(p)
    BY <1>1 DEF FinishAssess, At, Free
  <2>. QED BY <2>1, IdleQuits
<1>2. CASE \E c \in Source : Intake(p, c)
  BY <1>2, IntakeKept
<1>3. CASE Preflight(p)
  BY <1>3, PreflightKept
<1>4. CASE CheckUnchanged(p)
  BY <1>4, CheckKept
<1>5. CASE SkipReview(p)
  BY <1>5, SkipReviewKept
<1>6. CASE BeginReview(p)
  BY <1>6, BeginReviewKept
<1>7. CASE CopyArchive(p)
  BY <1>7, CopyArchiveKept
<1>8. CASE RecordReview(p)
  BY <1>8, RecordReviewKept
<1>9. CASE WriteReview(p)
  BY <1>9, WriteReviewKept
<1>10. CASE Transport(p)
  BY <1>10, TransportKept
<1>11. CASE FinishProject(p)
  BY <1>11, FinishProjectKept
<1>12. CASE ReplaceRegistry(p)
  BY <1>12, ReplaceRegistryKept
<1>13. CASE ReplaceManifest(p)
  BY <1>13, ReplaceManifestKept
<1>. QED
  BY <1>1, <1>2, <1>3, <1>4, <1>5, <1>6, <1>7, <1>8, <1>9, <1>10, <1>11, <1>12, <1>13
     DEF Proceed, Assess, Project

(* Only a command that starts can find another one under way.              *)
LEMMA AloneRemains ==
  ASSUME NEW p, Proceed(p) \/ Fault(p)
  PROVE  alone' = alone
<1>. USE DEF Only, Fail, Place, history, Erring, RemoveArchive
<1>1. CASE Assess(p)
  BY <1>1 DEF Assess, FinishAssess, Intake
<1>2. CASE Preflight(p) \/ CheckUnchanged(p) \/ SkipReview(p)
  BY <1>2 DEF Preflight, CheckUnchanged, SkipReview
<1>3. CASE BeginReview(p) \/ CopyArchive(p) \/ Transport(p)
  BY <1>3 DEF BeginReview, CopyArchive, Transport
<1>4. CASE RecordReview(p) \/ WriteReview(p) \/ FinishProject(p)
  BY <1>4 DEF RecordReview, WriteReview, FinishProject
<1>5. CASE ReplaceRegistry(p) \/ ReplaceManifest(p)
  BY <1>5 DEF ReplaceRegistry, ReplaceManifest
<1>6. CASE Fault(p)
  BY <1>6 DEF Fault, Undo, ReviewFails, CopyFails, Die
<1>. QED BY <1>1, <1>2, <1>3, <1>4, <1>5, <1>6 DEF Proceed, Project

LEMMA StaysSound ==
  ASSUME ProjectionInv, [ProjectionNext]_projectionVars
  PROVE  ProjectionInv'
<1>1. ASSUME alone, alone', Alone PROVE Alone'
  <2>1. ASSUME NEW s \in Source, NEW type \in {"review", "outcome"}, SourceEvent(s, type) PROVE Alone'
    BY <1>1, <2>1, SourceEventKept
  <2>2. ASSUME NEW S \in SUBSET Source, CreateWorkspace(S) PROVE Alone'
    BY <1>1, <2>2, CreateWorkspaceKept
  <2>3. ASSUME NEW S \in SUBSET Source, NEW p \in Projector, StartAssess(p, S) PROVE Alone'
    BY <1>1, <2>3, StartAssessKept
  <2>4. ASSUME NEW p \in Projector, NEW s \in Source, StartProject(p, s) PROVE Alone'
    BY <1>1, <2>4, StartProjectKept
  <2>5. ASSUME NEW p \in Projector, Proceed(p) PROVE Alone'
    BY <1>1, <2>5, StepsKept
  <2>6. ASSUME NEW p \in Projector, Fault(p) PROVE Alone'
    BY <1>1, <2>6, FailuresKept
  <2>7. CASE UNCHANGED projectionVars
    <3>. USE <1>1, <2>7 DEF projectionVars, Alone
    <3>1. Typed' /\ Sourced'
      BY DEF Typed, Sourced
    <3>2. Destined' /\ (Rest => Rest')
      BY DEF Destined, OfOneSource, Includes, Rest, Tidy, Current
    <3>3. ASSUME NEW p \in Projector, ~Free(p)' PROVE Busy(proc[p])'
      <4>1. Busy(proc[p])
        BY <3>3 DEF Free
      <4>2. Holds(proc[p])'
        BY <4>1 DEF Busy, Holds, Grows, Leads, Read, ReplayedTo, Next1, Current, OfOneSource, Includes
      <4>3. faults = 0 => Clean(proc[p])'
        BY <4>1 DEF Busy, Clean, Tidy, Current
      <4>. QED BY <4>1, <4>2, <4>3 DEF Busy
    <3>. QED BY <3>1, <3>2, <3>3 DEF Free
  <2>. QED BY <2>1, <2>2, <2>3, <2>4, <2>5, <2>6, <2>7 DEF ProjectionNext
<1>2. alone' => alone
  <2>1. CASE \E p \in Projector : (\E S \in SUBSET Source : StartAssess(p, S)) \/ \E s \in Source : StartProject(p, s)
    BY <2>1 DEF StartAssess, StartProject, Starts
  <2>2. CASE \E s \in Source, type \in {"review", "outcome"} : SourceEvent(s, type)
    BY <2>2 DEF SourceEvent
  <2>3. CASE \E S \in SUBSET Source : CreateWorkspace(S)
    BY <2>3 DEF CreateWorkspace, history
  <2>4. ASSUME NEW p \in Projector, Proceed(p) \/ Fault(p) PROVE alone' = alone
    BY <2>4, AloneRemains
  <2>5. CASE UNCHANGED projectionVars
    BY <2>5 DEF projectionVars
  <2>. QED BY <2>1, <2>2, <2>3, <2>4, <2>5 DEF ProjectionNext
<1>. QED BY <1>1, <1>2 DEF ProjectionInv

LEMMA ProjectionInvariant == ProjectionSpec => []ProjectionInv
<1>1. ProjectionInit => ProjectionInv
  BY BeginsSound
<1>2. ProjectionInv /\ [ProjectionNext]_projectionVars => ProjectionInv'
  BY StaysSound
<1>. QED BY <1>1, <1>2, PTL DEF ProjectionSpec

(* However many sources, processes and events there are, the destination   *)
(* of commands that do not overlap is the beginning of one source of its   *)
(* own lineage, whatever fails or dies half way.                           *)
THEOREM DestinationsFollowOneSource == ProjectionSpec => []OneChain
<1>1. ProjectionInv => OneChain
  <2>. SUFFICES ASSUME alone, Alone, registry.events # <<>>
                PROVE  \E s \in Source : created[s] = lineage /\ IsPrefix(registry.events, source[s])
    BY DEF ProjectionInv, OneChain
  <2>1. PICK s \in Source : created[s] = lineage /\ Begins(registry.events, source[s])
    BY DEF Alone, Destined, OfOneSource
  <2>2. registry.events \in Chains /\ source[s] \in Chains
    BY DEF Alone, Typed, Sourced, Registries
  <2>. QED BY <2>1, <2>2, PrefixIs
<1>. QED BY <1>1, ProjectionInvariant, PTL

(* What a projection has reported stays the beginning of what is there.    *)
THEOREM ReportedChainsRemain == ProjectionSpec => []ReportedChainsStay
<1>1. ProjectionInv => ReportedChainsStay
  <2>. SUFFICES ASSUME alone, Alone, NEW chain \in reported
                PROVE  IsPrefix(chain, registry.events)
    BY DEF ProjectionInv, ReportedChainsStay
  <2>1. registry.events \in Chains /\ chain \in Chains
    BY DEF Alone, Typed, Registries
  <2>2. Begins(chain, registry.events)
    BY DEF Alone, Destined, Includes
  <2>. QED BY <2>1, <2>2, PrefixIs
<1>. QED BY <1>1, ProjectionInvariant, PTL

(* Between commands there is damage only after a death or an archive that  *)
(* was copied in part: I/O errors are undone completely.                   *)
THEOREM DamageTakesADeath == ProjectionSpec => []ErrorsAreUndone
<1>1. ProjectionInv => ErrorsAreUndone
  <2>. SUFFICES ASSUME alone, Alone, \A p \in Projector : At(p, "idle"), Damaged
                PROVE  faults > 0
    BY DEF ProjectionInv, ErrorsAreUndone
  <2>1. Rest /\ faults \in Nat
    BY DEF Alone, Typed, Free, At
  <2>2. Tidy(Current, dirs) => dirs = registry.cases \cup OutcomeIds(registry)
    BY DEF Tidy, Current
  <2>3. Tidy(Current, dirs) => Reconciled(Current)
    BY DEF Tidy, Reconciled
  <2>. QED BY <2>1, <2>2, <2>3 DEF Rest, Damaged
<1>. QED BY <1>1, ProjectionInvariant, PTL

-----------------------------------------------------------------------------
(* Types, also of commands that overlap.                                   *)

(* A command that has taken up an event of its chain is within the chain.  *)
Within(r) ==
  /\ r.at <= Len(r.chain) + 1
  /\ r.phase = "assessing" => r.chain = <<>>
  /\ r.phase = "replaying" => r.at >= 1
  /\ r.phase \in Reviewing => r.at \in 1..Len(r.chain)
  /\ r.phase \in {"replacing", "mapping"} => r.chain = <<>> \/ r.at \in 1..Len(r.chain)

ProjectionTypes ==
  /\ created \in [Source -> Created]
  /\ source \in [Source -> Chains] /\ \A s \in Source : Len(source[s]) <= MaxEvents
  /\ lineage \in {0} \cup Created
  /\ registry \in Registries /\ manifest \in Manifests
  /\ whole \subseteq Event /\ part \subseteq Event
  /\ proc \in [Projector -> Processes] /\ \A p \in Projector : Within(proc[p])
  /\ alone \in BOOLEAN /\ errors \in 0..MaxErrors /\ faults \in 0..MaxFaults

LEMMA TypesBegin == ProjectionInit => ProjectionTypes
<1>. SUFFICES ASSUME ProjectionInit PROVE ProjectionTypes
  OBVIOUS
<1>1. <<>> \in Chains /\ Len(<<>>) = 0
  BY DEF Chains
<1>2. Idle \in Processes
  BY IdleIs
<1>3. Within(Idle)
  BY <1>1 DEF Within, Idle, Reviewing
<1>4. registry \in Registries /\ manifest \in Manifests
  BY <1>1 DEF ProjectionInit, EmptyRegistry, EmptyManifest, Registries, Manifests
<1>. QED
  BY <1>1, <1>2, <1>3, <1>4, ProjectionAssumption DEF ProjectionInit, ProjectionTypes

(* One command's step, which leaves the sources as they are.               *)
LEMMA TypedStep ==
  ASSUME ProjectionTypes, NEW p \in Projector, NEW v \in Processes, Within(v), Becomes(p, v),
         UNCHANGED <<created, source>>, lineage' \in {0} \cup Created,
         registry' \in Registries, manifest' \in Manifests,
         whole' \subseteq Event, part' \subseteq Event,
         alone' \in BOOLEAN, errors' \in 0..MaxErrors, faults' \in 0..MaxFaults
  PROVE  ProjectionTypes'
<1>1. proc' \in [Projector -> Processes]
  BY DEF ProjectionTypes, Becomes
<1>2. \A q \in Projector : Within(proc'[q])
  <2>. SUFFICES ASSUME NEW q \in Projector PROVE Within(proc'[q])
    OBVIOUS
  <2>1. proc'[q] = IF q = p THEN v ELSE proc[q]
    BY DEF ProjectionTypes, Becomes
  <2>. QED BY <2>1 DEF ProjectionTypes
<1>3. \A q \in Projector : Within(proc[q])'
  BY <1>2 DEF Within
<1>. QED BY <1>1, <1>3 DEF ProjectionTypes

LEMMA TypedOnly ==
  ASSUME ProjectionTypes, NEW p \in Projector, NEW v \in Processes, Within(v), Only(p, v)
  PROVE  ProjectionTypes'
<1>1. Becomes(p, v) /\ UNCHANGED <<destination, history>>
  BY DEF Only
<1>. QED BY <1>1, TypedStep DEF ProjectionTypes, destination, history

LEMMA WithinIdle == Within(Idle)
BY DEF Within, Idle, Reviewing

LEMMA TypedFail ==
  ASSUME ProjectionTypes, NEW p \in Projector, Fail(p)
  PROVE  ProjectionTypes'
BY WithinIdle, IdleIs, TypedOnly DEF Fail

LEMMA ProcessTyped ==
  ASSUME ProjectionTypes, NEW p \in Projector
  PROVE  /\ proc[p] \in Processes /\ Within(proc[p])
         /\ proc[p].chain \in Chains /\ Len(proc[p].chain) \in Nat /\ proc[p].at \in Nat
         /\ proc[p].new.registry \in Registries /\ proc[p].new.manifest \in Manifests
         /\ proc[p].old.registry \in Registries /\ proc[p].old.manifest \in Manifests
         /\ proc[p].at \in 1..Len(proc[p].chain) => proc[p].chain[proc[p].at] \in Event
BY DEF ProjectionTypes, Processes, FilePairs, Chains

LEMMA FilesTyped ==
  ASSUME ProjectionTypes
  PROVE  Current \in FilePairs /\ registry.events \in Chains
BY DEF ProjectionTypes, Current, FilePairs, Registries

LEMMA TypedPlace ==
  ASSUME ProjectionTypes, NEW p \in Projector, NEW r \in Processes, NEW new \in FilePairs,
         NEW dir \in Source \cup Chains, Place(p, r, new, dir),
         r.at <= Len(r.chain) + 1, r.chain = <<>> \/ r.at \in 1..Len(r.chain)
  PROVE  ProjectionTypes'
<1>. DEFINE v == [r EXCEPT !.phase = "replacing", !.new = new, !.dir = dir]
<1>1. v \in Processes /\ v.phase = "replacing" /\ v.chain = r.chain /\ v.at = r.at
  <2>1. CASE dir \in Source
    BY <2>1 DEF Processes, Phase
  <2>2. CASE dir \in Chains
    BY <2>2 DEF Processes, Phase
  <2>. QED BY <2>1, <2>2
<1>2. Becomes(p, v) /\ UNCHANGED <<lineage, registry, manifest, whole, part, history>>
  BY DEF Place
<1>. HIDE DEF v
<1>3. Within(v)
  BY <1>1 DEF Within, Reviewing
<1>. QED BY <1>1, <1>2, <1>3, TypedStep DEF ProjectionTypes, history

(* The steps of an assessment.                                             *)
LEMMA TypedAssess ==
  ASSUME ProjectionTypes, NEW p \in Projector, Assess(p)
  PROVE  ProjectionTypes'
<1>1. CASE FinishAssess(p)
  BY <1>1, TypedFail DEF FinishAssess
<1>2. ASSUME NEW c \in Source, Intake(p, c) PROVE ProjectionTypes'
  <2>. DEFINE w == [proc[p] EXCEPT !.todo = @ \ {c}]
              new == WithCase(Current, c)
  <2>1. proc[p].phase = "assessing" /\ proc[p] \in Processes /\ Within(proc[p])
    BY <1>2, ProcessTyped DEF Intake, At
  <2>2. w \in Processes /\ w.phase = "assessing" /\ w.chain = proc[p].chain /\ w.at = proc[p].at
    BY <2>1 DEF Processes
  <2>3. new \in FilePairs
    BY FilesTyped DEF FilePairs, Registries, Manifests, WithCase
  <2>4. Fail(p) \/ Only(p, w) \/ Place(p, w, new, c)
    BY <1>2 DEF Intake
  <2>. HIDE DEF w, new
  <2>5. Within(w) /\ w.chain = <<>>
    BY <2>1, <2>2 DEF Within, Reviewing
  <2>6. w.at <= Len(w.chain) + 1
    BY <2>5 DEF Within
  <2>. QED BY <2>2, <2>3, <2>4, <2>5, <2>6, TypedFail, TypedOnly, TypedPlace
<1>. QED BY <1>1, <1>2 DEF Assess

(* The steps of a projection that change no file.                          *)
LEMMA AdvancedTyped ==
  ASSUME NEW r \in Processes, r.at \in 1..Len(r.chain)
  PROVE  Advanced(r) \in Processes /\ Within(Advanced(r))
<1>. DEFINE v == Advanced(r)
<1>1. v \in Processes
  <2>1. "replaying" \in Phase /\ r.at + 1 \in Nat
    BY DEF Phase
  <2>. QED BY <2>1, NoFilesTyped DEF Advanced, Processes
<1>2. /\ v.phase = "replaying" /\ v.chain = r.chain /\ v.at = r.at + 1
      /\ Len(r.chain) \in Nat
  BY DEF Advanced, Processes, Chains
<1>. HIDE DEF v
<1>3. Within(v)
  BY <1>2 DEF Within, Reviewing
<1>. QED BY <1>1, <1>3 DEF v

LEMMA TypedReading ==
  ASSUME ProjectionTypes, NEW p \in Projector, Preflight(p) \/ CheckUnchanged(p) \/ SkipReview(p)
  PROVE  ProjectionTypes'
<1>0. proc[p] \in Processes /\ Within(proc[p]) /\ Len(proc[p].chain) \in Nat
  BY ProcessTyped
<1>1. CASE Fail(p)
  BY <1>1, TypedFail
<1>2. CASE Preflight(p) /\ ~Fail(p)
  <2>. DEFINE v == [proc[p] EXCEPT !.phase = "checking"]
  <2>1. v \in Processes /\ v.phase = "checking" /\ v.chain = proc[p].chain /\ v.at = proc[p].at
    BY <1>0 DEF Processes, Phase
  <2>2. Only(p, v)
    BY <1>2 DEF Preflight
  <2>. HIDE DEF v
  <2>3. Within(v)
    BY <1>0, <2>1 DEF Within, Reviewing
  <2>. QED BY <2>1, <2>2, <2>3, TypedOnly
<1>3. CASE CheckUnchanged(p) /\ ~Fail(p)
  <2>. DEFINE n == Len(registry.events)
              v == [proc[p] EXCEPT !.phase = "replaying", !.at = 1, !.prefix = n]
  <2>1. n \in Nat
    BY FilesTyped DEF Chains
  <2>2. Only(p, v)
    BY <1>3 DEF CheckUnchanged
  <2>. HIDE DEF n
  <2>3. v \in Processes /\ v.phase = "replaying" /\ v.chain = proc[p].chain /\ v.at = 1
    BY <1>0, <2>1 DEF Processes, Phase
  <2>. HIDE DEF v
  <2>4. Within(v)
    BY <1>0, <2>3 DEF Within, Reviewing
  <2>. QED BY <2>2, <2>3, <2>4, TypedOnly
<1>4. CASE SkipReview(p) /\ ~Fail(p)
  <2>1. Only(p, Advanced(proc[p])) /\ proc[p].phase = "replaying" /\ proc[p].at <= Len(proc[p].chain)
    BY <1>4 DEF SkipReview, Replaying, At
  <2>2. proc[p].at \in 1..Len(proc[p].chain)
    BY <1>0, <2>1, ProcessTyped DEF Within
  <2>. QED BY <1>0, <2>1, <2>2, AdvancedTyped, TypedOnly
<1>. QED BY <1>1, <1>2, <1>3, <1>4

(* The steps of a projection, and those of every recording.                *)
LEMMA TypedReview ==
  ASSUME ProjectionTypes, NEW p \in Projector, BeginReview(p) \/ CopyArchive(p)
  PROVE  ProjectionTypes'
<1>. DEFINE r == proc[p]
            e == r.chain[r.at]
            v == [r EXCEPT !.phase = "recording"]
            w == [r EXCEPT !.phase = "copying"]
            x == [r EXCEPT !.phase = "recording", !.copied = TRUE]
<1>1. r \in Processes /\ Within(r) /\ r.at \in 1..Len(r.chain) /\ e \in Event
  <2>1. r.at \in 1..Len(r.chain)
    BY ProcessTyped DEF BeginReview, CopyArchive, Replaying, At, Within, Reviewing
  <2>. QED BY <2>1, ProcessTyped
<1>2. /\ v \in Processes /\ v.phase = "recording" /\ v.chain = r.chain /\ v.at = r.at
      /\ w \in Processes /\ w.phase = "copying" /\ w.chain = r.chain /\ w.at = r.at
      /\ x \in Processes /\ x.phase = "recording" /\ x.chain = r.chain /\ x.at = r.at
  <2>. HIDE DEF r
  <2>. QED BY <1>1 DEF Processes, Phase
<1>3. Within(v) /\ Within(w) /\ Within(x)
  <2>. HIDE DEF v, w, x
  <2>. QED BY <1>1, <1>2 DEF Within, Reviewing
<1>4. \/ Fail(p) \/ Only(p, v)
      \/ Becomes(p, w) /\ whole' = whole /\ part' = part \cup {e}
           /\ UNCHANGED <<lineage, registry, manifest, history>>
      \/ Becomes(p, x) /\ whole' = whole \cup {e} /\ part' = part \ {e}
           /\ UNCHANGED <<lineage, registry, manifest, history>>
  BY DEF BeginReview, CopyArchive
<1>. HIDE DEF r, e, v, w, x
<1>5. CASE Fail(p) \/ Only(p, v)
  BY <1>2, <1>3, <1>5, TypedFail, TypedOnly
<1>6. ASSUME Becomes(p, w) \/ Becomes(p, x), whole' \subseteq Event, part' \subseteq Event,
             UNCHANGED <<lineage, registry, manifest, history>>
      PROVE  ProjectionTypes'
  BY <1>2, <1>3, <1>6, TypedStep DEF ProjectionTypes, history
<1>. QED BY <1>1, <1>4, <1>5, <1>6 DEF ProjectionTypes

LEMMA TypedRecord ==
  ASSUME ProjectionTypes, NEW p \in Projector, RecordReview(p) \/ WriteReview(p)
  PROVE  ProjectionTypes'
<1>. DEFINE r == proc[p]
            e == r.chain[r.at]
            new == WithReview(Current, e)
            v == [r EXCEPT !.phase = "writing", !.new = new]
<1>1. r \in Processes /\ Within(r) /\ r.at \in 1..Len(r.chain) /\ e \in Event
  <2>1. r.at \in 1..Len(r.chain)
    BY ProcessTyped DEF RecordReview, WriteReview, At, Within, Reviewing
  <2>. QED BY <2>1, ProcessTyped
<1>2. new \in FilePairs
  <2>. HIDE DEF e
  <2>1. Append(registry.events, e) \in Chains
    BY <1>1, FilesTyped DEF Chains
  <2>. DEFINE events == Append(registry.events, e)
  <2>2. new = [registry |-> [registry EXCEPT !.events = events], manifest |-> manifest]
    BY DEF WithReview, Current
  <2>. HIDE DEF events, new
  <2>3. events \in Chains
    BY <2>1 DEF events
  <2>. QED BY <2>2, <2>3 DEF ProjectionTypes, FilePairs, Registries
<1>3. v \in Processes /\ v.phase = "writing" /\ v.chain = r.chain /\ v.at = r.at
  <2>. HIDE DEF r, new
  <2>. QED BY <1>1, <1>2 DEF Processes, Phase
<1>4. Within(v)
  <2>. HIDE DEF v
  <2>. QED BY <1>1, <1>3 DEF Within, Reviewing
<1>5. CASE RecordReview(p)
  <2>1. \/ Only(p, v)
        \/ /\ Becomes(p, Idle) /\ whole' \subseteq whole
           /\ UNCHANGED <<lineage, registry, manifest, part, history>>
    BY <1>5 DEF RecordReview, RemoveArchive
  <2>. HIDE DEF v
  <2>2. CASE Only(p, v)
    BY <1>3, <1>4, <2>2, TypedOnly
  <2>3. CASE ~Only(p, v)
    BY <2>1, <2>3, IdleIs, WithinIdle, TypedStep DEF ProjectionTypes, history
  <2>. QED BY <2>2, <2>3
<1>6. CASE WriteReview(p)
  <2>1. /\ Becomes(p, Advanced(r)) \/ Becomes(p, Idle)
        /\ UNCHANGED <<lineage, manifest, whole, part, history>>
    BY <1>6, ProcessTyped DEF WriteReview
  <2>2. Advanced(r) \in Processes /\ Within(Advanced(r))
    BY <1>1, AdvancedTyped
  <2>3. registry' \in Registries
    BY <1>6, ProcessTyped DEF WriteReview
  <2>. HIDE DEF r
  <2>. QED BY <2>1, <2>2, <2>3, IdleIs, WithinIdle, TypedStep DEF ProjectionTypes, history
<1>. QED BY <1>5, <1>6

LEMMA TypedTransport ==
  ASSUME ProjectionTypes, NEW p \in Projector, Transport(p) \/ FinishProject(p)
  PROVE  ProjectionTypes'
<1>1. CASE FinishProject(p)
  <2>1. Becomes(p, Idle) /\ UNCHANGED <<lineage, registry, manifest, whole, part, created, source, alone, errors, faults>>
    BY <1>1 DEF FinishProject, destination
  <2>. QED BY <2>1, IdleIs, WithinIdle, TypedStep DEF ProjectionTypes
<1>2. CASE Transport(p)
  <2>. DEFINE r == proc[p]
              e == r.chain[r.at]
              new == WithOutcome(Current, e)
              dir == Append(registry.events, e)
  <2>1. r \in Processes /\ Within(r) /\ r.at \in 1..Len(r.chain) /\ e \in Event
    <3>0. Replaying(p, "outcome")
      BY <1>2 DEF Transport
    <3>1. r.at \in 1..Len(r.chain)
      BY <3>0, ProcessTyped DEF Replaying, At, Within
    <3>. QED BY <3>1, ProcessTyped
  <2>2. Fail(p) \/ Only(p, Advanced(r)) \/ Place(p, r, new, dir)
    BY <1>2 DEF Transport
  <2>3. dir \in Chains
    <3>. HIDE DEF e
    <3>. QED BY <2>1, FilesTyped DEF Chains
  <2>4. new \in FilePairs
    <3>1. new = [registry |-> [registry EXCEPT !.events = dir],
                 manifest |-> [manifest EXCEPT !.outcomes = @ \cup {dir}]]
      BY DEF WithOutcome, Current
    <3>. HIDE DEF dir, new
    <3>. QED BY <2>3, <3>1 DEF ProjectionTypes, FilePairs, Registries, Manifests
  <2>5. Advanced(r) \in Processes /\ Within(Advanced(r))
    BY <2>1, AdvancedTyped
  <2>6. r.at <= Len(r.chain) + 1
    BY <2>1 DEF Within
  <2>. HIDE DEF r, new, dir
  <2>. QED BY <2>1, <2>2, <2>3, <2>4, <2>5, <2>6, TypedFail, TypedOnly, TypedPlace
<1>. QED BY <1>1, <1>2

LEMMA TypedReplace ==
  ASSUME ProjectionTypes, NEW p \in Projector, ReplaceRegistry(p) \/ ReplaceManifest(p)
  PROVE  ProjectionTypes'
<1>. DEFINE r == proc[p]
<1>0. r \in Processes /\ Within(r) /\ Len(r.chain) \in Nat
  BY ProcessTyped
<1>1. CASE ReplaceRegistry(p)
  <2>. DEFINE old == Current
              v == [r EXCEPT !.phase = "mapping", !.old = old]
  <2>1. r.phase = "replacing" /\ Becomes(p, v) /\ UNCHANGED <<lineage, manifest, whole, part, history>>
    BY <1>1 DEF ReplaceRegistry, At
  <2>2. registry' \in Registries
    BY <1>1, ProcessTyped DEF ReplaceRegistry
  <2>3. v \in Processes /\ v.phase = "mapping" /\ v.chain = r.chain /\ v.at = r.at
    <3>1. old \in FilePairs
      BY FilesTyped
    <3>. HIDE DEF r, old
    <3>. QED BY <1>0, <3>1 DEF Processes, Phase
  <2>. HIDE DEF r, v
  <2>4. Within(v)
    BY <1>0, <2>1, <2>3 DEF Within, Reviewing
  <2>. QED BY <2>1, <2>2, <2>3, <2>4, TypedStep DEF ProjectionTypes, history
<1>2. CASE ReplaceManifest(p)
  <2>. DEFINE v == Written(r)
  <2>1. /\ r.phase = "mapping"
        /\ Becomes(p, v) \/ Becomes(p, Idle)
        /\ UNCHANGED <<lineage, registry, whole, part, history>>
    BY <1>2 DEF ReplaceManifest, At
  <2>2. manifest' \in Manifests
    BY <1>2, ProcessTyped DEF ReplaceManifest
  <2>3. v \in Processes /\ v.chain = r.chain
        /\ v.phase = (IF r.chain = <<>> THEN "assessing" ELSE "replaying")
        /\ v.at = (IF r.chain = <<>> THEN 0 ELSE r.at + 1)
    <3>. DEFINE ph == IF r.chain = <<>> THEN "assessing" ELSE "replaying"
                at == IF r.chain = <<>> THEN 0 ELSE r.at + 1
    <3>1. ph \in Phase /\ at \in Nat
      BY <1>0 DEF Phase, Processes
    <3>2. v = [r EXCEPT !.phase = ph, !.at = at, !.old = NoFiles, !.new = NoFiles, !.dir = "none"]
      BY DEF Written
    <3>. HIDE DEF r, v, ph, at
    <3>3. v \in Processes
      BY <1>0, <3>1, <3>2, NoFilesTyped DEF Processes
    <3>4. v.chain = r.chain /\ v.phase = ph /\ v.at = at
      BY <1>0, <3>2 DEF Processes
    <3>. QED BY <3>3, <3>4 DEF ph, at
  <2>. HIDE DEF r, v
  <2>4. Within(v)
    <3>1. CASE r.chain = <<>>
      BY <1>0, <2>3, <3>1 DEF Within, Reviewing
    <3>2. CASE r.chain # <<>>
      <4>1. r.at \in 1..Len(r.chain)
        BY <1>0, <2>1, <3>2 DEF Within
      <4>. QED BY <1>0, <2>3, <3>2, <4>1 DEF Within, Reviewing
    <3>. QED BY <3>1, <3>2
  <2>. QED BY <2>1, <2>2, <2>3, <2>4, IdleIs, WithinIdle, TypedStep DEF ProjectionTypes, history
<1>. QED BY <1>1, <1>2

LEMMA TypedFault ==
  ASSUME ProjectionTypes, NEW p \in Projector, Fault(p)
  PROVE  ProjectionTypes'
<1>1. /\ Becomes(p, Idle)
      /\ UNCHANGED <<created, source, lineage, part, alone>> /\ whole' \subseteq whole
  BY DEF Fault, Undo, ReviewFails, CopyFails, Die, Erring, RemoveArchive, destination
<1>2. registry' \in Registries /\ manifest' \in Manifests
  BY ProcessTyped DEF Fault, Undo, ReviewFails, CopyFails, Die, destination, ProjectionTypes
<1>3. errors' \in 0..MaxErrors /\ faults' \in 0..MaxFaults
  BY ProjectionAssumption DEF Fault, Undo, ReviewFails, CopyFails, Die, Erring, ProjectionTypes
<1>. QED BY <1>1, <1>2, <1>3, IdleIs, WithinIdle, TypedStep DEF ProjectionTypes

(* What begins, and the steps of the sources.                              *)
LEMMA TypedStarts ==
  ASSUME ProjectionTypes, NEW p \in Projector, NEW v \in Processes, Within(v), Starts(p, v)
  PROVE  ProjectionTypes'
<1>1. /\ Becomes(p, v)
      /\ UNCHANGED <<created, source, lineage, registry, manifest, whole, part, errors, faults>>
  BY DEF Starts, destination
<1>2. alone' \in BOOLEAN
  <2>1. alone' = (alone /\ OthersIdle(p))
    BY DEF Starts
  <2>. QED BY <2>1, Zenon DEF ProjectionTypes
<1>. QED BY <1>1, <1>2, TypedStep DEF ProjectionTypes

LEMMA TypedBeginning ==
  ASSUME ProjectionTypes,
         NEW p \in Projector,
         \/ \E S \in SUBSET Source : StartAssess(p, S)
         \/ \E s \in Source : StartProject(p, s)
  PROVE  ProjectionTypes'
<1>0. Idle \in Processes /\ Current \in FilePairs
  BY IdleIs, FilesTyped
<1>1. ASSUME NEW S \in SUBSET Source, StartAssess(p, S) PROVE ProjectionTypes'
  <2>. DEFINE f == Current
              v == [Idle EXCEPT !.phase = "assessing", !.todo = S, !.base = f]
  <2>1. Starts(p, v)
    BY <1>1 DEF StartAssess
  <2>2. v \in Processes /\ v.phase = "assessing" /\ v.chain = <<>> /\ v.at = 0
    <3>1. Idle.chain = <<>> /\ Idle.at = 0
      BY DEF Idle
    <3>. HIDE DEF f
    <3>. QED BY <1>0, <3>1 DEF Processes, Phase, f
  <2>. HIDE DEF v
  <2>3. Within(v)
    BY <2>2 DEF Within, Reviewing
  <2>. QED BY <2>1, <2>2, <2>3, TypedStarts
<1>2. ASSUME NEW s \in Source, StartProject(p, s) PROVE ProjectionTypes'
  <2>. DEFINE f == Current
              c == source[s]
              v == [Idle EXCEPT !.phase = "preflight", !.chain = c, !.base = f]
  <2>1. Starts(p, v)
    BY <1>2 DEF StartProject
  <2>2. c \in Chains /\ f \in FilePairs /\ Len(c) \in Nat
    BY <1>0 DEF ProjectionTypes, Chains
  <2>3. v \in Processes /\ v.phase = "preflight" /\ v.chain = c /\ v.at = 0
    <3>1. Idle.at = 0
      BY DEF Idle
    <3>. HIDE DEF f, c
    <3>. QED BY <1>0, <2>2, <3>1 DEF Processes, Phase
  <2>. HIDE DEF v, c
  <2>4. Within(v)
    BY <2>2, <2>3 DEF Within, Reviewing
  <2>. QED BY <2>1, <2>3, <2>4, TypedStarts
<1>. QED BY <1>1, <1>2

LEMMA TypedSources ==
  ASSUME ProjectionTypes,
         \/ \E s \in Source, type \in {"review", "outcome"} : SourceEvent(s, type)
         \/ \E S \in SUBSET Source : CreateWorkspace(S)
  PROVE  ProjectionTypes'
<1>1. ASSUME NEW s \in Source, NEW type \in {"review", "outcome"}, SourceEvent(s, type)
      PROVE  ProjectionTypes'
  <2>. DEFINE n == Len(source[s])
              e == [type |-> type, case |-> s, no |-> n + 1]
              new == Append(source[s], e)
  <2>1. source[s] \in Chains /\ n \in Nat /\ n < MaxEvents
    BY <1>1 DEF ProjectionTypes, Chains, SourceEvent
  <2>2. e \in Event
    BY <2>1, ProjectionAssumption DEF Event
  <2>3. new \in Chains /\ Len(new) <= MaxEvents
    <3>. HIDE DEF e
    <3>. QED BY <2>1, <2>2, ProjectionAssumption DEF Chains
  <2>4. /\ source' = [source EXCEPT ![s] = new]
        /\ UNCHANGED <<created, lineage, registry, manifest, whole, part, proc, alone, errors, faults>>
    BY <1>1 DEF SourceEvent, destination
  <2>. HIDE DEF n, e, new
  <2>5. source' \in [Source -> Chains] /\ \A t \in Source : Len(source'[t]) <= MaxEvents
    BY <2>3, <2>4 DEF ProjectionTypes
  <2>6. \A q \in Projector : Within(proc[q])'
    BY <2>4 DEF Within, ProjectionTypes
  <2>. QED BY <2>4, <2>5, <2>6 DEF ProjectionTypes
<1>2. ASSUME NEW S \in SUBSET Source, CreateWorkspace(S) PROVE ProjectionTypes'
  <2>1. <<>> \in Chains
    BY DEF Chains
  <2>2. lineage' \in Created /\ registry' \in Registries /\ manifest' \in Manifests
    BY <1>2, <2>1 DEF CreateWorkspace, Registries, Manifests
  <2>3. UNCHANGED <<created, source, whole, part, proc, alone, errors, faults>>
    BY <1>2 DEF CreateWorkspace, history
  <2>4. \A q \in Projector : Within(proc[q])'
    BY <2>3 DEF Within, ProjectionTypes
  <2>. QED BY <2>2, <2>3, <2>4 DEF ProjectionTypes
<1>. QED BY <1>1, <1>2

LEMMA TypesStay ==
  ASSUME ProjectionTypes, [ProjectionNext]_projectionVars
  PROVE  ProjectionTypes'
<1>1. CASE \/ \E s \in Source, type \in {"review", "outcome"} : SourceEvent(s, type)
           \/ \E S \in SUBSET Source : CreateWorkspace(S)
  BY <1>1, TypedSources
<1>2. ASSUME NEW p \in Projector,
             \/ \E S \in SUBSET Source : StartAssess(p, S)
             \/ \E s \in Source : StartProject(p, s)
      PROVE  ProjectionTypes'
  BY <1>2, TypedBeginning
<1>3. ASSUME NEW p \in Projector, Proceed(p) PROVE ProjectionTypes'
  <2>1. CASE Assess(p)
    BY <2>1, TypedAssess
  <2>2. CASE Project(p)
    BY <2>2, TypedReading, TypedReview, TypedRecord, TypedTransport DEF Project
  <2>3. CASE ReplaceRegistry(p) \/ ReplaceManifest(p)
    BY <2>3, TypedReplace
  <2>. QED BY <1>3, <2>1, <2>2, <2>3 DEF Proceed
<1>4. ASSUME NEW p \in Projector, Fault(p) PROVE ProjectionTypes'
  BY <1>4, TypedFault
<1>5. CASE UNCHANGED projectionVars
  <2>1. UNCHANGED <<created, source, lineage, registry, manifest, whole, part, proc, alone, errors, faults>>
    BY <1>5 DEF projectionVars
  <2>2. \A q \in Projector : Within(proc[q])'
    BY <2>1 DEF Within, ProjectionTypes
  <2>. QED BY <2>1, <2>2 DEF ProjectionTypes
<1>. QED BY <1>1, <1>2, <1>3, <1>4, <1>5 DEF ProjectionNext

LEMMA TypesHold == ProjectionTypes => ProjectionTypeOK
<1>. SUFFICES ASSUME ProjectionTypes PROVE ProjectionTypeOK
  OBVIOUS
<1>1. \A s \in Source : Len(source[s]) <= MaxEvents /\ \A i \in DOMAIN source[s] : source[s][i] \in Event
  BY DEF ProjectionTypes, Chains
<1>2. registry.cases \subseteq Source /\ \A i \in DOMAIN registry.events : registry.events[i] \in Event
  BY DEF ProjectionTypes, Registries, Chains
<1>3. manifest.cases \subseteq Source
  BY DEF ProjectionTypes, Manifests
<1>4. ASSUME NEW p \in Projector
      PROVE  proc[p].phase \in Phase /\ proc[p].at \in 0..Len(proc[p].chain) + 1
  <2>1. proc[p] \in Processes
    BY ProcessTyped
  <2>. QED BY <2>1, ProcessTyped DEF Within, Processes
<1>. QED BY <1>1, <1>2, <1>3, <1>4 DEF ProjectionTypes, ProjectionTypeOK

(* The types of the projection, whichever commands overlap and fail: the   *)
(* sources and the destination hold events of the sources, and a process   *)
(* that replays a chain is within it (the loop of _project_once).          *)
THEOREM ProjectionTyped == ProjectionSpec => []ProjectionTypeOK
<1>1. ProjectionTypes /\ [ProjectionNext]_projectionVars => ProjectionTypes'
  BY TypesStay
<1>. QED BY TypesBegin, <1>1, TypesHold, PTL DEF ProjectionSpec
==============================================================================
