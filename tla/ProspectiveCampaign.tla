-------------------------- MODULE ProspectiveCampaign --------------------------
(***************************************************************************)
(* The prospective campaign workspace (trust_prospective_*.py): processes  *)
(* that take in cases, submit review packets and record outcomes, each by  *)
(* reading the comparison registry and the source manifest, moving a       *)
(* directory of evidence into place, checking that the sources reconcile,  *)
(* and replacing the registry and then the manifest.                       *)
(*                                                                         *)
(* There is no lock. Reading, os.replace and the restore through a         *)
(* temporary file are atomic; rmtree is one step. A rollback itself meets  *)
(* no second I/O error, but the process may die anywhere.                  *)
(***************************************************************************)
EXTENDS SourceReconciliation

CONSTANTS
  Operator,    \* processes that may work on the workspace at the same time
  MaxEvents,   \* bound: no decision or outcome is recorded after this many
  MaxCrashes   \* bound: how many processes may die

ASSUME CampaignAssumption ==
  /\ MaxEvents \in Nat
  /\ MaxCrashes \in Nat
  /\ None \notin Registry \cup Manifest \cup Event

VARIABLES
  registry,    \* comparison-registry.json
  manifest,    \* reconciliation-sources.json
  dirs,        \* the evidence directories in place
  pc,          \* where each operator's command is
  job,         \* what its command has read, computed and placed
  acked,       \* history: the cases and events reported as recorded
  crashes      \* how many processes have died

vars == <<registry, manifest, dirs, pc, job, acked, crashes>>

Phase == {"idle", "reading", "placing", "replaying", "staging", "rereading", "deciding",
          "replacing_registry", "replacing_manifest", "checking",
          "restoring_registry", "restoring_both", "restoring_manifest", "cleaning"}

(* base: the registry the command computes from; dir: the directory it     *)
(* places; registry and manifest: the new contents, manifest None for a    *)
(* review; old...: the bytes kept for the rollback.                        *)
Job == [base : Registry \cup {None}, dir : Dir \cup {None}, event : Event \cup {None},
        registry : Registry \cup {None}, manifest : Manifest \cup {None},
        oldRegistry : Registry \cup {None}, oldManifest : Manifest \cup {None}]

NoJob == [base |-> None, dir |-> None, event |-> None, registry |-> None, manifest |-> None,
          oldRegistry |-> None, oldManifest |-> None]

TypeOK ==
  /\ registry \in Registry
  /\ manifest \in Manifest
  /\ dirs \subseteq Dir
  /\ pc \in [Operator -> Phase]
  /\ job \in [Operator -> Job]
  /\ acked \subseteq Report \cup Event
  /\ crashes \in Nat

(* An initialized workspace at zero observations. *)
Init ==
  /\ registry = EmptyRegistry
  /\ manifest = EmptyManifest
  /\ dirs = {}
  /\ pc = [o \in Operator |-> "idle"]
  /\ job = [o \in Operator |-> NoJob]
  /\ acked = {}
  /\ crashes = 0

Goto(o, phase) == pc' = [pc EXCEPT ![o] = phase]

Quit(o) == Goto(o, "idle") /\ job' = [job EXCEPT ![o] = NoJob]

-----------------------------------------------------------------------------
(* Reading and deciding what to do.                                        *)

(* _required_workspace reads and verifies the registry, then the manifest; *)
(* the manifest is read by the steps that follow.                          *)
Read(o) ==
  /\ pc[o] = "idle"
  /\ VerifyRegistry(registry)
  /\ Goto(o, "reading")
  /\ job' = [job EXCEPT ![o].base = registry]
  /\ UNCHANGED <<registry, manifest, dirs, acked, crashes>>

(* The new contents, once nothing stands against them. *)
Prepare(o, dir, event, newRegistry, newManifest) ==
  /\ Goto(o, "placing")
  /\ job' = [job EXCEPT ![o] =
       [base |-> job[o].base, dir |-> dir, event |-> event,
        registry |-> newRegistry, manifest |-> newManifest,
        oldRegistry |-> None, oldManifest |-> None]]
  /\ UNCHANGED <<registry, manifest, dirs, acked, crashes>>

(* A slip that compares the report itself only. *)
IntakeSameReportOnly(o, c) ==
  /\ pc[o] = "reading"
  /\ c \notin job[o].base.cases
  /\ CaseDir(c) \notin dirs
  /\ Prepare(o, CaseDir(c), None, Captured(job[o].base, c),
             [manifest EXCEPT !.cases = @ \cup {c}])

(* intake_prospective_case: nothing was captured for the task and revision *)
(* and no directory stands in the way. (That the manifest does not map the *)
(* case already is checked by the code once the directory is in place.)    *)
Intake(o, c) ==
  /\ pc[o] = "reading"
  /\ \A d \in job[o].base.cases : TaskOf[d] # TaskOf[c]
  /\ CaseDir(c) \notin dirs
  /\ c \notin manifest.cases
  /\ Prepare(o, CaseDir(c), None, Captured(job[o].base, c),
             [manifest EXCEPT !.cases = @ \cup {c}])

(* The same report again: reported as recorded if the manifest has it. *)
IntakeAgain(o, c) ==
  /\ pc[o] = "reading"
  /\ c \in job[o].base.cases
  /\ c \in manifest.cases
  /\ Quit(o)
  /\ acked' = acked \cup {c}
  /\ UNCHANGED <<registry, manifest, dirs, crashes>>

(* submit_review_packet up to the archive: the packet is verified against  *)
(* the workspace it was prepared in, whose sources were complete.          *)
SubmitReview(o, k, a, t) ==
  /\ pc[o] = "reading"
  /\ Len(job[o].base.events) < MaxEvents
  /\ CaseOf[k] \in job[o].base.cases
  /\ CaseReconciled(manifest, dirs, CaseOf[k])
  /\ Bound(job[o].base, manifest)
  /\ Complete(job[o].base, manifest, dirs)
  /\ ArchiveDir(k) \notin dirs
  /\ Prepare(o, ArchiveDir(k), Decision(k, a, t), None, None)

(* record_case_outcome up to the sources: the actor of an audit is its     *)
(* issuer.                                                                 *)
RecordOutcome(o, c, s, v, a, t) ==
  LET e == Outcome(c, s, v, a, t)
      recorded == Appended(job[o].base, e)
  IN  /\ pc[o] = "reading"
      /\ Len(job[o].base.events) < MaxEvents
      /\ IssuerOf[s] \in {None, a}
      /\ \A i \in DOMAIN job[o].base.events :
            LET p == job[o].base.events[i]
            IN  ~ (IsOutcome(p) /\ p.case = c /\ p.authority = s /\ p.verdict = v)
      /\ CanRecordOutcome(job[o].base, e)
      /\ VerifyRegistry(recorded)
      /\ OutcomeDir(recorded.events) \notin dirs
      /\ recorded.events \notin manifest.outcomes
      /\ Prepare(o, OutcomeDir(recorded.events), e, recorded,
                 [manifest EXCEPT !.outcomes = @ \cup {recorded.events}])

(* The command is refused, or reports an outcome recorded before. *)
Refuse(o) ==
  /\ pc[o] = "reading"
  /\ Quit(o)
  /\ UNCHANGED <<registry, manifest, dirs, acked, crashes>>

-----------------------------------------------------------------------------
(* The evidence directory.                                                 *)

DirCase(d) ==
  CASE d[1] = "case" -> d[2]
    [] d[1] = "outcome" -> d[2][Len(d[2])].case
    [] d[1] = "archive" -> CaseOf[d[2]]

(* os.replace of the staged directory, when nobody was faster. *)
Place(o) ==
  /\ pc[o] = "placing"
  /\ job[o].dir \notin dirs
  /\ dirs' = dirs \cup {job[o].dir}
  /\ Goto(o, IF job[o].manifest = None THEN "rereading" ELSE "replaying")
  /\ UNCHANGED <<registry, manifest, job, acked, crashes>>

(* A failed command removes the directory, also when it is not its own; an *)
(* outcome that could not be placed removes nothing.                       *)
GiveUp(o) ==
  IF pc[o] = "placing" /\ job[o].dir[1] = "outcome"
    THEN Quit(o)
    ELSE Goto(o, "cleaning") /\ UNCHANGED job

(* A slip that leaves the evidence of a failed command behind. *)
CleanNothing(o) ==
  /\ pc[o] = "cleaning"
  /\ Quit(o)
  /\ UNCHANGED <<registry, manifest, dirs, acked, crashes>>

(* rmtree; the outcomes and archives of a case lie below it. *)
Clean(o) ==
  /\ pc[o] = "cleaning"
  /\ dirs' = dirs \ ({job[o].dir} \cup
       (IF job[o].dir[1] = "case" THEN {d \in dirs : DirCase(d) = job[o].dir[2]} ELSE {}))
  /\ Quit(o)
  /\ UNCHANGED <<registry, manifest, acked, crashes>>

-----------------------------------------------------------------------------
(* Replay and commit.                                                      *)

(* _replay_candidate: the new contents reconcile. An inconclusive outcome  *)
(* is recorded whether it does or not.                                     *)
Replays(o) ==
  LET r == job[o].registry
      m == job[o].manifest
  IN  /\ Bound(r, m)
      /\ job[o].event = None => CaseReconciled(m, dirs, job[o].dir[2])
      /\ job[o].event # None /\ job[o].event.verdict \in Conclusive
         => OutcomeReconciled(r, m, dirs, Len(r.events))

Replay(o) ==
  /\ pc[o] = "replaying"
  /\ IF Replays(o) THEN Goto(o, "staging") ELSE Goto(o, "cleaning")
  /\ UNCHANGED <<registry, manifest, dirs, job, acked, crashes>>

(* The originals are read here, long after the contents were computed. *)
Stage(o) ==
  /\ pc[o] = "staging"
  /\ job' = [job EXCEPT ![o] = [@ EXCEPT !.oldRegistry = registry, !.oldManifest = manifest]]
  /\ Goto(o, "replacing_registry")
  /\ UNCHANGED <<registry, manifest, dirs, acked, crashes>>

(* record_case_review reads the workspace again. *)
ReRead(o) ==
  /\ pc[o] = "rereading"
  /\ VerifyRegistry(registry)
  /\ job' = [job EXCEPT ![o].base = registry]
  /\ Goto(o, "deciding")
  /\ UNCHANGED <<registry, manifest, dirs, acked, crashes>>

(* A slip without _existing_packet_review. *)
CanRecordReviewTwice(base, d) ==
  /\ CanDecide(base, d)
  /\ ArchiveDir(d.packet) \in dirs
  /\ Bound(Appended(base, d), manifest)
  /\ Complete(Appended(base, d), manifest, dirs)

CanRecordReview(base, d) ==
  /\ \A i \in DOMAIN base.events : base.events[i].packet # d.packet
  /\ CanDecide(base, d)
  /\ ArchiveDir(d.packet) \in dirs
  /\ Bound(Appended(base, d), manifest)
  /\ Complete(Appended(base, d), manifest, dirs)

Decide(o) ==
  /\ pc[o] = "deciding"
  /\ IF CanRecordReview(job[o].base, job[o].event)
       THEN /\ job' = [job EXCEPT ![o].registry = Appended(job[o].base, job[o].event)]
            /\ Goto(o, "replacing_registry")
       ELSE Goto(o, "cleaning") /\ UNCHANGED job
  /\ UNCHANGED <<registry, manifest, dirs, acked, crashes>>

Claim(o) == {IF job[o].event = None THEN job[o].dir[2] ELSE job[o].event}

ReportDone(o) == Quit(o) /\ acked' = acked \cup Claim(o)

ReplaceRegistry(o) ==
  /\ pc[o] = "replacing_registry"
  /\ registry' = job[o].registry
  /\ IF job[o].manifest = None
       THEN ReportDone(o)
       ELSE Goto(o, "replacing_manifest") /\ UNCHANGED <<job, acked>>
  /\ UNCHANGED <<manifest, dirs, crashes>>

ReplaceManifest(o) ==
  /\ pc[o] = "replacing_manifest"
  /\ manifest' = job[o].manifest
  /\ Goto(o, "checking")
  /\ UNCHANGED <<registry, dirs, job, acked, crashes>>

(* Both files load. *)
Check(o) ==
  /\ pc[o] = "checking"
  /\ ReportDone(o)
  /\ UNCHANGED <<registry, manifest, dirs, crashes>>
-----------------------------------------------------------------------------
(* Errors. Up to the first replaced file only the directory is removed.    *)
Fail(o) ==
  /\ pc[o] \in {"placing", "replaying", "staging", "rereading", "deciding", "replacing_registry"}
  /\ GiveUp(o)
  /\ UNCHANGED <<registry, manifest, dirs, acked, crashes>>

(* The manifest cannot be replaced, or a replaced file does not load. *)
FailLate(o) ==
  /\ \/ pc[o] = "replacing_manifest" /\ Goto(o, "restoring_registry")
     \/ pc[o] = "checking" /\ Goto(o, "restoring_both")
  /\ UNCHANGED <<registry, manifest, dirs, job, acked, crashes>>

RestoreRegistry(o) ==
  /\ pc[o] \in {"restoring_registry", "restoring_both"}
  /\ registry' = job[o].oldRegistry
  /\ Goto(o, IF pc[o] = "restoring_both" THEN "restoring_manifest" ELSE "cleaning")
  /\ UNCHANGED <<manifest, dirs, job, acked, crashes>>

(* A slip that takes the manifest to be restored with the registry. *)
RestoreNoManifest(o) ==
  /\ pc[o] = "restoring_manifest"
  /\ Goto(o, "cleaning")
  /\ UNCHANGED <<registry, manifest, dirs, job, acked, crashes>>

RestoreManifest(o) ==
  /\ pc[o] = "restoring_manifest"
  /\ manifest' = job[o].oldManifest
  /\ Goto(o, "cleaning")
  /\ UNCHANGED <<registry, dirs, job, acked, crashes>>

(* The process dies: files and directories stay as they are. *)
Crash(o) ==
  /\ crashes < MaxCrashes
  /\ pc[o] # "idle"
  /\ Quit(o)
  /\ crashes' = crashes + 1
  /\ UNCHANGED <<registry, manifest, dirs, acked>>

-----------------------------------------------------------------------------
Command(o) ==
  \/ Read(o)
  \/ \E c \in Report : Intake(o, c) \/ IntakeAgain(o, c)
  \/ \E k \in Packet, a \in Actor, t \in Time : SubmitReview(o, k, a, t)
  \/ \E c \in Report, s \in Authority, v \in Verdict, a \in Actor, t \in Time :
        RecordOutcome(o, c, s, v, a, t)
  \/ Refuse(o)

Commit(o) ==
  \/ Place(o)
  \/ Replay(o)
  \/ Stage(o)
  \/ ReRead(o)
  \/ Decide(o)
  \/ ReplaceRegistry(o)
  \/ ReplaceManifest(o)
  \/ Check(o)

Undo(o) ==
  \/ Fail(o)
  \/ FailLate(o)
  \/ RestoreRegistry(o)
  \/ RestoreManifest(o)
  \/ Clean(o)

Next == \E o \in Operator : Command(o) \/ Commit(o) \/ Undo(o) \/ Crash(o)

Spec == Init /\ [][Next]_vars

-----------------------------------------------------------------------------
(* Properties.                                                             *)

Quiescent == \A o \in Operator : pc[o] = "idle"

(* STAGE-10I: duplicate assessment inflation is blocked. A task at one     *)
(* source revision has one assessment, however intakes overlap, overwrite  *)
(* each other, fail and are rolled back. Only the intake's guard on the    *)
(* registry it read stands for this; the verifier does not look.           *)
OneReportPerTask ==
  \A c, d \in registry.cases : TaskOf[c] = TaskOf[d] => c = d

(* STAGE-10K: a packet submitted twice fails closed. A review packet backs *)
(* at most one recorded decision, however submissions overlap and however  *)
(* often its archive was removed by the rollback of another submission.    *)
OneDecisionPerPacket ==
  \A i, j \in DOMAIN registry.events :
    registry.events[i].packet # None /\ registry.events[i].packet = registry.events[j].packet
    => i = j

(* One process at a time, no crash: every command is all or nothing. When  *)
(* it is over, the manifest maps exactly what the registry has, exactly    *)
(* the evidence of recorded cases, decisions and outcomes is in place, and *)
(* the sources reconcile, whatever step failed.                            *)
WholeOrNothing ==
  Quiescent /\ crashes = 0 =>
    /\ manifest.cases = registry.cases
    /\ manifest.outcomes = OutcomeIds(registry)
    /\ dirs = {CaseDir(c) : c \in registry.cases}
              \cup {OutcomeDir(id) : id \in OutcomeIds(registry)}
              \cup {ArchiveDir(k) : k \in {registry.events[i].packet : i \in DOMAIN registry.events} \ {None}}
    /\ Complete(registry, manifest, dirs)

(* STAGE-10K-GOVERNED-PROSPECTIVE-REVIEW-HANDOFF.md, line 151: the packet  *)
(* used for a decision is archived before the decision is persisted, so a  *)
(* recorded decision has its archive.                                      *)
DecisionsAreArchived ==
  \A i \in DOMAIN registry.events :
    registry.events[i].packet # None => ArchiveDir(registry.events[i].packet) \in dirs

(* One process at a time, with crashes and failures: the evidence behind   *)
(* what is mapped or decided is never removed by a later command.          *)
EvidenceStays ==
  /\ \A c \in manifest.cases : CaseDir(c) \in dirs
  /\ \A id \in manifest.outcomes : OutcomeDir(id) \in dirs
  /\ DecisionsAreArchived

(* One process at a time: a case or event whose command reported success   *)
(* stays in the registry through every later failure, rollback and crash.  *)
ReportedStays ==
  acked \subseteq registry.cases \cup {registry.events[i] : i \in DOMAIN registry.events}

=============================================================================
