----------------------- MODULE ProspectiveCampaignProofs -----------------------
(***************************************************************************)
(* Proofs about ProspectiveCampaign, for any number of processes, reports, *)
(* packets, sources, events and crashes.                                   *)
(*                                                                         *)
(* A process writes only whole registries: one it read, or one it computed *)
(* from a registry it read by one admitted step. Every registry that was   *)
(* ever in the file is therefore Sound, although updates get lost; the     *)
(* invariant says it of the file and of every copy a process still holds.  *)
(***************************************************************************)
EXTENDS CampaignOverlap, TLAPS

OneReport(r) == \A c, d \in r.cases : TaskOf[c] = TaskOf[d] => c = d

OneDecision(r) ==
  \A i, j \in DOMAIN r.events :
    r.events[i].packet # None /\ r.events[i].packet = r.events[j].packet => i = j

Sound == {r \in Registry : OneReport(r) /\ OneDecision(r)}

(* What a command that has decided what to do carries: an intake or an     *)
(* outcome its new contents, a review the decision to record.              *)
Prepared(j) ==
  /\ j.dir \in Dir
  /\ j.event = None => j.dir \in {"case"} \X Report
  /\ \/ j.manifest \in Manifest /\ j.registry \in Sound /\ j.event \in Event \cup {None}
     \/ j.manifest = None /\ j.event \in Event

Late == {"replacing_manifest", "checking", "restoring_registry", "restoring_both",
         "restoring_manifest"}

JobOK(phase, j) ==
  /\ phase \in {"reading", "deciding"} => j.base \in Sound
  /\ phase \notin {"idle", "reading"} => Prepared(j)
  /\ phase \in {"rereading", "deciding"} => j.manifest = None
  /\ phase \in {"replaying", "staging"} => j.manifest # None
  /\ phase = "replacing_registry" => j.registry \in Sound
  /\ phase \in Late \/ (phase = "replacing_registry" /\ j.manifest # None) =>
        j.oldRegistry \in Sound /\ j.oldManifest \in Manifest
  /\ phase \in Late => j.manifest # None

IInv ==
  /\ TypeOK
  /\ registry \in Sound
  /\ \A o \in Operator : JobOK(pc[o], job[o])

-----------------------------------------------------------------------------
(* The transformations keep a registry sound.                              *)

LEMMA CapturedSound ==
  ASSUME NEW r \in Sound, NEW c \in Report, \A d \in r.cases : TaskOf[d] # TaskOf[c]
  PROVE  Captured(r, c) \in Sound
BY DEF Sound, Captured, Registry, OneReport, OneDecision

LEMMA AppendedSound ==
  ASSUME NEW r \in Sound, NEW e \in Event,
         e.packet # None => \A i \in DOMAIN r.events : r.events[i].packet # e.packet
  PROVE  Appended(r, e) \in Sound
<1>. DEFINE new == Append(r.events, e)
<1>1. r \in Registry /\ r.events \in Seq(Event) /\ OneReport(r) /\ OneDecision(r)
  BY DEF Sound, Registry
<1>2. /\ new \in Seq(Event)
      /\ DOMAIN new = 1 .. Len(r.events) + 1
      /\ DOMAIN r.events = 1 .. Len(r.events)
      /\ Len(r.events) \in Nat
      /\ \A i \in 1 .. Len(r.events) : new[i] = r.events[i]
      /\ new[Len(r.events) + 1] = e
  BY <1>1
<1>3. Appended(r, e) = [cases |-> r.cases, events |-> new]
  BY DEF Appended
<1>4. Appended(r, e) \in Registry
  BY <1>1, <1>2, <1>3 DEF Registry
<1>5. OneReport(Appended(r, e))
  BY <1>1, <1>3 DEF OneReport
<1>6. OneDecision(Appended(r, e))
  <2>. HIDE DEF new
  <2>. SUFFICES ASSUME NEW i \in DOMAIN new, NEW j \in DOMAIN new,
                       new[i].packet # None, new[i].packet = new[j].packet
                PROVE  i = j
    BY <1>3 DEF OneDecision
  <2>1. CASE i \in DOMAIN r.events /\ j \in DOMAIN r.events
    BY <2>1, <1>1, <1>2 DEF OneDecision
  <2>2. CASE i = Len(r.events) + 1 \/ j = Len(r.events) + 1
    BY <2>2, <1>2
  <2>. QED
    BY <2>1, <2>2, <1>2
<1>. QED
  BY <1>4, <1>5, <1>6 DEF Sound

LEMMA EmptySound == EmptyRegistry \in Sound
BY DEF EmptyRegistry, Sound, Registry, OneReport, OneDecision

LEMMA EventTypes ==
  /\ \A k \in Packet, a \in Actor, t \in Time :
        Decision(k, a, t) \in Event /\ Decision(k, a, t).packet = k
  /\ \A c \in Report, s \in Authority, v \in Verdict, a \in Actor, t \in Time :
        Outcome(c, s, v, a, t) \in Event /\ Outcome(c, s, v, a, t).packet = None
BY ComparisonAssumption DEF Decision, Outcome, Event
-----------------------------------------------------------------------------
(* Every action changes the phase and the job of one process, and writes   *)
(* only what keeps the invariant.                                          *)

LEMMA InitIInv == Init => IInv
<1>. SUFFICES ASSUME Init PROVE IInv
  OBVIOUS
<1>1. NoJob \in Job
  BY DEF NoJob, Job
<1>2. registry \in Sound /\ registry \in Registry
  BY EmptySound DEF Init, Sound
<1>3. TypeOK
  BY <1>1, <1>2 DEF Init, TypeOK, Phase, EmptyManifest, Manifest
<1>. QED
  BY <1>2, <1>3 DEF IInv, JobOK, Init, Late

LEMMA LocalStep ==
  ASSUME IInv, NEW o \in Operator, NEW phase \in Phase, NEW j \in Job, JobOK(phase, j),
         pc' = [pc EXCEPT ![o] = phase], job' = [job EXCEPT ![o] = j],
         registry' \in Sound, manifest' \in Manifest, dirs' \subseteq Dir,
         acked' \subseteq Report \cup Event, crashes' \in Nat
  PROVE  IInv'
<1>1. /\ pc' \in [Operator -> Phase]
      /\ job' \in [Operator -> Job]
      /\ pc'[o] = phase /\ job'[o] = j
      /\ \A q \in Operator \ {o} : pc'[q] = pc[q] /\ job'[q] = job[q]
  BY DEF IInv, TypeOK
<1>2. TypeOK'
  BY <1>1 DEF TypeOK, Sound
<1>3. ASSUME NEW q \in Operator PROVE JobOK(pc'[q], job'[q])
  BY <1>1 DEF IInv
<1>. QED
  BY <1>2, <1>3 DEF IInv

(* What the invariant says of the files and of one process. *)
LEMMA Facts ==
  ASSUME IInv, NEW o \in Operator
  PROVE  /\ registry \in Sound /\ registry \in Registry /\ manifest \in Manifest
         /\ dirs \subseteq Dir /\ acked \subseteq Report \cup Event /\ crashes \in Nat
         /\ pc[o] \in Phase /\ job[o] \in Job /\ JobOK(pc[o], job[o])
         /\ job = [job EXCEPT ![o] = job[o]]
BY DEF IInv, TypeOK

LEMMA QuitIInv ==
  ASSUME IInv, NEW o \in Operator, Quit(o), registry' \in Sound, manifest' \in Manifest,
         dirs' \subseteq Dir, acked' \subseteq Report \cup Event, crashes' \in Nat
  PROVE  IInv'
<1>1. NoJob \in Job /\ "idle" \in Phase /\ JobOK("idle", NoJob)
  BY DEF NoJob, Job, Phase, JobOK, Late
<1>. QED
  BY <1>1, LocalStep DEF Quit, Goto

(* The phase changes, the job does not. *)
LEMMA MoveIInv ==
  ASSUME IInv, NEW o \in Operator, NEW phase \in Phase, Goto(o, phase), job' = job,
         JobOK(phase, job[o]), registry' \in Sound, manifest' \in Manifest,
         dirs' \subseteq Dir, acked' \subseteq Report \cup Event, crashes' \in Nat
  PROVE  IInv'
BY Facts, LocalStep DEF Goto

LEMMA PrepareIInv ==
  ASSUME IInv, NEW o \in Operator, NEW dir \in Dir, NEW e \in Event \cup {None},
         NEW r, NEW m, Prepare(o, dir, e, r, m),
         e = None => dir \in {"case"} \X Report,
         (r \in Sound /\ m \in Manifest) \/ (r = None /\ m = None /\ e \in Event)
  PROVE  IInv'
<1>. DEFINE j == [base |-> job[o].base, dir |-> dir, event |-> e, registry |-> r, manifest |-> m,
                  oldRegistry |-> None, oldManifest |-> None]
<1>1. j \in Job
  BY Facts DEF Job, Sound
<1>2. JobOK("placing", j)
  BY DEF JobOK, Prepared, Late
<1>3. "placing" \in Phase
  BY DEF Phase
<1>. QED
  BY <1>1, <1>2, <1>3, Facts, LocalStep DEF Prepare, Goto

-----------------------------------------------------------------------------
LEMMA CommandIInv ==
  ASSUME IInv, NEW o \in Operator, Command(o)
  PROVE  IInv'
<1>. USE Facts
<1>1. CASE Read(o)
  <2>. DEFINE j == [job[o] EXCEPT !.base = registry]
  <2>1. j \in Job /\ "reading" \in Phase
    BY DEF Job, Phase
  <2>2. JobOK("reading", j)
    BY DEF JobOK, Late, Job
  <2>. QED
    BY <1>1, <2>1, <2>2, LocalStep DEF Read, Goto
<1>2. ASSUME NEW c \in Report, Intake(o, c) PROVE IInv'
  <2>1. job[o].base \in Sound /\ \A d \in job[o].base.cases : TaskOf[d] # TaskOf[c]
    BY <1>2 DEF Intake, JobOK
  <2>2. Captured(job[o].base, c) \in Sound
    BY <2>1, CapturedSound
  <2>3. CaseDir(c) \in Dir /\ CaseDir(c) \in {"case"} \X Report
    BY DEF CaseDir, Dir
  <2>4. [manifest EXCEPT !.cases = @ \cup {c}] \in Manifest
    BY DEF Manifest
  <2>. QED
    BY <1>2, <2>2, <2>3, <2>4, PrepareIInv DEF Intake
<1>3. ASSUME NEW c \in Report, IntakeAgain(o, c) PROVE IInv'
  BY <1>3, QuitIInv DEF IntakeAgain
<1>4. ASSUME NEW k \in Packet, NEW a \in Actor, NEW t \in Time, SubmitReview(o, k, a, t)
      PROVE  IInv'
  <2>1. ArchiveDir(k) \in Dir
    BY DEF ArchiveDir, Dir
  <2>2. Decision(k, a, t) \in Event /\ Decision(k, a, t) # None
    BY EventTypes, CampaignAssumption
  <2>. QED
    BY <1>4, <2>1, <2>2, PrepareIInv DEF SubmitReview
<1>5. ASSUME NEW c \in Report, NEW s \in Authority, NEW v \in Verdict, NEW a \in Actor,
             NEW t \in Time, RecordOutcome(o, c, s, v, a, t)
      PROVE  IInv'
  <2>. DEFINE e == Outcome(c, s, v, a, t)
              new == Appended(job[o].base, e)
  <2>1. e \in Event /\ e # None /\ e.packet = None
    BY EventTypes, CampaignAssumption
  <2>2. job[o].base \in Sound
    BY <1>5 DEF RecordOutcome, JobOK
  <2>3. new \in Sound
    BY <2>1, <2>2, AppendedSound
  <2>4. new.events \in Seq(Event)
    BY <2>3 DEF Sound, Registry
  <2>5. OutcomeDir(new.events) \in Dir
    BY <2>4 DEF OutcomeDir, Dir
  <2>6. [manifest EXCEPT !.outcomes = @ \cup {new.events}] \in Manifest
    BY <2>4 DEF Manifest
  <2>. QED
    BY <1>5, <2>1, <2>3, <2>5, <2>6, PrepareIInv DEF RecordOutcome
<1>6. CASE Refuse(o)
  BY <1>6, QuitIInv DEF Refuse
<1>. QED
  BY <1>1, <1>2, <1>3, <1>4, <1>5, <1>6 DEF Command

LEMMA ClaimTyped ==
  ASSUME IInv, NEW o \in Operator, pc[o] \notin {"idle", "reading"}
  PROVE  Claim(o) \subseteq Report \cup Event
<1>1. Prepared(job[o])
  BY Facts DEF JobOK
<1>. QED
  BY <1>1 DEF Prepared, Claim

LEMMA CommitIInv ==
  ASSUME IInv, NEW o \in Operator, Commit(o)
  PROVE  IInv'
<1>. USE Facts
<1>1. CASE Place(o)
  <2>1. job[o].dir \in Dir
    BY <1>1 DEF Place, JobOK, Prepared
  <2>2. CASE job[o].manifest = None
    <3>1. "rereading" \in Phase /\ JobOK("rereading", job[o])
      BY <1>1, <2>2 DEF Place, JobOK, Phase, Late
    <3>. QED
      BY <1>1, <2>1, <2>2, <3>1, MoveIInv DEF Place
  <2>3. CASE job[o].manifest # None
    <3>1. "replaying" \in Phase /\ JobOK("replaying", job[o])
      BY <1>1, <2>3 DEF Place, JobOK, Phase, Late
    <3>. QED
      BY <1>1, <2>1, <2>3, <3>1, MoveIInv DEF Place
  <2>. QED
    BY <2>2, <2>3
<1>2. CASE Replay(o)
  <2>1. ASSUME NEW phase \in {"staging", "cleaning"}
        PROVE  phase \in Phase /\ JobOK(phase, job[o])
    BY <1>2 DEF Replay, JobOK, Phase, Late
  <2>. QED
    BY <1>2, <2>1, MoveIInv DEF Replay
<1>3. CASE Stage(o)
  <2>. DEFINE j == [job[o] EXCEPT !.oldRegistry = registry, !.oldManifest = manifest]
  <2>1. j \in Job /\ "replacing_registry" \in Phase
    BY DEF Job, Phase
  <2>2. Prepared(job[o])
    BY <1>3 DEF Stage, JobOK
  <2>3. job[o].registry \in Sound /\ job[o].manifest \in Manifest
    BY <1>3, <2>2 DEF Stage, JobOK, Prepared
  <2>4. JobOK("replacing_registry", j)
    <3>1. Prepared(j)
      BY <2>2 DEF Job, Prepared
    <3>2. j.registry \in Sound /\ j.oldRegistry \in Sound /\ j.oldManifest \in Manifest
      BY <2>3 DEF Job
    <3>. QED
      BY <3>1, <3>2 DEF JobOK, Late
  <2>. QED
    BY <1>3, <2>1, <2>4, LocalStep DEF Stage, Goto
<1>4. CASE ReRead(o)
  <2>. DEFINE j == [job[o] EXCEPT !.base = registry]
  <2>1. j \in Job /\ "deciding" \in Phase
    BY DEF Job, Phase
  <2>2. JobOK("deciding", j)
    <3>1. Prepared(job[o]) /\ job[o].manifest = None
      BY <1>4 DEF ReRead, JobOK
    <3>2. Prepared(j) /\ j.base \in Sound /\ j.manifest = None
      BY <3>1 DEF Job, Prepared
    <3>. QED
      BY <3>2 DEF JobOK, Late
  <2>. QED
    BY <1>4, <2>1, <2>2, LocalStep DEF ReRead, Goto
<1>5. CASE Decide(o)
  <2>1. CASE CanRecordReview(job[o].base, job[o].event)
    <3>. DEFINE new == Appended(job[o].base, job[o].event)
                j == [job[o] EXCEPT !.registry = new]
    <3>1. Prepared(job[o]) /\ job[o].base \in Sound
      BY <1>5 DEF Decide, JobOK
    <3>2. CASE job[o].event \in Event /\ job[o].manifest = None
      <4>1. new \in Sound
        BY <2>1, <3>1, <3>2, AppendedSound DEF CanRecordReview
      <4>2. new \in Registry
        BY <4>1 DEF Sound
      <4>. HIDE DEF new
      <4>3. j \in Job /\ "replacing_registry" \in Phase
        BY <4>2 DEF Job, Phase
      <4>4. JobOK("replacing_registry", j)
        BY <3>1, <3>2, <4>1 DEF JobOK, Late, Job, Prepared
      <4>. QED
        BY <1>5, <2>1, <4>3, <4>4, LocalStep DEF Decide, Goto, new
    <3>3. job[o].manifest = None
      BY <1>5 DEF Decide, JobOK
    <3>. QED
      BY <3>1, <3>2, <3>3, CampaignAssumption DEF Prepared
  <2>2. CASE ~ CanRecordReview(job[o].base, job[o].event)
    <3>1. "cleaning" \in Phase /\ JobOK("cleaning", job[o])
      BY <1>5 DEF Decide, JobOK, Phase, Late
    <3>. QED
      BY <1>5, <2>2, <3>1, MoveIInv DEF Decide
  <2>. QED
    BY <2>1, <2>2
<1>6. CASE ReplaceRegistry(o)
  <2>1. job[o].registry \in Sound
    BY <1>6 DEF ReplaceRegistry, JobOK
  <2>2. CASE job[o].manifest = None
    BY <1>6, <2>1, <2>2, ClaimTyped, QuitIInv DEF ReplaceRegistry, ReportDone
  <2>3. CASE job[o].manifest # None
    <3>1. "replacing_manifest" \in Phase /\ JobOK("replacing_manifest", job[o])
      BY <1>6, <2>3 DEF ReplaceRegistry, JobOK, Phase, Late
    <3>. QED
      BY <1>6, <2>1, <2>3, <3>1, MoveIInv DEF ReplaceRegistry
  <2>. QED
    BY <2>2, <2>3
<1>7. CASE ReplaceManifest(o)
  <2>1. job[o].manifest \in Manifest
    BY <1>7 DEF ReplaceManifest, JobOK, Late, Job
  <2>2. "checking" \in Phase /\ JobOK("checking", job[o])
    BY <1>7 DEF ReplaceManifest, JobOK, Late, Phase
  <2>. QED
    BY <1>7, <2>1, <2>2, MoveIInv DEF ReplaceManifest
<1>8. CASE Check(o)
  BY <1>8, ClaimTyped, QuitIInv DEF Check, ReportDone
<1>. QED
  BY <1>1, <1>2, <1>3, <1>4, <1>5, <1>6, <1>7, <1>8 DEF Commit

LEMMA UndoIInv ==
  ASSUME IInv, NEW o \in Operator, Undo(o)
  PROVE  IInv'
<1>. USE Facts
<1>1. ASSUME pc[o] \notin {"idle", "reading"}
      PROVE  "cleaning" \in Phase /\ JobOK("cleaning", job[o])
  BY <1>1 DEF JobOK, Phase, Late
<1>2. CASE Fail(o)
  BY <1>1, <1>2, MoveIInv, QuitIInv DEF Fail, GiveUp
<1>3. CASE FailLate(o)
  <2>1. ASSUME NEW phase \in {"restoring_registry", "restoring_both"}
        PROVE  phase \in Phase /\ JobOK(phase, job[o])
    BY <1>3 DEF FailLate, JobOK, Phase, Late
  <2>. QED
    BY <1>3, <2>1, MoveIInv DEF FailLate
<1>4. CASE RestoreRegistry(o)
  <2>1. job[o].oldRegistry \in Sound
    BY <1>4 DEF RestoreRegistry, JobOK, Late
  <2>2. "restoring_manifest" \in Phase /\ JobOK("restoring_manifest", job[o])
    BY <1>4 DEF RestoreRegistry, JobOK, Phase, Late
  <2>. QED
    BY <1>1, <1>4, <2>1, <2>2, MoveIInv DEF RestoreRegistry
<1>5. CASE RestoreManifest(o)
  <2>1. job[o].oldManifest \in Manifest
    BY <1>5 DEF RestoreManifest, JobOK, Late
  <2>. QED
    BY <1>1, <1>5, <2>1, MoveIInv DEF RestoreManifest
<1>6. CASE Clean(o)
  BY <1>6, QuitIInv DEF Clean
<1>. QED
  BY <1>2, <1>3, <1>4, <1>5, <1>6 DEF Undo

LEMMA NextIInv == IInv /\ [Next]_vars => IInv'
<1>. SUFFICES ASSUME IInv, [Next]_vars PROVE IInv'
  OBVIOUS
<1>1. ASSUME NEW o \in Operator, Crash(o) PROVE IInv'
  BY <1>1, Facts, QuitIInv DEF Crash
<1>2. CASE UNCHANGED vars
  BY <1>2 DEF vars, IInv, TypeOK
<1>. QED
  BY <1>1, <1>2, CommandIInv, CommitIInv, UndoIInv DEF Next

-----------------------------------------------------------------------------
(* The inductive invariant holds of every behavior.                        *)
THEOREM Invariance == Spec => []IInv
<1>. QED
  BY InitIInv, NextIInv, PTL DEF Spec

(* Files, phases and remembered contents keep their types.                 *)
THEOREM TypeCorrect == Spec => []TypeOK
<1>1. IInv => TypeOK
  BY DEF IInv
<1>. QED
  BY <1>1, Invariance, PTL

(* However intakes overlap, overwrite each other, fail and are rolled      *)
(* back, a task at one source revision has one assessment.                 *)
THEOREM TaskAssessedOnce == Spec => []OneReportPerTask
<1>1. IInv => OneReportPerTask
  BY DEF IInv, Sound, OneReport, OneReportPerTask
<1>. QED
  BY <1>1, Invariance, PTL

(* However submissions overlap, a review packet backs one decision.        *)
THEOREM PacketDecidedOnce == Spec => []OneDecisionPerPacket
<1>1. IInv => OneDecisionPerPacket
  BY DEF IInv, Sound, OneDecision, OneDecisionPerPacket
<1>. QED
  BY <1>1, Invariance, PTL

-----------------------------------------------------------------------------
(* One process at a time. A command plans its change on the registry and   *)
(* the manifest it reads; while it runs nobody else moves, so these are    *)
(* the files until the first of them is replaced, and the copies kept for  *)
(* the rollback after. They and the directories that were there before the *)
(* command are what counts until the command has reported.                 *)

MapCase(m, c) == [cases |-> m.cases \cup {c}, outcomes |-> m.outcomes]
MapOutcome(m, id) == [cases |-> m.cases, outcomes |-> m.outcomes \cup {id}]

PlansIntake(r, m, j) ==
  \E c \in Report :
    /\ c \notin r.cases /\ c \notin m.cases
    /\ j.dir = CaseDir(c) /\ j.event = None
    /\ j.registry = Captured(r, c) /\ j.manifest = MapCase(m, c)

PlansOutcome(r, m, j) ==
  /\ j.event \in Event /\ IsOutcome(j.event) /\ j.event.packet = None /\ j.event.case \in r.cases
  /\ j.dir = OutcomeDir(Append(r.events, j.event)) /\ Append(r.events, j.event) \notin m.outcomes
  /\ j.registry = Appended(r, j.event)
  /\ j.manifest = MapOutcome(m, Append(r.events, j.event))

PlansReview(r, m, j) ==
  /\ j.event \in Event /\ ~ IsOutcome(j.event)
  /\ j.event.packet # None /\ j.event.case = CaseOf[j.event.packet] /\ j.event.case \in r.cases
  /\ \A i \in DOMAIN r.events : r.events[i].packet # j.event.packet
  /\ j.dir = ArchiveDir(j.event.packet) /\ j.manifest = None

Planned(r, m, j) == PlansIntake(r, m, j) \/ PlansOutcome(r, m, j) \/ PlansReview(r, m, j)

(* What the command makes of the files it was planned on.                  *)
NewRegistry(r, j) == IF j.manifest = None THEN Appended(r, j.event) ELSE j.registry
NewManifest(m, j) == IF j.manifest = None THEN m ELSE j.manifest

Packets(r) == {r.events[i].packet : i \in DOMAIN r.events} \ {None}

Entries(r) == r.cases \cup {r.events[i] : i \in DOMAIN r.events}

(* The evidence behind what is mapped or decided.                          *)
Needed(r, m) ==
  {CaseDir(c) : c \in m.cases} \cup {OutcomeDir(id) : id \in m.outcomes}
    \cup {ArchiveDir(k) : k \in Packets(r)}

(* Outcomes and decisions are about cases the registry has, whose evidence *)
(* no command of another case removes.                                     *)
Grounded(r, m) ==
  /\ \A id \in m.outcomes : id # <<>> /\ id[Len(id)].case \in r.cases
  /\ \A i \in DOMAIN r.events :
       /\ r.events[i].case \in r.cases
       /\ r.events[i].packet # None => r.events[i].case = CaseOf[r.events[i].packet]

Maps(r, m) == m.cases = r.cases /\ m.outcomes = OutcomeIds(r)

(* The files of a finished command, for the reports a and the crashes n.   *)
Kept(r, m, d, a, n) ==
  /\ Grounded(r, m) /\ Needed(r, m) \subseteq d /\ a \subseteq Entries(r)
  /\ n = 0 => Maps(r, m) /\ d = Needed(r, m) /\ Complete(r, m, d)

(* Once replayed, the change completes.                                    *)
Completes(r, m, j, d, n) == n = 0 => Complete(NewRegistry(r, j), NewManifest(m, j), d)

(* A command before it replaces a file, and while it removes its directory. *)
Working(p, j, r, m, d, a, n) ==
  /\ Kept(r, m, d \ {j.dir}, a, n)
  /\ Planned(r, m, j)
  /\ p = "placing" => j.dir \notin d
  /\ p \notin {"placing", "cleaning"} => j.dir \in d
  /\ p = "deciding" => j.base = r
  /\ p \in {"staging", "replacing_registry"} => Completes(r, m, j, d, n)
  /\ p = "replacing_registry" =>
       /\ j.registry = NewRegistry(r, j)
       /\ j.manifest # None => j.oldRegistry = r /\ j.oldManifest = m

(* A command that has replaced one file or both.                           *)
Replacing(p, j, r, m, d, a, n) ==
  /\ Kept(j.oldRegistry, j.oldManifest, d \ {j.dir}, a, n)
  /\ Planned(j.oldRegistry, j.oldManifest, j)
  /\ j.dir \in d
  /\ Completes(j.oldRegistry, j.oldManifest, j, d, n)
  /\ r = IF p = "restoring_manifest" THEN j.oldRegistry ELSE j.registry
  /\ m = IF p \in {"replacing_manifest", "restoring_registry"} THEN j.oldManifest ELSE j.manifest

Tidy(p, j, r, m, d, a, n) ==
  /\ p \in {"idle", "reading"} => Kept(r, m, d, a, n)
  /\ p = "reading" => j.base = r
  /\ p \in Phase \ ({"idle", "reading"} \cup Late) => Working(p, j, r, m, d, a, n)
  /\ p \in Late => Replacing(p, j, r, m, d, a, n)

Alone(o) == \A q \in Operator \ {o} : pc[q] = "idle"

AloneInv ==
  /\ ~ Overlapping
  /\ Quiescent => Kept(registry, manifest, dirs, acked, crashes)
  /\ \A o \in Operator : pc[o] # "idle" => Tidy(pc[o], job[o], registry, manifest, dirs, acked, crashes)

OverlapIInv == IInv /\ overlapped \in BOOLEAN /\ (~overlapped => AloneInv)

-----------------------------------------------------------------------------
(* Histories: an event's identity stays when the history grows.            *)

LEMMA AppendedHistory ==
  ASSUME NEW r \in Registry, NEW e \in Event
  PROVE  /\ r.events \in Seq(Event) /\ Append(r.events, e) \in Seq(Event)
         /\ Appended(r, e).events = Append(r.events, e) /\ Appended(r, e).cases = r.cases
         /\ DOMAIN r.events = 1 .. Len(r.events) /\ Len(r.events) \in Nat
         /\ Len(Append(r.events, e)) = Len(r.events) + 1
         /\ DOMAIN Append(r.events, e) = 1 .. Len(r.events) + 1
         /\ DOMAIN Append(r.events, e) = DOMAIN r.events \cup {Len(r.events) + 1}
         /\ Len(r.events) + 1 \notin DOMAIN r.events
         /\ \A i \in DOMAIN r.events : Append(r.events, e)[i] = r.events[i]
         /\ Append(r.events, e)[Len(r.events) + 1] = e
<1>1. r.events \in Seq(Event)
  BY DEF Registry
<1> DEFINE s == r.events
           t == Append(s, e)
<1>2. /\ t \in Seq(Event) /\ DOMAIN s = 1 .. Len(s) /\ Len(s) \in Nat /\ Len(t) = Len(s) + 1
      /\ DOMAIN t = 1 .. Len(s) + 1 /\ \A i \in 1 .. Len(s) : t[i] = s[i]
  BY <1>1
<1>3. t[Len(s) + 1] = e
  BY <1>1
<1>4. Appended(r, e).events = t /\ Appended(r, e).cases = r.cases
  BY DEF Appended
<1> HIDE DEF s, t
<1>5. DOMAIN t = DOMAIN s \cup {Len(s) + 1} /\ Len(s) + 1 \notin DOMAIN s
  BY <1>2
<1>. QED BY <1>1, <1>2, <1>3, <1>4, <1>5 DEF s, t

LEMMA SubSeqOf ==
  ASSUME NEW s \in Seq(Event), NEW i \in DOMAIN s
  PROVE  /\ SubSeq(s, 1, i) \in Seq(Event) /\ Len(SubSeq(s, 1, i)) = i
         /\ i \in Nat /\ i >= 1
         /\ \A n \in 1 .. i : SubSeq(s, 1, i)[n] = s[n]
<1>1. i \in 1 .. Len(s) /\ Len(s) \in Nat
  OBVIOUS
<1>2. \A n \in 1 .. i : s[n] \in Event
  BY <1>1
<1>3. Len(SubSeq(s, 1, i)) = i /\ \A n \in 1 .. i : SubSeq(s, 1, i)[n] = s[n]
  BY <1>1
<1>4. SubSeq(s, 1, i) \in Seq(Event)
  BY <1>1, <1>2
<1>. QED BY <1>1, <1>3, <1>4

LEMMA EventIds ==
  ASSUME NEW r \in Registry, NEW e \in Event
  PROVE  /\ \A i \in DOMAIN r.events : EventId(Appended(r, e), i) = EventId(r, i)
         /\ EventId(Appended(r, e), Len(r.events) + 1) = Append(r.events, e)
<1> DEFINE s == r.events
           t == Append(s, e)
<1>1. /\ s \in Seq(Event) /\ t \in Seq(Event) /\ Appended(r, e).events = t
      /\ DOMAIN s = 1 .. Len(s) /\ Len(s) \in Nat /\ Len(t) = Len(s) + 1
      /\ DOMAIN t = DOMAIN s \cup {Len(s) + 1} /\ \A i \in DOMAIN s : t[i] = s[i]
  BY AppendedHistory
<1>2. \A u, v \in Seq(Event) :
         Len(u) = Len(v) /\ (\A n \in 1 .. Len(u) : u[n] = v[n]) => u = v
  OBVIOUS
<1> HIDE DEF s, t
<1>3. ASSUME NEW i \in DOMAIN s
      PROVE  SubSeq(t, 1, i) = SubSeq(s, 1, i)
  <2>1. i \in DOMAIN t /\ i \in 1 .. Len(s)
    BY <1>1
  <2>2. /\ SubSeq(s, 1, i) \in Seq(Event) /\ Len(SubSeq(s, 1, i)) = i
        /\ \A n \in 1 .. i : SubSeq(s, 1, i)[n] = s[n]
    BY <1>1, SubSeqOf
  <2>3. /\ SubSeq(t, 1, i) \in Seq(Event) /\ Len(SubSeq(t, 1, i)) = i
        /\ \A n \in 1 .. i : SubSeq(t, 1, i)[n] = t[n]
    BY <1>1, <2>1, SubSeqOf
  <2>4. \A n \in 1 .. i : n \in DOMAIN s
    BY <1>1, <2>1
  <2>. QED BY <1>1, <1>2, <2>2, <2>3, <2>4
<1>4. SubSeq(t, 1, Len(s) + 1) = t
  <2>1. Len(s) + 1 \in DOMAIN t
    BY <1>1
  <2>2. /\ SubSeq(t, 1, Len(s) + 1) \in Seq(Event) /\ Len(SubSeq(t, 1, Len(s) + 1)) = Len(s) + 1
        /\ \A n \in 1 .. Len(s) + 1 : SubSeq(t, 1, Len(s) + 1)[n] = t[n]
    BY <1>1, <2>1, SubSeqOf
  <2>. QED BY <1>1, <1>2, <2>2
<1>. QED BY <1>1, <1>3, <1>4 DEF EventId, s, t

(* The last event of a history that names an outcome is that outcome.      *)
LEMMA IdsEndInTheirEvent ==
  ASSUME NEW r \in Registry, NEW i \in DOMAIN r.events
  PROVE  EventId(r, i) # <<>> /\ EventId(r, i)[Len(EventId(r, i))] = r.events[i]
<1>1. r.events \in Seq(Event)
  BY DEF Registry
<1> DEFINE u == SubSeq(r.events, 1, i)
<1>2. u \in Seq(Event) /\ Len(u) = i /\ i \in Nat /\ i >= 1 /\ u[i] = r.events[i]
  BY <1>1, SubSeqOf
<1>3. EventId(r, i) = u
  BY DEF EventId
<1> HIDE DEF u
<1>4. u # <<>>
  BY <1>2
<1>. QED BY <1>2, <1>3, <1>4

LEMMA AppendedOutcomes ==
  ASSUME NEW r \in Registry, NEW e \in Event
  PROVE  OutcomeIds(Appended(r, e)) =
           OutcomeIds(r) \cup (IF IsOutcome(e) THEN {Append(r.events, e)} ELSE {})
<1> DEFINE n == Appended(r, e)
           last == Len(r.events) + 1
<1>1. /\ DOMAIN n.events = DOMAIN r.events \cup {last} /\ last \notin DOMAIN r.events
      /\ \A i \in DOMAIN r.events : n.events[i] = r.events[i]
      /\ n.events[last] = e
  BY AppendedHistory
<1>2. /\ \A i \in DOMAIN r.events : EventId(n, i) = EventId(r, i)
      /\ EventId(n, last) = Append(r.events, e)
  BY EventIds
<1> HIDE DEF n, last
<1>3. \A x : x \in OutcomeIds(n) <=> \E i \in DOMAIN n.events : IsOutcome(n.events[i]) /\ x = EventId(n, i)
  BY DEF OutcomeIds
<1>4. \A x : x \in OutcomeIds(r) <=> \E i \in DOMAIN r.events : IsOutcome(r.events[i]) /\ x = EventId(r, i)
  BY DEF OutcomeIds
<1>5. \A x : x \in OutcomeIds(n) <=> x \in OutcomeIds(r) \/ (IsOutcome(e) /\ x = Append(r.events, e))
  BY <1>1, <1>2, <1>3, <1>4
<1>. QED BY <1>5 DEF n

LEMMA AppendedEntries ==
  ASSUME NEW r \in Registry, NEW e \in Event
  PROVE  /\ Entries(Appended(r, e)) = Entries(r) \cup {e}
         /\ Packets(Appended(r, e)) = Packets(r) \cup ({e.packet} \ {None})
<1> DEFINE n == Appended(r, e)
           last == Len(r.events) + 1
<1>1. /\ DOMAIN n.events = DOMAIN r.events \cup {last} /\ n.cases = r.cases
      /\ \A i \in DOMAIN r.events : n.events[i] = r.events[i]
      /\ n.events[last] = e
  BY AppendedHistory
<1> HIDE DEF n, last
<1>2. \A x : x \in Entries(n) <=> x \in Entries(r) \/ x = e
  BY <1>1 DEF Entries
<1>3. \A x : x \in Packets(n) <=> x \in Packets(r) \/ (x = e.packet /\ x # None)
  BY <1>1 DEF Packets
<1>. QED BY <1>2, <1>3 DEF n

-----------------------------------------------------------------------------
(* Reconciliation is complete when every case and every conclusive outcome *)
(* has its sources and no source is behind two conclusive outcomes.        *)
Backed(r, m, d) ==
  /\ \A c \in r.cases : CaseReconciled(m, d, c)
  /\ \A i \in DOMAIN r.events : IsConclusive(r.events[i]) => BaseReconciled(r, m, d, i)
  /\ \A i, j \in DOMAIN r.events :
       i # j /\ IsConclusive(r.events[i]) /\ IsConclusive(r.events[j])
       => r.events[i].authority # r.events[j].authority

LEMMA CompleteMeansBacked ==
  ASSUME NEW r, NEW m, NEW d
  PROVE  Complete(r, m, d) <=> Backed(r, m, d)
<1>1. ASSUME Complete(r, m, d) PROVE Backed(r, m, d)
  <2>1. \A i \in DOMAIN r.events : IsConclusive(r.events[i]) => BaseReconciled(r, m, d, i)
    BY <1>1 DEF Complete, OutcomeReconciled
  <2>. QED BY <1>1, <2>1 DEF Complete, OutcomeReconciled, Backed
<1>2. ASSUME Backed(r, m, d) PROVE Complete(r, m, d)
  BY <1>2 DEF Complete, OutcomeReconciled, Backed
<1>. QED BY <1>1, <1>2

(* Sources and directories that are added take nothing back.               *)
LEMMA StillReconciled ==
  ASSUME NEW r, NEW m, NEW d, NEW r2, NEW m2, NEW d2,
         m.cases \subseteq m2.cases, m.outcomes \subseteq m2.outcomes, d \subseteq d2,
         NEW i, EventId(r2, i) = EventId(r, i), r2.events[i] = r.events[i],
         BaseReconciled(r, m, d, i)
  PROVE  BaseReconciled(r2, m2, d2, i)
BY DEF BaseReconciled, CaseReconciled

LEMMA IntakeCompletes ==
  ASSUME NEW r, NEW m \in Manifest, NEW d, NEW c,
         Complete(r, m, d)
  PROVE  Complete(Captured(r, c), MapCase(m, c), d \cup {CaseDir(c)})
<1> DEFINE r2 == Captured(r, c)
           m2 == MapCase(m, c)
           d2 == d \cup {CaseDir(c)}
<1>1. r2.events = r.events /\ r2.cases = r.cases \cup {c} /\ \A i : EventId(r2, i) = EventId(r, i)
  BY DEF Captured, EventId
<1>2. m2.cases = m.cases \cup {c} /\ m2.outcomes = m.outcomes
  BY DEF MapCase
<1>3. d \subseteq d2 /\ CaseDir(c) \in d2
  OBVIOUS
<1> HIDE DEF r2, m2, d2
<1>4. Backed(r, m, d)
  BY CompleteMeansBacked
<1>5. \A x \in r2.cases : CaseReconciled(m2, d2, x)
  BY <1>1, <1>2, <1>3, <1>4 DEF Backed, CaseReconciled
<1>6. \A i \in DOMAIN r2.events : IsConclusive(r2.events[i]) => BaseReconciled(r2, m2, d2, i)
  BY <1>1, <1>2, <1>3, <1>4, StillReconciled DEF Backed
<1>7. Backed(r2, m2, d2)
  BY <1>1, <1>4, <1>5, <1>6 DEF Backed
<1>. QED BY <1>7, CompleteMeansBacked DEF r2, m2, d2

LEMMA OutcomeCompletes ==
  ASSUME NEW r \in Registry, NEW m \in Manifest, NEW d, NEW e \in Event, IsOutcome(e),
         Complete(r, m, d), NEW m2, NEW d2,
         m2 = MapOutcome(m, Append(r.events, e)), d \subseteq d2,
         IsConclusive(e) => OutcomeReconciled(Appended(r, e), m2, d2, Len(r.events) + 1)
  PROVE  Complete(Appended(r, e), m2, d2)
<1> DEFINE r2 == Appended(r, e)
           last == Len(r.events) + 1
<1>1. /\ r2.cases = r.cases /\ DOMAIN r2.events = DOMAIN r.events \cup {last}
      /\ last \notin DOMAIN r.events
      /\ \A i \in DOMAIN r.events : r2.events[i] = r.events[i] /\ EventId(r2, i) = EventId(r, i)
      /\ r2.events[last] = e
  BY AppendedHistory, EventIds
<1>2. m2.cases = m.cases /\ m.outcomes \subseteq m2.outcomes
  BY DEF MapOutcome
<1> HIDE DEF r2, last
<1>3. Backed(r, m, d)
  BY CompleteMeansBacked
<1>4. \A x \in r2.cases : CaseReconciled(m2, d2, x)
  BY <1>1, <1>2, <1>3 DEF Backed, CaseReconciled
<1>5. ASSUME NEW i \in DOMAIN r.events, IsConclusive(r.events[i])
      PROVE  BaseReconciled(r2, m2, d2, i)
  <2>1. /\ EventId(r2, i) = EventId(r, i) /\ r2.events[i] = r.events[i]
        /\ m.cases \subseteq m2.cases /\ BaseReconciled(r, m, d, i)
    BY <1>1, <1>2, <1>3, <1>5 DEF Backed
  <2>. QED BY <1>2, <2>1 DEF BaseReconciled, CaseReconciled
<1>6. IsConclusive(e) => OutcomeReconciled(r2, m2, d2, last)
  BY DEF r2, last
<1>7. \A i \in DOMAIN r2.events : IsConclusive(r2.events[i]) => BaseReconciled(r2, m2, d2, i)
  BY <1>1, <1>5, <1>6 DEF OutcomeReconciled
<1>8. \A i \in DOMAIN r.events : IsConclusive(r.events[i]) /\ IsConclusive(e)
                                  => r.events[i].authority # e.authority
  BY <1>1, <1>6, <1>7 DEF OutcomeReconciled
<1>9. ASSUME NEW i \in DOMAIN r2.events, NEW j \in DOMAIN r2.events,
             i # j, IsConclusive(r2.events[i]), IsConclusive(r2.events[j])
      PROVE  r2.events[i].authority # r2.events[j].authority
  BY <1>1, <1>3, <1>8, <1>9 DEF Backed
<1>10. Backed(r2, m2, d2)
  BY <1>4, <1>7, <1>9 DEF Backed
<1>. QED BY <1>10, CompleteMeansBacked DEF r2

-----------------------------------------------------------------------------
(* What a planned change does to the files: at every point of the command  *)
(* the evidence they need is there, and once both are replaced they map    *)
(* each other and need exactly the new directory in addition.              *)
Changes(r, m, j) ==
  LET r2 == NewRegistry(r, j)
      m2 == NewManifest(m, j)
  IN  /\ \A x \in {r, r2}, y \in {m, m2} :
           Grounded(x, y) /\ Needed(x, y) \subseteq Needed(r, m) \cup {j.dir}
      /\ Needed(r2, m2) = Needed(r, m) \cup {j.dir}
      /\ Entries(r) \subseteq Entries(r2)
      /\ (IF j.event = None THEN j.dir[2] ELSE j.event) \in Entries(r2)
      /\ Maps(r, m) => Maps(r2, m2)

LEMMA IntakeChanges ==
  ASSUME NEW r \in Registry, NEW m \in Manifest, NEW j, Grounded(r, m), PlansIntake(r, m, j)
  PROVE  Changes(r, m, j)
<1> DEFINE r2 == j.registry
           m2 == j.manifest
<1>1. PICK c \in Report : /\ j.dir = CaseDir(c) /\ j.event = None
                          /\ j.registry = Captured(r, c)
                          /\ j.manifest = MapCase(m, c)
  BY DEF PlansIntake
<1>2. /\ r2.events = r.events /\ r2.cases = r.cases \cup {c}
      /\ m2.cases = m.cases \cup {c} /\ m2.outcomes = m.outcomes /\ m2 \in Manifest
  BY <1>1 DEF Captured, Manifest, MapCase
<1>3. m2 # None
  BY <1>2, CampaignAssumption
<1>4. NewRegistry(r, j) = r2 /\ NewManifest(m, j) = m2
  BY <1>3 DEF NewRegistry, NewManifest
<1> HIDE DEF r2, m2
<1>5. Packets(r2) = Packets(r) /\ Entries(r2) = Entries(r) \cup {c} /\ OutcomeIds(r2) = OutcomeIds(r)
  BY <1>2 DEF Packets, Entries, OutcomeIds, EventId
<1>6. /\ Needed(r2, m2) = Needed(r, m) \cup {CaseDir(c)}
      /\ Needed(r, m2) = Needed(r, m) \cup {CaseDir(c)}
      /\ Needed(r2, m) = Needed(r, m)
  BY <1>2, <1>5 DEF Needed
<1>7. Grounded(r, m2) /\ Grounded(r2, m) /\ Grounded(r2, m2)
  BY <1>2 DEF Grounded
<1>8. Maps(r, m) => Maps(r2, m2)
  BY <1>2, <1>5 DEF Maps
<1>9. j.dir[2] = c
  BY <1>1 DEF CaseDir
<1>10. (IF j.event = None THEN j.dir[2] ELSE j.event) \in Entries(r2)
  BY <1>1, <1>5, <1>9
<1>. QED BY <1>1, <1>4, <1>5, <1>6, <1>7, <1>8, <1>10 DEF Changes

LEMMA OutcomeChanges ==
  ASSUME NEW r \in Registry, NEW m \in Manifest, NEW j, Grounded(r, m), PlansOutcome(r, m, j)
  PROVE  Changes(r, m, j)
<1> DEFINE e == j.event
           id == Append(r.events, e)
           r2 == j.registry
           m2 == j.manifest
<1>1. /\ e \in Event /\ IsOutcome(e) /\ e.packet = None /\ e.case \in r.cases
      /\ j.dir = OutcomeDir(id) /\ r2 = Appended(r, e)
      /\ m2 = MapOutcome(m, id)
  BY DEF PlansOutcome
<1>2. /\ id \in Seq(Event) /\ id # <<>> /\ id[Len(id)] = e
      /\ r2.cases = r.cases /\ DOMAIN r2.events = DOMAIN r.events \cup {Len(r.events) + 1}
      /\ \A i \in DOMAIN r.events : r2.events[i] = r.events[i]
      /\ r2.events[Len(r.events) + 1] = e
  <2>1. /\ id \in Seq(Event) /\ Len(id) = Len(r.events) + 1 /\ Len(r.events) \in Nat
        /\ id[Len(r.events) + 1] = e
    BY <1>1, AppendedHistory
  <2>2. id # <<>> /\ id[Len(id)] = e
    BY <2>1
  <2>3. /\ Appended(r, e).cases = r.cases /\ Appended(r, e).events = id
        /\ DOMAIN id = DOMAIN r.events \cup {Len(r.events) + 1}
        /\ \A i \in DOMAIN r.events : id[i] = r.events[i]
    BY <1>1, AppendedHistory
  <2> HIDE DEF id
  <2>. QED BY <1>1, <2>1, <2>2, <2>3
<1> HIDE DEF id
<1>3. m2.cases = m.cases /\ m2.outcomes = m.outcomes \cup {id} /\ m2 \in Manifest /\ e # None
  <2>1. m2.cases = m.cases /\ m2.outcomes = m.outcomes \cup {id} /\ m2 \in Manifest
    BY <1>1, <1>2 DEF Manifest, MapOutcome
  <2>. QED BY <1>1, <2>1, CampaignAssumption
<1>4. m2 # None
  BY <1>3, CampaignAssumption
<1>5. NewRegistry(r, j) = r2 /\ NewManifest(m, j) = m2
  BY <1>4 DEF NewRegistry, NewManifest
<1>6. /\ Packets(r2) = Packets(r) /\ Entries(r2) = Entries(r) \cup {e}
      /\ OutcomeIds(r2) = OutcomeIds(r) \cup {id}
  <2>1. OutcomeIds(r2) = OutcomeIds(r) \cup {Append(r.events, e)}
    BY <1>1, AppendedOutcomes
  <2>2. Entries(r2) = Entries(r) \cup {e} /\ Packets(r2) = Packets(r) \cup ({e.packet} \ {None})
    BY <1>1, AppendedEntries
  <2> HIDE DEF e, r2
  <2>. QED BY <1>1, <2>1, <2>2 DEF id
<1> HIDE DEF r2, m2, e
<1>7. /\ Needed(r2, m2) = Needed(r, m) \cup {OutcomeDir(id)}
      /\ Needed(r, m2) = Needed(r, m) \cup {OutcomeDir(id)}
      /\ Needed(r2, m) = Needed(r, m)
  BY <1>3, <1>6 DEF Needed
<1>8. \A i \in m2.outcomes : i # <<>> /\ i[Len(i)].case \in r.cases
  BY <1>1, <1>2, <1>3 DEF Grounded
<1>9. \A i \in DOMAIN r2.events :
         /\ r2.events[i].case \in r.cases
         /\ r2.events[i].packet # None => r2.events[i].case = CaseOf[r2.events[i].packet]
  BY <1>1, <1>2 DEF Grounded
<1>10. Grounded(r, m2) /\ Grounded(r2, m) /\ Grounded(r2, m2)
  BY <1>2, <1>8, <1>9 DEF Grounded
<1>11. Maps(r, m) => Maps(r2, m2)
  BY <1>2, <1>3, <1>6 DEF Maps
<1>12. (IF j.event = None THEN j.dir[2] ELSE j.event) \in Entries(r2)
  BY <1>3, <1>6 DEF e
<1>. QED BY <1>1, <1>5, <1>6, <1>7, <1>10, <1>11, <1>12 DEF Changes

LEMMA ReviewChanges ==
  ASSUME NEW r \in Registry, NEW m \in Manifest, NEW j, Grounded(r, m), PlansReview(r, m, j)
  PROVE  Changes(r, m, j)
<1> DEFINE e == j.event
           r2 == Appended(r, e)
<1>1. /\ e \in Event /\ ~ IsOutcome(e) /\ e.packet # None /\ e.case = CaseOf[e.packet]
      /\ e.case \in r.cases /\ j.dir = ArchiveDir(e.packet) /\ j.manifest = None
  BY DEF PlansReview
<1>2. /\ r2.cases = r.cases /\ DOMAIN r2.events = DOMAIN r.events \cup {Len(r.events) + 1}
      /\ \A i \in DOMAIN r.events : r2.events[i] = r.events[i]
      /\ r2.events[Len(r.events) + 1] = e
  BY <1>1, AppendedHistory
<1>3. e # None
  BY <1>1, CampaignAssumption
<1>4. NewRegistry(r, j) = r2 /\ NewManifest(m, j) = m
  BY <1>1 DEF NewRegistry, NewManifest
<1>5. /\ Packets(r2) = Packets(r) \cup {e.packet} /\ Entries(r2) = Entries(r) \cup {e}
      /\ OutcomeIds(r2) = OutcomeIds(r)
  <2>1. OutcomeIds(r2) = OutcomeIds(r)
    BY <1>1, AppendedOutcomes
  <2>2. Entries(r2) = Entries(r) \cup {e} /\ Packets(r2) = Packets(r) \cup ({e.packet} \ {None})
    BY <1>1, AppendedEntries
  <2> HIDE DEF e, r2
  <2>. QED BY <1>1, <2>1, <2>2
<1> HIDE DEF r2, e
<1>6. Needed(r2, m) = Needed(r, m) \cup {ArchiveDir(e.packet)}
  BY <1>5 DEF Needed
<1>7. Grounded(r2, m)
  BY <1>1, <1>2 DEF Grounded
<1>8. Maps(r, m) => Maps(r2, m)
  BY <1>2, <1>5 DEF Maps
<1>9. (IF j.event = None THEN j.dir[2] ELSE j.event) \in Entries(r2)
  BY <1>3, <1>5 DEF e
<1>. QED BY <1>1, <1>4, <1>5, <1>6, <1>7, <1>8, <1>9 DEF Changes

LEMMA PlannedChanges ==
  ASSUME NEW r \in Registry, NEW m \in Manifest, NEW j, Grounded(r, m), Planned(r, m, j)
  PROVE  Changes(r, m, j)
BY IntakeChanges, OutcomeChanges, ReviewChanges DEF Planned

(* The directory of a case that is not mapped lies above no evidence that  *)
(* is needed.                                                              *)
LEMMA NothingBelow ==
  ASSUME NEW r, NEW m, Grounded(r, m), NEW c, c \notin r.cases, c \notin m.cases
  PROVE  \A x \in Needed(r, m) : DirCase(x) # c
<1>1. ASSUME NEW b \in m.cases PROVE DirCase(CaseDir(b)) = b
  BY DEF DirCase, CaseDir
<1>2. ASSUME NEW id \in m.outcomes PROVE DirCase(OutcomeDir(id)) \in r.cases
  BY DEF DirCase, OutcomeDir, Grounded
<1>3. ASSUME NEW k \in Packets(r) PROVE DirCase(ArchiveDir(k)) \in r.cases
  <2>1. DirCase(ArchiveDir(k)) = CaseOf[k]
    BY DEF DirCase, ArchiveDir
  <2>. QED BY <2>1 DEF Packets, Grounded
<1>. QED BY <1>1, <1>2, <1>3 DEF Needed

(* One command is under way at most, so it is the only one.                *)
LEMMA OnlyOne ==
  ASSUME IInv, AloneInv, NEW o \in Operator, pc[o] # "idle" \/ ~ Overlapping', pc'[o] # pc[o],
         \A q \in Operator \ {o} : pc'[q] = pc[q]
  PROVE  Alone(o) /\ Tidy(pc[o], job[o], registry, manifest, dirs, acked, crashes)
<1>1. Alone(o)
  BY DEF Alone, AloneInv, Overlapping
<1>2. CASE pc[o] # "idle"
  BY <1>1, <1>2 DEF AloneInv
<1>3. CASE pc[o] = "idle"
  <2>1. Kept(registry, manifest, dirs, acked, crashes)
    BY <1>1, <1>3 DEF AloneInv, Quiescent, Alone
  <2>2. pc[o] \notin Late /\ pc[o] # "reading"
    BY <1>3 DEF Late
  <2>. QED BY <1>1, <1>3, <2>1, <2>2 DEF Tidy
<1>. QED BY <1>1, <1>2, <1>3

LEMMA TidyStep ==
  ASSUME IInv, NEW o \in Operator, Alone(o), NEW p, NEW j,
         pc' = [pc EXCEPT ![o] = p], job' = [job EXCEPT ![o] = j],
         Tidy(p, j, registry', manifest', dirs', acked', crashes')
  PROVE  AloneInv'
<1>1. /\ pc'[o] = p /\ job'[o] = j
      /\ \A q \in Operator \ {o} : pc'[q] = "idle"
  BY DEF IInv, TypeOK, Alone
<1>2. ~ Overlapping'
  BY <1>1 DEF Overlapping
<1>3. ASSUME Quiescent' PROVE Kept(registry', manifest', dirs', acked', crashes')
  BY <1>1, <1>3 DEF Quiescent, Tidy
<1>4. ASSUME NEW q \in Operator, pc'[q] # "idle"
      PROVE  Tidy(pc'[q], job'[q], registry', manifest', dirs', acked', crashes')
  BY <1>1, <1>4
<1>. QED BY <1>2, <1>3, <1>4 DEF AloneInv

(* A command that is over.                                                 *)
LEMMA QuitTidy ==
  ASSUME IInv, NEW o \in Operator, Alone(o), Quit(o),
         Kept(registry', manifest', dirs', acked', crashes')
  PROVE  AloneInv'
<1>1. Tidy("idle", NoJob, registry', manifest', dirs', acked', crashes')
  BY DEF Tidy, Late
<1>. QED BY <1>1, TidyStep DEF Quit, Goto

(* A command that goes on with the same job.                               *)
LEMMA MoveTidy ==
  ASSUME IInv, NEW o \in Operator, Alone(o), NEW p, Goto(o, p), job' = job,
         Tidy(p, job[o], registry', manifest', dirs', acked', crashes')
  PROVE  AloneInv'
<1>1. job' = [job EXCEPT ![o] = job[o]]
  BY Facts
<1>. QED BY <1>1, TidyStep DEF Goto

(* A review is the plan that leaves the manifest alone.                    *)
LEMMA WhichPlan ==
  ASSUME NEW r \in Registry, NEW m \in Manifest, NEW j
  PROVE  /\ PlansIntake(r, m, j) => j.manifest # None
         /\ PlansOutcome(r, m, j) => j.manifest # None
         /\ PlansReview(r, m, j) => j.manifest = None
<1>1. ASSUME PlansIntake(r, m, j) PROVE j.manifest \in Manifest
  BY <1>1 DEF PlansIntake, Manifest, MapCase
<1>2. ASSUME PlansOutcome(r, m, j) PROVE j.manifest \in Manifest
  <2>1. Append(r.events, j.event) \in Seq(Event)
    BY <1>2, AppendedHistory DEF PlansOutcome
  <2> DEFINE id == Append(r.events, j.event)
  <2>2. j.manifest = MapOutcome(m, id) /\ id \in Seq(Event)
    BY <1>2, <2>1 DEF PlansOutcome
  <2> HIDE DEF id
  <2>. QED BY <2>2 DEF Manifest, MapOutcome
<1>. QED BY <1>1, <1>2, CampaignAssumption DEF PlansReview

(* A plan is a matter of the directory, the event and the new contents.    *)
LEMMA SamePlan ==
  ASSUME NEW r \in Registry, NEW m \in Manifest, NEW j, NEW k, Planned(r, m, j),
         k.dir = j.dir, k.event = j.event, k.manifest = j.manifest,
         j.manifest # None => k.registry = j.registry
  PROVE  /\ Planned(r, m, k)
         /\ NewRegistry(r, k) = NewRegistry(r, j) /\ NewManifest(m, k) = NewManifest(m, j)
<1>1. ASSUME PlansIntake(r, m, j) PROVE PlansIntake(r, m, k)
  <2>1. k.registry = j.registry
    BY <1>1, WhichPlan
  <2>. QED BY <1>1, <2>1 DEF PlansIntake
<1>2. ASSUME PlansOutcome(r, m, j) PROVE PlansOutcome(r, m, k)
  <2>1. k.registry = j.registry
    BY <1>2, WhichPlan
  <2>. QED BY <1>2, <2>1 DEF PlansOutcome
<1>3. ASSUME PlansReview(r, m, j) PROVE PlansReview(r, m, k)
  BY <1>3 DEF PlansReview
<1>4. NewRegistry(r, k) = NewRegistry(r, j) /\ NewManifest(m, k) = NewManifest(m, j)
  BY DEF NewRegistry, NewManifest
<1>. QED BY <1>1, <1>2, <1>3, <1>4 DEF Planned

(* A completed change leaves the new files as tidy as the old ones were.   *)
LEMMA KeptWhenDone ==
  ASSUME NEW r \in Registry, NEW m \in Manifest, NEW j, NEW d, NEW a, NEW n,
         Kept(r, m, d \ {j.dir}, a, n), Planned(r, m, j), j.dir \in d, Completes(r, m, j, d, n)
  PROVE  Kept(NewRegistry(r, j), NewManifest(m, j), d,
              a \cup {IF j.event = None THEN j.dir[2] ELSE j.event}, n)
<1> DEFINE x == NewRegistry(r, j)
           y == NewManifest(m, j)
<1>1. Changes(r, m, j)
  BY PlannedChanges DEF Kept
<1>2. Grounded(x, y) /\ Needed(x, y) = Needed(r, m) \cup {j.dir}
  BY <1>1 DEF Changes
<1>3. a \cup {IF j.event = None THEN j.dir[2] ELSE j.event} \subseteq Entries(x)
  BY <1>1 DEF Changes, Kept
<1>4. n = 0 => Maps(x, y) /\ Complete(x, y, d) /\ d = Needed(x, y)
  BY <1>1, <1>2 DEF Changes, Kept, Completes
<1> HIDE DEF x, y
<1>5. Needed(x, y) \subseteq d
  BY <1>2 DEF Kept
<1>. QED BY <1>2, <1>3, <1>4, <1>5 DEF Kept, x, y

-----------------------------------------------------------------------------
(* Each step of a process that is alone.                                   *)

TidyNow(o) == Tidy(pc[o], job[o], registry, manifest, dirs, acked, crashes)

Typed(o) ==
  /\ registry \in Registry /\ manifest \in Manifest /\ crashes \in Nat
  /\ job[o] \in Job /\ JobOK(pc[o], job[o])
  /\ pc[o] \in Late => job[o].oldRegistry \in Registry /\ job[o].oldManifest \in Manifest

LEMMA AllTyped ==
  ASSUME IInv, NEW o \in Operator
  PROVE  Typed(o)
<1>1. /\ registry \in Registry /\ manifest \in Manifest /\ crashes \in Nat
      /\ job[o] \in Job /\ JobOK(pc[o], job[o])
  BY Facts
<1>. QED BY <1>1 DEF Typed, JobOK, Sound

Before == Phase \ ({"idle", "reading"} \cup Late)

LEMMA Phases ==
  ASSUME NEW p, NEW j, NEW r, NEW m, NEW d, NEW a, NEW n
  PROVE  /\ p \in Before => (Tidy(p, j, r, m, d, a, n) <=> Working(p, j, r, m, d, a, n))
         /\ p \in Late => (Tidy(p, j, r, m, d, a, n) <=> Replacing(p, j, r, m, d, a, n))
         /\ p = "reading" => (Tidy(p, j, r, m, d, a, n) <=> Kept(r, m, d, a, n) /\ j.base = r)
         /\ p = "idle" => (Tidy(p, j, r, m, d, a, n) <=> Kept(r, m, d, a, n))
BY DEF Tidy, Before, Late, Phase

LEMMA BeforePhases ==
  Before = {"placing", "replaying", "staging", "rereading", "deciding", "replacing_registry",
            "cleaning"}
BY DEF Before, Late, Phase

(* A plan that is made: its directory is not there yet.                    *)
LEMMA PrepareTidy ==
  ASSUME IInv, NEW o \in Operator, Alone(o), TidyNow(o), pc[o] = "reading",
         NEW dir, NEW e, NEW r, NEW m, Prepare(o, dir, e, r, m), dir \notin dirs,
         \A j : j.dir = dir /\ j.event = e /\ j.registry = r /\ j.manifest = m
                => Planned(registry, manifest, j)
  PROVE  AloneInv'
<1> DEFINE j == [base |-> job[o].base, dir |-> dir, event |-> e, registry |-> r, manifest |-> m,
                 oldRegistry |-> None, oldManifest |-> None]
<1>1. j.dir = dir /\ j.event = e /\ j.registry = r /\ j.manifest = m
  OBVIOUS
<1>2. pc' = [pc EXCEPT ![o] = "placing"] /\ job' = [job EXCEPT ![o] = j]
  BY DEF Prepare, Goto
<1>3. UNCHANGED <<registry, manifest, dirs, acked, crashes>>
  BY DEF Prepare
<1> HIDE DEF j
<1>4. Kept(registry, manifest, dirs, acked, crashes)
  BY Phases DEF TidyNow
<1>5. dirs \ {j.dir} = dirs
  BY <1>1
<1>6. Working("placing", j, registry, manifest, dirs, acked, crashes)
  BY <1>1, <1>4, <1>5 DEF Working
<1>7. Tidy("placing", j, registry, manifest, dirs, acked, crashes)
  BY <1>6, Phases, BeforePhases
<1>8. Tidy("placing", j, registry', manifest', dirs', acked', crashes')
  BY <1>3, <1>7
<1>. QED BY <1>2, <1>8, TidyStep

LEMMA ManifestMaps ==
  ASSUME NEW m \in Manifest, NEW c, NEW id
  PROVE  /\ [m EXCEPT !.cases = @ \cup {c}] = MapCase(m, c)
         /\ [m EXCEPT !.outcomes = @ \cup {id}] = MapOutcome(m, id)
<1>1. m = [cases |-> m.cases, outcomes |-> m.outcomes]
  BY DEF Manifest
<1> DEFINE x == m.cases \cup {c}
           y == m.outcomes \cup {id}
<1> HIDE DEF x, y
<1>2. [m EXCEPT !.cases = x] = [cases |-> x, outcomes |-> m.outcomes]
  BY <1>1
<1>3. [m EXCEPT !.outcomes = y] = [cases |-> m.cases, outcomes |-> y]
  BY <1>1
<1>. QED BY <1>2, <1>3 DEF MapCase, MapOutcome, x, y

LEMMA CommandTidy ==
  ASSUME IInv, NEW o \in Operator, Alone(o), TidyNow(o), Command(o)
  PROVE  AloneInv'
<1>. USE AllTyped
<1>1. CASE Read(o)
  <2> DEFINE j == [job[o] EXCEPT !.base = registry]
  <2>1. pc' = [pc EXCEPT ![o] = "reading"] /\ job' = [job EXCEPT ![o] = j]
        /\ UNCHANGED <<registry, manifest, dirs, acked, crashes>> /\ pc[o] = "idle"
    BY <1>1 DEF Read, Goto
  <2>2. j.base = registry
    BY DEF Typed, Job
  <2> HIDE DEF j
  <2>3. Kept(registry, manifest, dirs, acked, crashes)
    BY <2>1, Phases DEF TidyNow
  <2>4. Tidy("reading", j, registry, manifest, dirs, acked, crashes)
    BY <2>2, <2>3, Phases
  <2>5. Tidy("reading", j, registry', manifest', dirs', acked', crashes')
    BY <2>1, <2>4
  <2>. QED BY <2>1, <2>5, TidyStep
<1>2. ASSUME NEW c \in Report, Intake(o, c) PROVE AloneInv'
  <2>1. /\ pc[o] = "reading" /\ CaseDir(c) \notin dirs /\ c \notin manifest.cases
        /\ \A x \in job[o].base.cases : TaskOf[x] # TaskOf[c]
        /\ Prepare(o, CaseDir(c), None, Captured(job[o].base, c),
                   [manifest EXCEPT !.cases = @ \cup {c}])
    BY <1>2 DEF Intake
  <2>2. job[o].base = registry
    BY <2>1, Phases DEF TidyNow
  <2>3. c \notin registry.cases
    BY <2>1, <2>2
  <2>4. [manifest EXCEPT !.cases = @ \cup {c}] = MapCase(manifest, c)
    BY ManifestMaps DEF Typed
  <2>5. Prepare(o, CaseDir(c), None, Captured(registry, c), MapCase(manifest, c))
    BY <2>1, <2>2, <2>4
  <2>6. \A j : j.dir = CaseDir(c) /\ j.event = None /\ j.registry = Captured(registry, c)
               /\ j.manifest = MapCase(manifest, c) => Planned(registry, manifest, j)
    BY <2>1, <2>3 DEF Planned, PlansIntake
  <2>. QED BY <2>1, <2>5, <2>6, PrepareTidy
<1>3. ASSUME NEW c \in Report, IntakeAgain(o, c) PROVE AloneInv'
  <2>1. /\ pc[o] = "reading" /\ c \in job[o].base.cases /\ Quit(o) /\ acked' = acked \cup {c}
        /\ UNCHANGED <<registry, manifest, dirs, crashes>>
    BY <1>3 DEF IntakeAgain
  <2>2. job[o].base = registry /\ Kept(registry, manifest, dirs, acked, crashes)
    BY <2>1, Phases DEF TidyNow
  <2>3. Kept(registry, manifest, dirs, acked \cup {c}, crashes)
    BY <2>1, <2>2 DEF Kept, Entries
  <2>4. Kept(registry', manifest', dirs', acked', crashes')
    BY <2>1, <2>3
  <2>. QED BY <2>1, <2>4, QuitTidy
<1>4. ASSUME NEW k \in Packet, NEW a \in Actor, NEW t \in Time, SubmitReview(o, k, a, t)
      PROVE  AloneInv'
  <2> DEFINE e == Decision(k, a, t)
  <2>1. /\ pc[o] = "reading" /\ ArchiveDir(k) \notin dirs /\ CaseOf[k] \in job[o].base.cases
        /\ Prepare(o, ArchiveDir(k), e, None, None)
    BY <1>4 DEF SubmitReview
  <2>2. job[o].base = registry /\ Kept(registry, manifest, dirs, acked, crashes)
    BY <2>1, Phases DEF TidyNow
  <2>3. e \in Event /\ e.packet = k /\ k # None
    BY EventTypes, ComparisonAssumption
  <2>4. e.case = CaseOf[k] /\ ~ IsOutcome(e)
    BY DEF Decision, IsOutcome
  <2> HIDE DEF e
  <2>5. \A i \in DOMAIN registry.events : registry.events[i].packet # k
    <3>1. ArchiveDir(k) \notin Needed(registry, manifest)
      BY <2>1, <2>2 DEF Kept
    <3>2. k \notin Packets(registry)
      BY <3>1 DEF Needed
    <3>. QED BY <2>3, <3>2 DEF Packets
  <2>6. \A j : j.dir = ArchiveDir(k) /\ j.event = e /\ j.registry = None
               /\ j.manifest = None => Planned(registry, manifest, j)
    BY <2>1, <2>2, <2>3, <2>4, <2>5 DEF Planned, PlansReview
  <2>. QED BY <2>1, <2>6, PrepareTidy
<1>5. ASSUME NEW c \in Report, NEW s \in Authority, NEW v \in Verdict, NEW a \in Actor,
             NEW t \in Time, RecordOutcome(o, c, s, v, a, t)
      PROVE  AloneInv'
  <2> DEFINE e == Outcome(c, s, v, a, t)
             id == Append(registry.events, e)
             recorded == Appended(job[o].base, e)
  <2>1. /\ pc[o] = "reading" /\ CanRecordOutcome(job[o].base, e)
        /\ OutcomeDir(recorded.events) \notin dirs /\ recorded.events \notin manifest.outcomes
        /\ Prepare(o, OutcomeDir(recorded.events), e, recorded,
                   [manifest EXCEPT !.outcomes = @ \cup {recorded.events}])
    BY <1>5 DEF RecordOutcome
  <2>2. job[o].base = registry
    BY <2>1, Phases DEF TidyNow
  <2>3. recorded = Appended(registry, e) /\ recorded.events = id
    BY <2>2 DEF Appended
  <2>4. e \in Event /\ e.packet = None
    BY EventTypes
  <2>5. IsOutcome(e)
    BY DEF Outcome, IsOutcome
  <2>6. e.case \in registry.cases
    BY <2>1, <2>2 DEF CanRecordOutcome
  <2> HIDE DEF e, id, recorded
  <2>7. [manifest EXCEPT !.outcomes = @ \cup {id}] = MapOutcome(manifest, id)
    BY ManifestMaps DEF Typed
  <2>8. Prepare(o, OutcomeDir(id), e, recorded, MapOutcome(manifest, id))
    BY <2>1, <2>3, <2>7
  <2>9. \A j : j.dir = OutcomeDir(id) /\ j.event = e /\ j.registry = recorded
               /\ j.manifest = MapOutcome(manifest, id) => Planned(registry, manifest, j)
    BY <2>1, <2>3, <2>4, <2>5, <2>6 DEF Planned, PlansOutcome, id
  <2>10. OutcomeDir(id) \notin dirs
    BY <2>1, <2>3
  <2>. QED BY <2>1, <2>8, <2>9, <2>10, PrepareTidy
<1>6. CASE Refuse(o)
  <2>1. pc[o] = "reading" /\ Quit(o) /\ UNCHANGED <<registry, manifest, dirs, acked, crashes>>
    BY <1>6 DEF Refuse
  <2>2. Kept(registry, manifest, dirs, acked, crashes)
    BY <2>1, Phases DEF TidyNow
  <2>3. Kept(registry', manifest', dirs', acked', crashes')
    BY <2>1, <2>2
  <2>. QED BY <2>1, <2>3, QuitTidy
<1>. QED BY <1>1, <1>2, <1>3, <1>4, <1>5, <1>6 DEF Command

(* A replayed intake or outcome completes.                                 *)
LEMMA ReplayCompletes ==
  ASSUME NEW o \in Operator, NEW r \in Registry, NEW m \in Manifest,
         Kept(r, m, dirs \ {job[o].dir}, acked, crashes), Planned(r, m, job[o]),
         job[o].dir \in dirs, job[o].manifest # None, Replays(o)
  PROVE  Completes(r, m, job[o], dirs, crashes)
<1> DEFINE j == job[o]
           old == dirs \ {j.dir}
<1>1. NewRegistry(r, j) = j.registry /\ NewManifest(m, j) = j.manifest
  BY DEF NewRegistry, NewManifest
<1>2. SUFFICES ASSUME crashes = 0 PROVE Complete(j.registry, j.manifest, dirs)
  BY <1>1 DEF Completes
<1>3. Complete(r, m, old)
  BY <1>2 DEF Kept
<1>4. dirs = old \cup {j.dir}
  OBVIOUS
<1>5. CASE PlansIntake(r, m, j)
  <2>1. PICK c \in Report : /\ j.dir = CaseDir(c) /\ j.registry = Captured(r, c)
                            /\ j.manifest = MapCase(m, c)
    BY <1>5 DEF PlansIntake
  <2> HIDE DEF j, old
  <2>2. Complete(Captured(r, c), MapCase(m, c), old \cup {CaseDir(c)})
    BY <1>3, IntakeCompletes
  <2>. QED BY <1>4, <2>1, <2>2
<1>6. CASE PlansOutcome(r, m, j)
  <2> DEFINE e == j.event
  <2>1. /\ e \in Event /\ IsOutcome(e) /\ j.registry = Appended(r, e)
        /\ j.manifest = MapOutcome(m, Append(r.events, e)) /\ e # None
    BY <1>6, CampaignAssumption DEF PlansOutcome
  <2>2. e.verdict \in Conclusive => OutcomeReconciled(j.registry, j.manifest, dirs, Len(j.registry.events))
    BY <2>1 DEF Replays
  <2>3. Len(j.registry.events) = Len(r.events) + 1
    BY <2>1, AppendedHistory
  <2> HIDE DEF j, e, old
  <2>4. IsConclusive(e) => OutcomeReconciled(Appended(r, e), j.manifest, dirs, Len(r.events) + 1)
    BY <2>1, <2>2, <2>3 DEF IsConclusive
  <2>5. old \subseteq dirs
    BY <1>4
  <2>. QED BY <1>3, <2>1, <2>4, <2>5, OutcomeCompletes
<1>7. ~ PlansReview(r, m, j)
  BY DEF PlansReview
<1>. QED BY <1>5, <1>6, <1>7 DEF Planned

LEMMA CommitTidy ==
  ASSUME IInv, NEW o \in Operator, Alone(o), TidyNow(o), Commit(o)
  PROVE  AloneInv'
<1>. USE AllTyped
<1> DEFINE Same == UNCHANGED <<registry, manifest, acked, crashes>>
<1>1. CASE Place(o)
  <2> DEFINE p == IF job[o].manifest = None THEN "rereading" ELSE "replaying"
  <2>1. /\ pc[o] = "placing" /\ job[o].dir \notin dirs /\ dirs' = dirs \cup {job[o].dir}
        /\ Goto(o, p) /\ job' = job /\ Same
    BY <1>1 DEF Place
  <2>2. Working("placing", job[o], registry, manifest, dirs, acked, crashes)
    BY <2>1, Phases, BeforePhases DEF TidyNow
  <2>3. dirs' \ {job[o].dir} = dirs \ {job[o].dir} /\ job[o].dir \in dirs'
    BY <2>1
  <2>4. p \in {"rereading", "replaying"}
    OBVIOUS
  <2> HIDE DEF p
  <2>5. Working(p, job[o], registry, manifest, dirs', acked, crashes)
    BY <2>2, <2>3, <2>4 DEF Working
  <2>6. Tidy(p, job[o], registry', manifest', dirs', acked', crashes')
    BY <2>1, <2>4, <2>5, Phases, BeforePhases
  <2>. QED BY <2>1, <2>6, MoveTidy
<1>2. CASE Replay(o)
  <2>1. /\ pc[o] = "replaying" /\ job' = job /\ Same /\ dirs' = dirs
        /\ IF Replays(o) THEN Goto(o, "staging") ELSE Goto(o, "cleaning")
    BY <1>2 DEF Replay
  <2>2. Working("replaying", job[o], registry, manifest, dirs, acked, crashes)
    BY <2>1, Phases, BeforePhases DEF TidyNow
  <2>3. CASE Replays(o)
    <3>1. job[o].manifest # None
      BY <2>1 DEF Typed, JobOK
    <3>2. Completes(registry, manifest, job[o], dirs, crashes)
      BY <2>2, <2>3, <3>1, ReplayCompletes DEF Working, Typed
    <3>3. Working("staging", job[o], registry, manifest, dirs, acked, crashes)
      BY <2>2, <3>2 DEF Working
    <3>4. Tidy("staging", job[o], registry', manifest', dirs', acked', crashes')
      BY <2>1, <3>3, Phases, BeforePhases
    <3>. QED BY <2>1, <2>3, <3>4, MoveTidy
  <2>4. CASE ~ Replays(o)
    <3>1. Working("cleaning", job[o], registry, manifest, dirs, acked, crashes)
      BY <2>2 DEF Working
    <3>2. Tidy("cleaning", job[o], registry', manifest', dirs', acked', crashes')
      BY <2>1, <3>1, Phases, BeforePhases
    <3>. QED BY <2>1, <2>4, <3>2, MoveTidy
  <2>. QED BY <2>3, <2>4
<1>3. CASE Stage(o)
  <2> DEFINE j == [job[o] EXCEPT !.oldRegistry = registry, !.oldManifest = manifest]
  <2>1. /\ pc[o] = "staging" /\ job' = [job EXCEPT ![o] = j] /\ dirs' = dirs /\ Same
        /\ pc' = [pc EXCEPT ![o] = "replacing_registry"]
    BY <1>3 DEF Stage, Goto
  <2>2. /\ j.dir = job[o].dir /\ j.event = job[o].event /\ j.registry = job[o].registry
        /\ j.manifest = job[o].manifest /\ j.oldRegistry = registry /\ j.oldManifest = manifest
    BY DEF Typed, Job
  <2> HIDE DEF j
  <2>3. Working("staging", job[o], registry, manifest, dirs, acked, crashes)
    BY <2>1, Phases, BeforePhases DEF TidyNow
  <2>4. /\ Planned(registry, manifest, j)
        /\ NewRegistry(registry, j) = NewRegistry(registry, job[o])
        /\ NewManifest(manifest, j) = NewManifest(manifest, job[o])
    BY <2>2, <2>3, SamePlan DEF Working, Typed
  <2>5. j.registry = NewRegistry(registry, j)
    BY <2>1, <2>2 DEF Typed, JobOK, NewRegistry
  <2>6. Completes(registry, manifest, j, dirs, crashes)
    BY <2>3, <2>4 DEF Working, Completes
  <2>7. Working("replacing_registry", j, registry, manifest, dirs, acked, crashes)
    BY <2>2, <2>3, <2>4, <2>5, <2>6 DEF Working
  <2>8. Tidy("replacing_registry", j, registry', manifest', dirs', acked', crashes')
    BY <2>1, <2>7, Phases, BeforePhases
  <2>. QED BY <2>1, <2>8, TidyStep
<1>4. CASE ReRead(o)
  <2> DEFINE j == [job[o] EXCEPT !.base = registry]
  <2>1. /\ pc[o] = "rereading" /\ job' = [job EXCEPT ![o] = j] /\ dirs' = dirs /\ Same
        /\ pc' = [pc EXCEPT ![o] = "deciding"]
    BY <1>4 DEF ReRead, Goto
  <2>2. /\ j.dir = job[o].dir /\ j.event = job[o].event /\ j.registry = job[o].registry
        /\ j.manifest = job[o].manifest /\ j.base = registry
    BY DEF Typed, Job
  <2> HIDE DEF j
  <2>3. Working("rereading", job[o], registry, manifest, dirs, acked, crashes)
    BY <2>1, Phases, BeforePhases DEF TidyNow
  <2>4. Planned(registry, manifest, j)
    BY <2>2, <2>3, SamePlan DEF Working, Typed
  <2>5. Working("deciding", j, registry, manifest, dirs, acked, crashes)
    BY <2>2, <2>3, <2>4 DEF Working
  <2>6. Tidy("deciding", j, registry', manifest', dirs', acked', crashes')
    BY <2>1, <2>5, Phases, BeforePhases
  <2>. QED BY <2>1, <2>6, TidyStep
<1>5. CASE Decide(o)
  <2>1. pc[o] = "deciding" /\ dirs' = dirs /\ Same
    BY <1>5 DEF Decide
  <2>2. Working("deciding", job[o], registry, manifest, dirs, acked, crashes)
    BY <2>1, Phases, BeforePhases DEF TidyNow
  <2>3. job[o].manifest = None
    BY <2>1 DEF Typed, JobOK
  <2>4. CASE CanRecordReview(job[o].base, job[o].event)
    <3> DEFINE new == Appended(registry, job[o].event)
               j == [job[o] EXCEPT !.registry = new]
    <3>1. job[o].base = registry
      BY <2>2 DEF Working
    <3>2. job' = [job EXCEPT ![o] = j] /\ pc' = [pc EXCEPT ![o] = "replacing_registry"]
      BY <1>5, <2>4, <3>1 DEF Decide, Goto
    <3>3. Complete(new, manifest, dirs)
      BY <2>4, <3>1 DEF CanRecordReview
    <3> HIDE DEF new
    <3>4. /\ j.dir = job[o].dir /\ j.event = job[o].event /\ j.registry = new
          /\ j.manifest = None
      BY <2>3 DEF Typed, Job
    <3> HIDE DEF j
    <3>5. Planned(registry, manifest, j)
      BY <2>2, <2>3, <3>4, SamePlan DEF Working, Typed
    <3>6. NewRegistry(registry, j) = new /\ NewManifest(manifest, j) = manifest
      BY <3>4 DEF NewRegistry, NewManifest, new
    <3>7. Completes(registry, manifest, j, dirs, crashes)
      BY <3>3, <3>6 DEF Completes
    <3>8. Working("replacing_registry", j, registry, manifest, dirs, acked, crashes)
      BY <2>2, <3>4, <3>5, <3>6, <3>7 DEF Working
    <3>9. Tidy("replacing_registry", j, registry', manifest', dirs', acked', crashes')
      BY <2>1, <3>8, Phases, BeforePhases
    <3>. QED BY <3>2, <3>9, TidyStep
  <2>5. CASE ~ CanRecordReview(job[o].base, job[o].event)
    <3>1. Working("cleaning", job[o], registry, manifest, dirs, acked, crashes)
      BY <2>2 DEF Working
    <3>2. Tidy("cleaning", job[o], registry', manifest', dirs', acked', crashes')
      BY <2>1, <3>1, Phases, BeforePhases
    <3>. QED BY <1>5, <2>5, <3>2, MoveTidy DEF Decide
  <2>. QED BY <2>4, <2>5
<1>6. CASE ReplaceRegistry(o)
  <2>1. /\ pc[o] = "replacing_registry" /\ registry' = job[o].registry
        /\ UNCHANGED <<manifest, dirs, crashes>>
    BY <1>6 DEF ReplaceRegistry
  <2>2. Working("replacing_registry", job[o], registry, manifest, dirs, acked, crashes)
    BY <2>1, Phases, BeforePhases DEF TidyNow
  <2>3. CASE job[o].manifest = None
    <3>1. Quit(o) /\ acked' = acked \cup Claim(o)
      BY <1>6, <2>3 DEF ReplaceRegistry, ReportDone
    <3>2. Kept(NewRegistry(registry, job[o]), NewManifest(manifest, job[o]), dirs,
               acked \cup Claim(o), crashes)
      BY <2>2, KeptWhenDone DEF Working, Claim, Typed
    <3>3. registry' = NewRegistry(registry, job[o]) /\ manifest = NewManifest(manifest, job[o])
      BY <2>1, <2>2, <2>3 DEF Working, NewManifest
    <3>4. Kept(registry', manifest', dirs', acked', crashes')
      BY <2>1, <3>1, <3>2, <3>3
    <3>. QED BY <3>1, <3>4, QuitTidy
  <2>4. CASE job[o].manifest # None
    <3>1. Goto(o, "replacing_manifest") /\ job' = job /\ acked' = acked
      BY <1>6, <2>4 DEF ReplaceRegistry
    <3>2. job[o].oldRegistry = registry /\ job[o].oldManifest = manifest
      BY <2>2, <2>4 DEF Working
    <3>3. Replacing("replacing_manifest", job[o], registry', manifest', dirs', acked', crashes')
      BY <2>1, <2>2, <3>1, <3>2 DEF Working, Replacing
    <3>4. Tidy("replacing_manifest", job[o], registry', manifest', dirs', acked', crashes')
      BY <3>3, Phases DEF Late
    <3>. QED BY <3>1, <3>4, MoveTidy
  <2>. QED BY <2>3, <2>4
<1>7. CASE ReplaceManifest(o)
  <2>1. /\ pc[o] = "replacing_manifest" /\ manifest' = job[o].manifest /\ Goto(o, "checking")
        /\ UNCHANGED <<registry, dirs, job, acked, crashes>>
    BY <1>7 DEF ReplaceManifest
  <2>2. Replacing("replacing_manifest", job[o], registry, manifest, dirs, acked, crashes)
    BY <2>1, Phases DEF TidyNow, Late
  <2>3. Replacing("checking", job[o], registry', manifest', dirs', acked', crashes')
    BY <2>1, <2>2 DEF Replacing
  <2>4. Tidy("checking", job[o], registry', manifest', dirs', acked', crashes')
    BY <2>3, Phases DEF Late
  <2>. QED BY <2>1, <2>4, MoveTidy
<1>8. CASE Check(o)
  <2>1. /\ pc[o] = "checking" /\ Quit(o) /\ acked' = acked \cup Claim(o)
        /\ UNCHANGED <<registry, manifest, dirs, crashes>>
    BY <1>8 DEF Check, ReportDone
  <2> DEFINE r == job[o].oldRegistry
             m == job[o].oldManifest
  <2>2. Replacing("checking", job[o], registry, manifest, dirs, acked, crashes)
    BY <2>1, Phases DEF TidyNow, Late
  <2>3. r \in Registry /\ m \in Manifest /\ job[o].manifest # None
    BY <2>1 DEF Typed, JobOK, Late
  <2>4. registry = NewRegistry(r, job[o]) /\ manifest = NewManifest(m, job[o])
    BY <2>2, <2>3 DEF Replacing, NewRegistry, NewManifest
  <2> HIDE DEF r, m
  <2>5. Kept(NewRegistry(r, job[o]), NewManifest(m, job[o]), dirs, acked \cup Claim(o), crashes)
    BY <2>2, <2>3, KeptWhenDone DEF Replacing, Claim, r, m
  <2>6. Kept(registry', manifest', dirs', acked', crashes')
    BY <2>1, <2>4, <2>5
  <2>. QED BY <2>1, <2>6, QuitTidy
<1>. QED BY <1>1, <1>2, <1>3, <1>4, <1>5, <1>6, <1>7, <1>8 DEF Commit

(* What is removed with a directory is not needed by the files that count. *)
LEMMA CleanKeeps ==
  ASSUME NEW r \in Registry, NEW m \in Manifest, NEW j, NEW d, NEW a, NEW n,
         Kept(r, m, d \ {j.dir}, a, n), Planned(r, m, j)
  PROVE  Kept(r, m, d \ ({j.dir} \cup
                (IF j.dir[1] = "case" THEN {x \in d : DirCase(x) = j.dir[2]} ELSE {})), a, n)
<1> DEFINE below == IF j.dir[1] = "case" THEN {x \in d : DirCase(x) = j.dir[2]} ELSE {}
<1>1. \A x \in Needed(r, m) : x \notin below
  <2>1. CASE PlansIntake(r, m, j)
    <3>1. PICK c : c \notin r.cases /\ c \notin m.cases /\ j.dir = CaseDir(c)
      BY <2>1 DEF PlansIntake
    <3>2. j.dir[2] = c
      BY <3>1 DEF CaseDir
    <3>3. \A x \in Needed(r, m) : DirCase(x) # c
      BY <3>1, NothingBelow DEF Kept
    <3>. QED BY <3>2, <3>3
  <2>2. CASE PlansOutcome(r, m, j)
    <3>1. j.dir = OutcomeDir(Append(r.events, j.event))
      BY <2>2 DEF PlansOutcome
    <3>2. j.dir[1] = "outcome"
      BY <3>1 DEF OutcomeDir
    <3>. QED BY <3>2
  <2>3. CASE PlansReview(r, m, j)
    <3>1. j.dir[1] = "archive"
      BY <2>3 DEF PlansReview, ArchiveDir
    <3>. QED BY <3>1
  <2>. QED BY <2>1, <2>2, <2>3 DEF Planned
<1> DEFINE left == d \ ({j.dir} \cup below)
<1>2. left \subseteq d \ {j.dir}
  OBVIOUS
<1>3. Needed(r, m) \subseteq left
  BY <1>1 DEF Kept
<1>4. n = 0 => left = d \ {j.dir}
  BY <1>2, <1>3 DEF Kept
<1> HIDE DEF left
<1>5. Kept(r, m, left, a, n)
  BY <1>3, <1>4 DEF Kept
<1>. QED BY <1>5 DEF left

LEMMA UndoTidy ==
  ASSUME IInv, NEW o \in Operator, Alone(o), TidyNow(o), Undo(o)
  PROVE  AloneInv'
<1>. USE AllTyped
<1> DEFINE Same == UNCHANGED <<registry, manifest, dirs, acked, crashes>>
<1>1. CASE Fail(o)
  <2>1. pc[o] \in Before /\ Same /\ GiveUp(o) /\ pc[o] # "cleaning"
    BY <1>1, BeforePhases DEF Fail
  <2>2. Working(pc[o], job[o], registry, manifest, dirs, acked, crashes)
    BY <2>1, Phases DEF TidyNow
  <2>3. CASE pc[o] = "placing" /\ Quit(o)
    <3>1. dirs \ {job[o].dir} = dirs
      BY <2>2, <2>3 DEF Working
    <3>2. Kept(registry, manifest, dirs, acked, crashes)
      BY <2>2, <3>1 DEF Working
    <3>3. Kept(registry', manifest', dirs', acked', crashes')
      BY <2>1, <3>2
    <3>. QED BY <2>3, <3>3, QuitTidy
  <2>4. CASE Goto(o, "cleaning") /\ job' = job
    <3>1. Working("cleaning", job[o], registry, manifest, dirs, acked, crashes)
      BY <2>2 DEF Working
    <3>2. Tidy("cleaning", job[o], registry', manifest', dirs', acked', crashes')
      BY <2>1, <3>1, Phases, BeforePhases
    <3>. QED BY <2>4, <3>2, MoveTidy
  <2>. QED BY <2>1, <2>3, <2>4 DEF GiveUp
<1>2. CASE FailLate(o)
  <2>1. Same /\ job' = job
    BY <1>2 DEF FailLate
  <2>2. CASE pc[o] = "replacing_manifest" /\ Goto(o, "restoring_registry")
    <3>1. Replacing("replacing_manifest", job[o], registry, manifest, dirs, acked, crashes)
      BY <2>2, Phases DEF TidyNow, Late
    <3>2. Replacing("restoring_registry", job[o], registry, manifest, dirs, acked, crashes)
      BY <3>1 DEF Replacing
    <3>3. Tidy("restoring_registry", job[o], registry', manifest', dirs', acked', crashes')
      BY <2>1, <3>2, Phases DEF Late
    <3>. QED BY <2>1, <2>2, <3>3, MoveTidy
  <2>3. CASE pc[o] = "checking" /\ Goto(o, "restoring_both")
    <3>1. Replacing("checking", job[o], registry, manifest, dirs, acked, crashes)
      BY <2>3, Phases DEF TidyNow, Late
    <3>2. Replacing("restoring_both", job[o], registry, manifest, dirs, acked, crashes)
      BY <3>1 DEF Replacing
    <3>3. Tidy("restoring_both", job[o], registry', manifest', dirs', acked', crashes')
      BY <2>1, <3>2, Phases DEF Late
    <3>. QED BY <2>1, <2>3, <3>3, MoveTidy
  <2>. QED BY <1>2, <2>2, <2>3 DEF FailLate
<1>3. CASE RestoreRegistry(o)
  <2>1. /\ registry' = job[o].oldRegistry /\ UNCHANGED <<manifest, dirs, job, acked, crashes>>
        /\ pc[o] \in Late
    BY <1>3 DEF RestoreRegistry, Late
  <2>2. Replacing(pc[o], job[o], registry, manifest, dirs, acked, crashes)
    BY <2>1, Phases DEF TidyNow
  <2>3. CASE pc[o] = "restoring_both" /\ Goto(o, "restoring_manifest")
    <3>1. Replacing("restoring_manifest", job[o], registry', manifest', dirs', acked', crashes')
      BY <2>1, <2>2, <2>3 DEF Replacing
    <3>2. Tidy("restoring_manifest", job[o], registry', manifest', dirs', acked', crashes')
      BY <3>1, Phases DEF Late
    <3>. QED BY <2>1, <2>3, <3>2, MoveTidy
  <2>4. CASE pc[o] = "restoring_registry" /\ Goto(o, "cleaning")
    <3>1. Working("cleaning", job[o], registry', manifest', dirs', acked', crashes')
      BY <2>1, <2>2, <2>4 DEF Replacing, Working
    <3>2. Tidy("cleaning", job[o], registry', manifest', dirs', acked', crashes')
      BY <3>1, Phases, BeforePhases
    <3>. QED BY <2>1, <2>4, <3>2, MoveTidy
  <2>. QED BY <1>3, <2>3, <2>4 DEF RestoreRegistry
<1>4. CASE RestoreManifest(o)
  <2>1. /\ pc[o] = "restoring_manifest" /\ manifest' = job[o].oldManifest /\ Goto(o, "cleaning")
        /\ UNCHANGED <<registry, dirs, job, acked, crashes>>
    BY <1>4 DEF RestoreManifest
  <2>2. Replacing("restoring_manifest", job[o], registry, manifest, dirs, acked, crashes)
    BY <2>1, Phases DEF TidyNow, Late
  <2>3. Working("cleaning", job[o], registry', manifest', dirs', acked', crashes')
    BY <2>1, <2>2 DEF Replacing, Working
  <2>4. Tidy("cleaning", job[o], registry', manifest', dirs', acked', crashes')
    BY <2>3, Phases, BeforePhases
  <2>. QED BY <2>1, <2>4, MoveTidy
<1>5. CASE Clean(o)
  <2> DEFINE removed == {job[o].dir} \cup
               (IF job[o].dir[1] = "case" THEN {x \in dirs : DirCase(x) = job[o].dir[2]} ELSE {})
  <2>1. /\ pc[o] = "cleaning" /\ dirs' = dirs \ removed /\ Quit(o)
        /\ UNCHANGED <<registry, manifest, acked, crashes>>
    BY <1>5 DEF Clean
  <2>2. Working("cleaning", job[o], registry, manifest, dirs, acked, crashes)
    BY <2>1, Phases, BeforePhases DEF TidyNow
  <2>3. Kept(registry, manifest, dirs \ removed, acked, crashes)
    BY <2>2, CleanKeeps DEF Working, Typed
  <2> HIDE DEF removed
  <2>4. Kept(registry', manifest', dirs', acked', crashes')
    BY <2>1, <2>3
  <2>. QED BY <2>1, <2>4, QuitTidy
<1>. QED BY <1>1, <1>2, <1>3, <1>4, <1>5 DEF Undo

(* The files at every point of a command.                                  *)
LEMMA TidyFiles ==
  ASSUME IInv, NEW o \in Operator, TidyNow(o)
  PROVE  /\ Grounded(registry, manifest) /\ Needed(registry, manifest) \subseteq dirs
         /\ acked \subseteq Entries(registry)
<1>. USE AllTyped
<1>1. CASE pc[o] \in {"idle", "reading"}
  BY <1>1, Phases DEF TidyNow, Kept
<1>2. CASE pc[o] \in Before
  <2>1. Working(pc[o], job[o], registry, manifest, dirs, acked, crashes)
    BY <1>2, Phases DEF TidyNow
  <2>. QED BY <2>1 DEF Working, Kept
<1>3. CASE pc[o] \in Late
  <2> DEFINE r == job[o].oldRegistry
             m == job[o].oldManifest
  <2>1. Replacing(pc[o], job[o], registry, manifest, dirs, acked, crashes)
    BY <1>3, Phases DEF TidyNow
  <2>2. r \in Registry /\ m \in Manifest /\ job[o].manifest # None
    BY <1>3 DEF Typed, JobOK
  <2>3. registry \in {r, NewRegistry(r, job[o])} /\ manifest \in {m, NewManifest(m, job[o])}
    BY <2>1, <2>2 DEF Replacing, NewRegistry, NewManifest
  <2>4. Kept(r, m, dirs \ {job[o].dir}, acked, crashes) /\ Planned(r, m, job[o]) /\ job[o].dir \in dirs
    BY <2>1 DEF Replacing
  <2> HIDE DEF r, m
  <2>5. Changes(r, m, job[o])
    BY <2>2, <2>4, PlannedChanges DEF Kept
  <2>6. /\ Grounded(registry, manifest)
        /\ Needed(registry, manifest) \subseteq Needed(r, m) \cup {job[o].dir}
        /\ Entries(r) \subseteq Entries(registry)
    BY <2>3, <2>5 DEF Changes
  <2>. QED BY <2>4, <2>6 DEF Kept
<1>4. pc[o] \in Phase
  BY Facts
<1>. QED BY <1>1, <1>2, <1>3, <1>4 DEF Before

LEMMA CrashTidy ==
  ASSUME IInv, NEW o \in Operator, Alone(o), TidyNow(o), Crash(o)
  PROVE  AloneInv'
<1>1. Quit(o) /\ crashes' = crashes + 1 /\ UNCHANGED <<registry, manifest, dirs, acked>>
  BY DEF Crash
<1>2. crashes + 1 # 0
  BY AllTyped DEF Typed
<1>3. Kept(registry, manifest, dirs, acked, crashes + 1)
  BY <1>2, TidyFiles DEF Kept
<1>4. Kept(registry', manifest', dirs', acked', crashes')
  BY <1>1, <1>3
<1>. QED BY <1>1, <1>4, QuitTidy

-----------------------------------------------------------------------------
(* The next-state relation.                                                *)

(* Every step moves one process to another phase.                          *)
LEMMA StepMoves ==
  ASSUME IInv, NEW o \in Operator, Command(o) \/ Commit(o) \/ Undo(o) \/ Crash(o)
  PROVE  /\ pc'[o] # pc[o]
         /\ \A q \in Operator \ {o} : pc'[q] = pc[q]
         /\ pc[o] = "idle" => Read(o)
<1>. USE DEF Goto, Quit
<1>0. pc \in [Operator -> Phase]
  BY DEF IInv, TypeOK
<1>1. CASE Command(o)
  <2>1. \E p \in {"reading", "placing", "idle"} : Goto(o, p) /\ p # pc[o]
    <3>1. CASE Read(o)
      BY <3>1 DEF Read
    <3>2. ASSUME NEW c \in Report, Intake(o, c) \/ IntakeAgain(o, c)
          PROVE  \E p \in {"reading", "placing", "idle"} : Goto(o, p) /\ p # pc[o]
      BY <3>2 DEF Intake, IntakeAgain, Prepare
    <3>3. ASSUME NEW k \in Packet, NEW a \in Actor, NEW t \in Time, SubmitReview(o, k, a, t)
          PROVE  \E p \in {"reading", "placing", "idle"} : Goto(o, p) /\ p # pc[o]
      BY <3>3 DEF SubmitReview, Prepare
    <3>4. ASSUME NEW c \in Report, NEW s \in Authority, NEW v \in Verdict, NEW a \in Actor,
                 NEW t \in Time, RecordOutcome(o, c, s, v, a, t)
          PROVE  \E p \in {"reading", "placing", "idle"} : Goto(o, p) /\ p # pc[o]
      BY <3>4 DEF RecordOutcome, Prepare
    <3>5. CASE Refuse(o)
      BY <3>5 DEF Refuse
    <3>. QED BY <1>1, <3>1, <3>2, <3>3, <3>4, <3>5 DEF Command
  <2>2. pc[o] = "idle" => Read(o)
    BY <1>1 DEF Command, Intake, IntakeAgain, SubmitReview, RecordOutcome, Refuse
  <2>. QED BY <1>0, <1>1, <2>1, <2>2
<1>2. CASE Commit(o)
  BY <1>0, <1>2 DEF Commit, Place, Replay, Stage, ReRead, Decide, ReplaceRegistry, ReportDone,
       ReplaceManifest, Check
<1>3. CASE Undo(o)
  BY <1>0, <1>3 DEF Undo, Fail, GiveUp, FailLate, RestoreRegistry, RestoreManifest, Clean
<1>4. CASE Crash(o)
  BY <1>0, <1>4 DEF Crash
<1>. QED BY <1>1, <1>2, <1>3, <1>4

LEMMA OverlapInitIInv == OverlapInit => OverlapIInv
<1> SUFFICES ASSUME OverlapInit PROVE OverlapIInv
  OBVIOUS
<1>1. IInv /\ overlapped = FALSE
  BY InitIInv DEF OverlapInit
<1>2. \A o \in Operator : pc[o] = "idle"
  BY DEF OverlapInit, Init
<1>3. Kept(registry, manifest, dirs, acked, crashes)
  <2>1. /\ registry = EmptyRegistry /\ manifest = EmptyManifest /\ dirs = {} /\ acked = {}
    BY DEF OverlapInit, Init
  <2>2. /\ registry.cases = {} /\ registry.events = <<>> /\ DOMAIN registry.events = {}
        /\ manifest.cases = {} /\ manifest.outcomes = {}
    BY <2>1 DEF EmptyRegistry, EmptyManifest
  <2>3. OutcomeIds(registry) = {} /\ Packets(registry) = {}
    BY <2>2 DEF OutcomeIds, Packets
  <2>4. Needed(registry, manifest) = {}
    BY <2>2, <2>3 DEF Needed
  <2>5. Grounded(registry, manifest) /\ Maps(registry, manifest) /\ Complete(registry, manifest, dirs)
    BY <2>2, <2>3 DEF Grounded, Maps, Complete
  <2>. QED BY <2>1, <2>4, <2>5 DEF Kept
<1>4. AloneInv
  BY <1>2, <1>3 DEF AloneInv, Overlapping
<1>. QED BY <1>1, <1>4 DEF OverlapIInv

LEMMA OverlapNextIInv == OverlapIInv /\ [OverlapNext]_<<vars, overlapped>> => OverlapIInv'
<1> SUFFICES ASSUME OverlapIInv, [OverlapNext]_<<vars, overlapped>> PROVE OverlapIInv'
  OBVIOUS
<1>1. IInv'
  BY NextIInv DEF OverlapIInv, OverlapNext
<1>2. overlapped' \in BOOLEAN
  BY DEF OverlapIInv, OverlapNext
<1>3. ASSUME ~ overlapped' PROVE AloneInv'
  <2>1. CASE UNCHANGED <<vars, overlapped>>
    BY <1>3, <2>1 DEF OverlapIInv, AloneInv, Overlapping, Quiescent, vars
  <2>2. CASE OverlapNext
    <3>1. IInv /\ AloneInv /\ ~ Overlapping'
      BY <1>3, <2>2 DEF OverlapNext, OverlapIInv
    <3>2. PICK o \in Operator : Command(o) \/ Commit(o) \/ Undo(o) \/ Crash(o)
      BY <2>2 DEF OverlapNext, Next
    <3>3. Alone(o) /\ TidyNow(o)
      BY <3>1, <3>2, StepMoves, OnlyOne DEF TidyNow
    <3>. QED BY <3>1, <3>2, <3>3, CommandTidy, CommitTidy, UndoTidy, CrashTidy
  <2>. QED BY <2>1, <2>2
<1>. QED BY <1>1, <1>2, <1>3 DEF OverlapIInv

(* The invariant of a process that is alone holds of every behavior.       *)
THEOREM OverlapInvariance == OverlapSpec => []OverlapIInv
<1>. QED BY OverlapInitIInv, OverlapNextIInv, PTL DEF OverlapSpec

(* One process at a time, without a crash: every command is all or         *)
(* nothing.                                                                *)
THEOREM CommandsAreWhole == OverlapSpec => []AloneWholeOrNothing
<1>1. OverlapIInv => AloneWholeOrNothing
  <2> SUFFICES ASSUME OverlapIInv, ~ overlapped, Quiescent, crashes = 0
               PROVE  /\ manifest.cases = registry.cases
                      /\ manifest.outcomes = OutcomeIds(registry)
                      /\ dirs = {CaseDir(c) : c \in registry.cases}
                                \cup {OutcomeDir(id) : id \in OutcomeIds(registry)}
                                \cup {ArchiveDir(k) : k \in Packets(registry)}
                      /\ Complete(registry, manifest, dirs)
    BY DEF AloneWholeOrNothing, WholeOrNothing, Packets
  <2>1. Kept(registry, manifest, dirs, acked, crashes)
    BY DEF OverlapIInv, AloneInv
  <2>2. Maps(registry, manifest) /\ dirs = Needed(registry, manifest) /\ Complete(registry, manifest, dirs)
    BY <2>1 DEF Kept
  <2>. QED BY <2>2 DEF Maps, Needed
<1>. QED BY <1>1, OverlapInvariance, PTL

(* One process at a time, with errors, rollbacks and crashes: what was     *)
(* reported and the evidence behind what is mapped or decided stay.        *)
THEOREM ReportsAndEvidenceStay == OverlapSpec => []AloneReportedStays
<1>1. OverlapIInv => AloneReportedStays
  <2> SUFFICES ASSUME OverlapIInv, ~ overlapped PROVE ReportedStays /\ EvidenceStays
    BY DEF AloneReportedStays
  <2>1. IInv /\ AloneInv
    BY DEF OverlapIInv
  <2>2. Needed(registry, manifest) \subseteq dirs /\ acked \subseteq Entries(registry)
    <3>1. CASE Quiescent
      BY <2>1, <3>1 DEF AloneInv, Kept
    <3>2. CASE ~ Quiescent
      <4>1. PICK o \in Operator : pc[o] # "idle"
        BY <3>2 DEF Quiescent
      <4>2. TidyNow(o)
        BY <2>1, <4>1 DEF AloneInv, TidyNow
      <4>. QED BY <2>1, <4>2, TidyFiles
    <3>. QED BY <3>1, <3>2
  <2>3. ReportedStays
    BY <2>2 DEF ReportedStays, Entries
  <2>4. EvidenceStays
    BY <2>2 DEF EvidenceStays, DecisionsAreArchived, Needed, Packets
  <2>. QED BY <2>3, <2>4
<1>. QED BY <1>1, OverlapInvariance, PTL
=============================================================================
