-------------------------- MODULE DefectLedgerProofs --------------------------
(***************************************************************************)
(* Proofs about DefectLedger, for any number of writers, importers, runs,  *)
(* defects, findings, artifacts and seconds, and any number of events.     *)
(*                                                                         *)
(* Writers may destroy each other's registry files, so nothing is known of *)
(* the registry. What protects the database is that a registry is          *)
(* validated when it is read for a projection, and that the transaction    *)
(* looks everything up: the invariant says it of the database and of every *)
(* database a rebuild is making.                                           *)
(*                                                                         *)
(* The lists of events need lemmas about insertion: where the old events   *)
(* go, and what that does to the status before each of them. With one      *)
(* writer the registry file is never torn, and a second invariant follows  *)
(* a link from the computed registry to the file and the database.         *)
(***************************************************************************)
EXTENDS DefectLedger, SequenceTheorems, WellFoundedInduction, TLAPS

(* What holds of a ledger, the committed one or one being built. *)
LedgerOK(l) ==
  l.book # None =>
    /\ CanProject(l, l.book)
    /\ \A d \in Defect : l.book.status[d] = "CLOSED" => HasResolutionEvidence(l.book, d)

JobOK(phase, j) ==
  /\ phase = "deciding" => j.base # None /\ Valid(j.base)
  /\ phase \in {"opening", "writing", "moving"} => j.registry # None
  /\ phase = "projecting" => j.book # None
  /\ phase = "importing" => j.run # None
  /\ phase \in {"building", "verifying", "swapping"} => j.build # None
  /\ j.book # None => Valid(j.book)
  /\ j.build # None => LedgerOK(j.build)

IInv ==
  /\ TypeOK
  /\ LedgerOK(ledger)
  /\ \A p \in Process : JobOK(pc[p], job[p])

-----------------------------------------------------------------------------
(* The commands' computations yield registries.                            *)

LEMMA InsertTyped ==
  ASSUME NEW s \in Seq(Event), NEW e \in Event, NEW i \in 0 .. Len(s)
  PROVE  Insert(s, i, e) \in Seq(Event)
<1>1. Len(s) \in Nat /\ \A k \in 1 .. Len(s) : s[k] \in Event
  BY ElementOfSeq
<1>2. SubSeq(s, 1, i) \in Seq(Event)
  BY <1>1, SubSeqProperties
<1>3. SubSeq(s, i + 1, Len(s)) \in Seq(Event)
  BY <1>1, SubSeqProperties
<1>4. <<e>> \in Seq(Event)
  OBVIOUS
<1>5. SubSeq(s, 1, i) \o <<e>> \in Seq(Event)
  BY <1>2, <1>4, ConcatProperties
<1>. QED
  BY <1>3, <1>5, ConcatProperties DEF Insert

LEMMA SortedTyped ==
  ASSUME NEW s \in Seq(Event), NEW e \in Event
  PROVE  Sorted(s, e) \subseteq Seq(Event)
BY InsertTyped DEF Sorted

LEMMA EventsTyped ==
  /\ \A d \in Defect, t \in Clock, y \in Reason : CreatedEvent(d, t, y) \in Event
  /\ \A d \in Defect, f \in Finding, t \in Clock : FindingEvent(d, f, t) \in Event
  /\ \A d \in Defect, a \in Artifact, x \in Relation, t \in Clock :
       ArtifactEvent(d, a, x, t) \in Event
  /\ \A r \in Registry, d \in Defect, to \in Status, t \in Clock, y \in Reason :
       TransitionEvent(r, d, to, t, y) \in Event
<1>1. Clock \subseteq Nat
  BY DefectAssumption
<1>2. \A d \in Defect, t \in Clock, y \in Reason : CreatedEvent(d, t, y) \in Event
  BY <1>1 DEF CreatedEvent, Event, EventType, Status
<1>3. \A d \in Defect, f \in Finding, t \in Clock : FindingEvent(d, f, t) \in Event
  BY <1>1 DEF FindingEvent, Event, EventType
<1>4. \A d \in Defect, a \in Artifact, x \in Relation, t \in Clock :
        ArtifactEvent(d, a, x, t) \in Event
  BY <1>1 DEF ArtifactEvent, Event, EventType
<1>5. \A r \in Registry, d \in Defect, to \in Status, t \in Clock, y \in Reason :
        TransitionEvent(r, d, to, t, y) \in Event
  BY <1>1 DEF TransitionEvent, Event, EventType, Registry
<1>. QED
  BY <1>2, <1>3, <1>4, <1>5

LEMMA ComputedTyped ==
  ASSUME NEW r \in Registry, NEW e \in Event, NEW d \in Defect
  PROVE  /\ Created(r, d, e) \subseteq Registry
         /\ \A f \in Finding : FindingLinked(r, d, f, e) \subseteq Registry
         /\ \A a \in Artifact, x \in Relation : ArtifactLinked(r, d, a, x, e) \subseteq Registry
         /\ \A to \in Status : Transitioned(r, d, to, e) \subseteq Registry
<1>1. Sorted(r.events, e) \subseteq Seq(Event)
  BY SortedTyped DEF Registry
<1>2. Created(r, d, e) \subseteq Registry
  <2>. SUFFICES ASSUME NEW n \in Created(r, d, e) PROVE n \in Registry
    OBVIOUS
  <2>1. PICK s \in Sorted(r.events, e) :
          n = [status |-> [r.status EXCEPT ![d] = "OBSERVED"], resolved |-> r.resolved,
               findings |-> r.findings, artifacts |-> r.artifacts, events |-> s]
    BY DEF Created, Registry
  <2>. QED
    BY <1>1, <2>1 DEF Registry, Status
<1>3. ASSUME NEW f \in Finding PROVE FindingLinked(r, d, f, e) \subseteq Registry
  <2>. SUFFICES ASSUME NEW n \in FindingLinked(r, d, f, e) PROVE n \in Registry
    OBVIOUS
  <2>1. PICK s \in Sorted(r.events, e) :
          n = [status |-> r.status, resolved |-> r.resolved,
               findings |-> r.findings \cup {<<f, d>>}, artifacts |-> r.artifacts, events |-> s]
    BY DEF FindingLinked, Registry
  <2>. QED
    BY <1>1, <2>1 DEF Registry, FindingLink
<1>4. ASSUME NEW a \in Artifact, NEW x \in Relation
      PROVE  ArtifactLinked(r, d, a, x, e) \subseteq Registry
  <2>. SUFFICES ASSUME NEW n \in ArtifactLinked(r, d, a, x, e) PROVE n \in Registry
    OBVIOUS
  <2>1. PICK s \in Sorted(r.events, e) :
          n = [status |-> r.status, resolved |-> r.resolved,
               findings |-> r.findings, artifacts |-> r.artifacts \cup {<<d, a, x>>}, events |-> s]
    BY DEF ArtifactLinked, Registry
  <2>. QED
    BY <1>1, <2>1 DEF Registry, ArtifactLink
<1>5. ASSUME NEW to \in Status PROVE Transitioned(r, d, to, e) \subseteq Registry
  <2>. SUFFICES ASSUME NEW n \in Transitioned(r, d, to, e) PROVE n \in Registry
    OBVIOUS
  <2>1. PICK s \in Sorted(r.events, e) :
          n = [status |-> [r.status EXCEPT ![d] = to], resolved |-> IF to = "CLOSED" THEN r.resolved \cup {d} ELSE r.resolved,
               findings |-> r.findings, artifacts |-> r.artifacts, events |-> s]
    BY DEF Transitioned, Registry
  <2>. QED
    BY <1>1, <2>1 DEF Registry
<1>. QED
  BY <1>2, <1>3, <1>4, <1>5

-----------------------------------------------------------------------------
(* What a transaction does to a ledger.                                    *)

LEMMA EmptyLedgerOK == EmptyLedger \in Ledger /\ LedgerOK(EmptyLedger)
BY DEF EmptyLedger, Ledger, LedgerOK

LEMMA ImportOK ==
  ASSUME NEW l \in Ledger, LedgerOK(l), NEW r \in Run, NEW c \in Content, CanImport(l, r, c)
  PROVE  Import(l, r, c) \in Ledger /\ LedgerOK(Import(l, r, c))
<1>. DEFINE new == Import(l, r, c)
<1>1. /\ new = [runs |-> [l.runs EXCEPT ![r] = c], book |-> l.book]
      /\ l.runs \in [Run -> Content \cup {None}]
      /\ l.book \in Registry \cup {None}
  BY DEF Import, Ledger
<1>2. new \in Ledger
  BY <1>1 DEF Ledger
<1>3. Imported(new) = Imported(l) \cup {r}
  BY <1>1, ContentsAssumption DEF Imported
<1>4. ASSUME l.book # None
      PROVE  CanProject(new, l.book)
  <2>1. ASSUME NEW f, f \in KnownFindings(l), f \in LinkedFindings(l)
        PROVE  f \in KnownFindings(new)
    <3>1. PICK q \in Imported(l) : f \in l.runs[q].findings
      BY <2>1 DEF KnownFindings
    <3>2. CASE q # r
      BY <3>1, <3>2, <1>1, <1>3 DEF KnownFindings, Imported
    <3>3. CASE q = r
      <4>1. f \in c.findings
        BY <3>1, <3>3, <2>1 DEF CanImport
      <4>2. r \in Imported(new) /\ new.runs[r] = c
        BY <1>1, <1>3
      <4>. QED
        BY <4>1, <4>2 DEF KnownFindings
    <3>. QED
      BY <3>2, <3>3
  <2>2. ASSUME NEW a, a \in KnownArtifacts(l), a \in LinkedArtifacts(l)
        PROVE  a \in KnownArtifacts(new)
    <3>1. PICK q \in Imported(l) : a \in l.runs[q].artifacts
      BY <2>2 DEF KnownArtifacts
    <3>2. CASE q # r
      BY <3>1, <3>2, <1>1, <1>3 DEF KnownArtifacts, Imported
    <3>3. CASE q = r
      <4>1. a \in c.artifacts
        BY <3>1, <3>3, <2>2 DEF CanImport
      <4>2. r \in Imported(new) /\ new.runs[r] = c
        BY <1>1, <1>3
      <4>. QED
        BY <4>1, <4>2 DEF KnownArtifacts
    <3>. QED
      BY <3>2, <3>3
  <2>. HIDE DEF new
  <2>. QED
    BY <1>4, <2>1, <2>2 DEF LedgerOK, CanProject, LinkedFindings, LinkedArtifacts
<1>. QED
  BY <1>1, <1>2, <1>4 DEF LedgerOK

LEMMA ProjectOK ==
  ASSUME NEW l \in Ledger, NEW b \in Registry, Valid(b), CanProject(l, b)
  PROVE  Project(l, b) \in Ledger /\ LedgerOK(Project(l, b))
<1>1. Project(l, b) = [runs |-> l.runs, book |-> b]
  BY DEF Project, Ledger
<1>2. Project(l, b) \in Ledger
  BY <1>1 DEF Ledger
<1>3. CanProject(Project(l, b), b)
  BY <1>1 DEF CanProject, KnownFindings, KnownArtifacts, Imported
<1>. QED
  BY <1>1, <1>2, <1>3 DEF LedgerOK, Valid

-----------------------------------------------------------------------------
(* Every action changes the phase and the job of one process, and writes   *)
(* only what keeps the invariant.                                          *)

LEMMA InitIInv == Init => IInv
<1>. SUFFICES ASSUME Init PROVE IInv
  OBVIOUS
<1>1. NoJob \in Job
  BY DEF NoJob, Job
<1>2. EmptyRegistry \in Registry
  BY EmptySeq DEF EmptyRegistry, Registry
<1>3. dirs \in [Run -> Content]
  BY ContentsAssumption DEF Init
<1>4. TypeOK
  BY <1>1, <1>2, <1>3, EmptyLedgerOK DEF Init, TypeOK, Phase
<1>5. \A p \in Process : JobOK(pc[p], job[p])
  BY DEF Init, JobOK, NoJob
<1>. QED
  BY <1>4, <1>5, EmptyLedgerOK DEF IInv, Init

(* One process takes a step, within its own job and in the files.          *)
LEMMA LocalStep ==
  ASSUME IInv, NEW p \in Process, NEW phase \in Phase, NEW j \in Job, JobOK(phase, j),
         pc' = [pc EXCEPT ![p] = phase], job' = [job EXCEPT ![p] = j],
         registry' \in Registry \cup {Torn}, tmp' \in Registry \cup {Torn, None},
         ledger' \in Ledger, LedgerOK(ledger)', dirs' = dirs, acked' \subseteq Event
  PROVE  IInv'
<1>1. TypeOK'
  BY DEF IInv, TypeOK
<1>2. ASSUME NEW q \in Process PROVE JobOK(pc[q], job[q])'
  <2>1. CASE q = p
    BY <2>1 DEF IInv, TypeOK, JobOK
  <2>2. CASE q # p
    <3>1. pc'[q] = pc[q] /\ job'[q] = job[q]
      BY <2>2 DEF IInv, TypeOK
    <3>. QED
      BY <3>1 DEF IInv, JobOK
  <2>. QED
    BY <2>1, <2>2
<1>. QED
  BY <1>1, <1>2 DEF IInv

(* The same for a step that leaves the files alone.                        *)
LEMMA QuietStep ==
  ASSUME IInv, NEW p \in Process, NEW phase \in Phase, NEW j \in Job, JobOK(phase, j),
         pc' = [pc EXCEPT ![p] = phase], job' = [job EXCEPT ![p] = j],
         UNCHANGED <<registry, tmp, ledger, dirs, acked>>
  PROVE  IInv'
<1>1. LedgerOK(ledger)'
  BY DEF IInv
<1>. QED
  BY <1>1, LocalStep DEF IInv, TypeOK

LEMMA QuitOK == NoJob \in Job /\ JobOK("idle", NoJob) /\ "idle" \in Phase
BY DEF NoJob, Job, JobOK, Phase

LEMMA LoadableTyped == TypeOK /\ Loadable => registry \in Registry /\ Valid(registry)
BY LedgerAssumption DEF TypeOK, Loadable

-----------------------------------------------------------------------------
(* Defect commands.                                                        *)

LEMMA LoadKeeps == ASSUME IInv, NEW p \in Process, Load(p) PROVE IInv'
<1>. DEFINE j == [job[p] EXCEPT !.base = registry]
<1>1. registry \in Registry /\ Valid(registry) /\ job[p] \in Job /\ JobOK(pc[p], job[p])
  BY LoadableTyped DEF Load, IInv, TypeOK
<1>2. /\ j \in Job /\ j.base = registry /\ j.registry = job[p].registry
      /\ j.book = job[p].book /\ j.build = job[p].build
  BY <1>1 DEF Job
<1>4. pc' = [pc EXCEPT ![p] = "deciding"] /\ job' = [job EXCEPT ![p] = j]
  BY DEF Load, Goto
<1>. HIDE DEF j
<1>3. JobOK("deciding", j)
  BY <1>1, <1>2, LedgerAssumption DEF JobOK
<1>. QED
  BY <1>2, <1>3, <1>4, QuietStep DEF Load, Phase

LEMMA RecordKeeps ==
  ASSUME IInv, NEW p \in Process, NEW e \in Event, NEW candidates \in SUBSET Registry,
         Record(p, e, candidates)
  PROVE  IInv'
<1>1. PICK r \in candidates :
        job' = [job EXCEPT ![p] = [NoJob EXCEPT !.registry = r, !.event = e]]
  BY DEF Record
<1>. DEFINE j == [NoJob EXCEPT !.registry = r, !.event = e]
<1>2. j \in Job
  BY DEF NoJob, Job
<1>3. JobOK("opening", j)
  BY LedgerAssumption DEF JobOK, NoJob
<1>4. pc' = [pc EXCEPT ![p] = "opening"] /\ job' = [job EXCEPT ![p] = j]
  BY <1>1 DEF Record, Goto
<1>. HIDE DEF j
<1>. QED
  BY <1>2, <1>3, <1>4, QuietStep DEF Record, Phase

LEMMA DecidingTyped ==
  ASSUME IInv, NEW p \in Process, pc[p] = "deciding"
  PROVE  job[p].base \in Registry
BY DEF IInv, TypeOK, JobOK, Job

LEMMA DefectCommandKeeps ==
  ASSUME IInv, NEW p \in Writer, DefectCommand(p) PROVE IInv'
<1>. p \in Process
  BY DEF Process
<1>1. CASE Load(p)
  BY <1>1, LoadKeeps
<1>2. CASE Sync(p)
  <2>1. job[p] \in Job /\ JobOK("loading", job[p])
    BY <1>2 DEF Sync, IInv, TypeOK, JobOK
  <2>2. pc' = [pc EXCEPT ![p] = "loading"] /\ job' = [job EXCEPT ![p] = job[p]]
    BY <1>2 DEF Sync, Goto, IInv, TypeOK
  <2>. QED
    BY <1>2, <2>1, <2>2, QuietStep DEF Sync, Phase
<1>3. ASSUME NEW d \in Defect, CreateAgain(p, d) PROVE IInv'
  <2>1. JobOK("loading", NoJob)
    BY DEF JobOK, NoJob
  <2>. QED
    BY <1>3, <2>1, QuitOK, QuietStep DEF CreateAgain, Goto, Phase
<1>4. ASSUME NEW d \in Defect, NEW t \in Clock, NEW y \in Reason, CreateDefect(p, d, t, y)
      PROVE  IInv'
  BY <1>4, DecidingTyped, EventsTyped, ComputedTyped, RecordKeeps DEF CreateDefect
<1>5. ASSUME NEW d \in Defect, NEW f \in Finding, NEW t \in Clock, LinkFinding(p, d, f, t)
      PROVE  IInv'
  BY <1>5, DecidingTyped, EventsTyped, ComputedTyped, RecordKeeps DEF LinkFinding
<1>6. ASSUME NEW d \in Defect, NEW a \in Artifact, NEW x \in Relation, NEW t \in Clock,
             LinkArtifact(p, d, a, x, t)
      PROVE  IInv'
  BY <1>6, DecidingTyped, EventsTyped, ComputedTyped, RecordKeeps DEF LinkArtifact
<1>7. ASSUME NEW d \in Defect, NEW to \in Status, NEW t \in Clock, NEW y \in Reason,
             TransitionDefect(p, d, to, t, y)
      PROVE  IInv'
  BY <1>7, DecidingTyped, EventsTyped, ComputedTyped, RecordKeeps DEF TransitionDefect
<1>8. ASSUME NEW listing \in Listing, Rebuild(p, listing) PROVE IInv'
  <2>. DEFINE j == [NoJob EXCEPT !.build = EmptyLedger, !.left = listing[1],
                                 !.books = listing[2]]
  <2>1. j \in Job
    BY EmptyLedgerOK, LedgerAssumption DEF NoJob, Job
  <2>2. JobOK("building", j)
    BY EmptyLedgerOK, LedgerAssumption DEF JobOK, NoJob
  <2>3. pc' = [pc EXCEPT ![p] = "building"] /\ job' = [job EXCEPT ![p] = j]
    BY <1>8 DEF Rebuild, Goto
  <2>. HIDE DEF j
  <2>. QED
    BY <1>8, <2>1, <2>2, <2>3, QuietStep DEF Rebuild, Phase
<1>. QED
  BY <1>1, <1>2, <1>3, <1>4, <1>5, <1>6, <1>7, <1>8 DEF DefectCommand

-----------------------------------------------------------------------------
(* Writing, projecting, importing and rebuilding.                          *)

Handle == {"none", "tmp", "registry", "gone"}

(* A handle says nothing of what a command has computed.                   *)
LEMMA HandleOnly ==
  ASSUME NEW j \in Job, NEW h \in Handle, NEW phase, JobOK(phase, j)
  PROVE  /\ [j EXCEPT !.handle = h] \in Job
         /\ JobOK(phase, [j EXCEPT !.handle = h])
         /\ JobOK("loading", [j EXCEPT !.handle = h])
BY DEF Handle, Job, JobOK

LEMMA WriteKeeps ==
  ASSUME IInv, NEW p \in Process, Open(p) \/ Write(p) \/ Move(p)
  PROVE  IInv'
<1>. /\ job[p] \in Job /\ pc[p] \in Phase
     /\ pc \in [Process -> Phase] /\ job \in [Process -> Job]
     /\ registry \in Registry \cup {Torn} /\ tmp \in Registry \cup {Torn, None}
  BY DEF IInv, TypeOK
<1>0. JobOK(pc[p], job[p])
  BY DEF IInv
<1>1. CASE Open(p)
  <2>. DEFINE j == [job[p] EXCEPT !.handle = "tmp"]
  <2>1. j \in Job
    BY DEF Job
  <2>2. JobOK("writing", j)
    BY <1>0, <1>1 DEF Open, JobOK, Job
  <2>3. pc' = [pc EXCEPT ![p] = "writing"] /\ job' = [job EXCEPT ![p] = j]
    BY <1>1 DEF Open, Goto
  <2>4. LedgerOK(ledger)'
    BY <1>1 DEF Open, IInv
  <2>. HIDE DEF j
  <2>. QED
    BY <1>1, <2>1, <2>2, <2>3, <2>4, LocalStep DEF Open, Phase, IInv, TypeOK
<1>2. CASE Write(p)
  <2>1. job[p].registry \in Registry
    BY <1>0, <1>2 DEF Write, JobOK, Job
  <2>2. tmp' \in Registry \cup {Torn, None} /\ registry' \in Registry \cup {Torn}
    BY <1>2, <2>1 DEF Write, Over
  <2>3. JobOK("moving", job[p])
    BY <1>0, <1>2 DEF Write, JobOK
  <2>4. pc' = [pc EXCEPT ![p] = "moving"] /\ job' = [job EXCEPT ![p] = job[p]]
    BY <1>2 DEF Write, Goto
  <2>5. LedgerOK(ledger)'
    BY <1>2 DEF Write, IInv
  <2>. QED
    BY <1>2, <2>2, <2>3, <2>4, <2>5, LocalStep DEF Write, Phase, IInv, TypeOK
<1>3. CASE Move(p)
  <2>1. ASSUME NEW q \in Process
        PROVE  \E h \in Handle : job'[q] = [job[q] EXCEPT !.handle = h]
    <3>1. CASE q = p
      BY <1>3, <3>1 DEF Move, Handle
    <3>2. CASE q # p
      <4>1. job'[q] = [job[q] EXCEPT !.handle = Moved(job[q].handle)]
        BY <1>3, <3>2 DEF Move
      <4>2. Moved(job[q].handle) \in Handle
        BY DEF Moved, Handle
      <4>. QED
        BY <4>1, <4>2
    <3>. QED
      BY <3>1, <3>2
  <2>2. \A q \in Process : pc'[q] = pc[q] \/ pc'[q] = "loading"
    BY <1>3 DEF Move, Goto
  <2>3. ASSUME NEW q \in Process PROVE job'[q] \in Job /\ JobOK(pc[q], job[q])'
    <3>1. PICK h \in Handle : job'[q] = [job[q] EXCEPT !.handle = h]
      BY <2>1
    <3>2. job[q] \in Job /\ JobOK(pc[q], job[q])
      BY DEF IInv
    <3>3. job'[q] \in Job /\ JobOK(pc[q], job'[q]) /\ JobOK("loading", job'[q])
      BY <3>1, <3>2, HandleOnly
    <3>. QED
      BY <2>2, <3>3 DEF JobOK
  <2>4. job' \in [Process -> Job]
    BY <1>3, <2>3 DEF Move
  <2>5. TypeOK'
    BY <1>3, <2>4 DEF Move, Goto, Phase, IInv, TypeOK
  <2>6. LedgerOK(ledger)'
    BY <1>3 DEF Move, IInv
  <2>. QED
    BY <2>3, <2>5, <2>6 DEF IInv
<1>. QED
  BY <1>1, <1>2, <1>3

LEMMA TargetOK ==
  ASSUME IInv, NEW p \in Process
  PROVE  Target(p) \in Ledger /\ LedgerOK(Target(p))
BY DEF IInv, TypeOK, JobOK, Job, Target

LEMMA ProjectKeeps ==
  ASSUME IInv, NEW p \in Process, LoadForSync(p) \/ ProjectRegistry(p)
  PROVE  IInv'
<1>. job[p] \in Job /\ JobOK(pc[p], job[p])
  BY DEF IInv, TypeOK
<1>1. CASE LoadForSync(p)
  <2>. DEFINE j == [job[p] EXCEPT !.book = registry]
  <2>1. registry \in Registry /\ Valid(registry)
    BY <1>1, LoadableTyped DEF LoadForSync, IInv
  <2>2. j \in Job
    BY <2>1 DEF Job
  <2>3. JobOK("projecting", j)
    BY <2>1, LedgerAssumption DEF JobOK, Job
  <2>4. pc' = [pc EXCEPT ![p] = "projecting"] /\ job' = [job EXCEPT ![p] = j]
    BY <1>1 DEF LoadForSync, Goto
  <2>. HIDE DEF j
  <2>. QED
    BY <1>1, <2>2, <2>3, <2>4, QuietStep DEF LoadForSync, Phase
<1>2. CASE ProjectRegistry(p)
  <2>1. job[p].book \in Registry /\ Valid(job[p].book)
    BY <1>2 DEF ProjectRegistry, JobOK, Job
  <2>2. /\ Project(Target(p), job[p].book) \in Ledger
        /\ LedgerOK(Project(Target(p), job[p].book))
    BY <1>2, <2>1, TargetOK, ProjectOK DEF ProjectRegistry
  <2>3. CASE job[p].build = None
    <3>1. ledger' \in Ledger /\ LedgerOK(ledger)'
      BY <1>2, <2>2, <2>3 DEF ProjectRegistry, Target
    <3>2. acked' \subseteq Event
      BY <1>2, <2>3 DEF ProjectRegistry, IInv, TypeOK, Job
    <3>. QED
      BY <1>2, <2>3, <3>1, <3>2, QuitOK, LocalStep
      DEF ProjectRegistry, Quit, Goto, IInv, TypeOK
  <2>4. CASE job[p].build # None
    <3>. DEFINE j == [job[p] EXCEPT !.build = Project(job[p].build, job[p].book)]
    <3>1. j \in Job
      BY <2>2, <2>4 DEF Target, Job
    <3>2. JobOK("verifying", j)
      BY <2>1, <2>2, <2>4, LedgerAssumption DEF Target, Job, JobOK
    <3>3. pc' = [pc EXCEPT ![p] = "verifying"] /\ job' = [job EXCEPT ![p] = j]
      BY <1>2, <2>4 DEF ProjectRegistry, Goto
    <3>. HIDE DEF j
    <3>. QED
      BY <1>2, <2>4, <3>1, <3>2, <3>3, QuietStep DEF ProjectRegistry, Phase
  <2>. QED
    BY <2>3, <2>4
<1>. QED
  BY <1>1, <1>2

LEMMA ImportKeeps ==
  ASSUME IInv, NEW p \in Process, (\E r \in Run : ImportRun(p, r)) \/ CommitImport(p)
  PROVE  IInv'
<1>. job[p] \in Job /\ JobOK(pc[p], job[p]) /\ dirs \in [Run -> Content]
  BY DEF IInv, TypeOK
<1>1. ASSUME NEW r \in Run, ImportRun(p, r) PROVE IInv'
  <2>. DEFINE j == [job[p] EXCEPT !.run = r, !.artifacts = dirs[r].artifacts]
  <2>1. j \in Job
    BY DEF Job, Content
  <2>2. JobOK("importing", j)
    BY LedgerAssumption DEF JobOK, Job
  <2>3. pc' = [pc EXCEPT ![p] = "importing"] /\ job' = [job EXCEPT ![p] = j]
    BY <1>1 DEF ImportRun, Goto
  <2>. HIDE DEF j
  <2>. QED
    BY <1>1, <2>1, <2>2, <2>3, QuietStep DEF ImportRun, Phase
<1>2. CASE CommitImport(p)
  <2>. DEFINE new == Import(Target(p), job[p].run, ReadContent(p))
  <2>1. job[p].run \in Run
    BY <1>2 DEF CommitImport, JobOK, Job
  <2>2. ReadContent(p) \in Content
    BY <2>1 DEF ReadContent, Content, Job
  <2>3. new \in Ledger /\ LedgerOK(new)
    BY <1>2, <2>1, <2>2, TargetOK, ImportOK DEF CommitImport
  <2>4. CASE job[p].build = None
    <3>1. ledger' = new
      BY <1>2, <2>4 DEF CommitImport, Target
    <3>2. ledger' \in Ledger /\ LedgerOK(ledger)'
      BY <2>3, <3>1
    <3>. QED
      BY <1>2, <2>4, <3>2, QuitOK, LocalStep DEF CommitImport, Quit, Goto, IInv, TypeOK
  <2>5. CASE job[p].build # None
    <3>. DEFINE made == Import(job[p].build, job[p].run, ReadContent(p))
                j == [job[p] EXCEPT !.build = made, !.left = @ \ {job[p].run}]
    <3>1. made \in Ledger /\ LedgerOK(made)
      BY <2>3, <2>5 DEF Target
    <3>. HIDE DEF new
    <3>2. pc' = [pc EXCEPT ![p] = "building"] /\ job' = [job EXCEPT ![p] = j]
      BY <1>2, <2>5 DEF CommitImport, Goto
    <3>. HIDE DEF made
    <3>3. j \in Job
      BY <3>1 DEF Job
    <3>4. JobOK("building", j)
      BY <3>1, LedgerAssumption DEF Job, JobOK
    <3>. HIDE DEF j
    <3>. QED
      BY <1>2, <2>5, <3>2, <3>3, <3>4, QuietStep DEF CommitImport, Phase
  <2>. QED
    BY <2>4, <2>5
<1>. QED
  BY <1>1, <1>2

LEMMA RebuildKeeps ==
  ASSUME IInv, NEW p \in Process, AllImported(p) \/ Verify(p) \/ Swap(p)
  PROVE  IInv'
<1>. job[p] \in Job /\ JobOK(pc[p], job[p]) /\ job = [job EXCEPT ![p] = job[p]]
  BY DEF IInv, TypeOK
<1>1. CASE AllImported(p)
  <2>. DEFINE phase == IF job[p].books THEN "loading" ELSE "verifying"
  <2>1. phase \in Phase /\ JobOK(phase, job[p])
    BY <1>1 DEF AllImported, JobOK, Phase
  <2>2. pc' = [pc EXCEPT ![p] = phase] /\ job' = [job EXCEPT ![p] = job[p]]
    BY <1>1 DEF AllImported, Goto
  <2>. HIDE DEF phase
  <2>. QED
    BY <1>1, <2>1, <2>2, QuietStep DEF AllImported
<1>2. CASE Verify(p)
  <2>1. JobOK("swapping", job[p])
    BY <1>2 DEF Verify, JobOK
  <2>2. pc' = [pc EXCEPT ![p] = "swapping"] /\ job' = [job EXCEPT ![p] = job[p]]
    BY <1>2 DEF Verify, Goto
  <2>. QED
    BY <1>2, <2>1, <2>2, QuietStep DEF Verify, Phase
<1>3. CASE Swap(p)
  <2>1. ledger' \in Ledger /\ LedgerOK(ledger)'
    BY <1>3 DEF Swap, JobOK, Job
  <2>. QED
    BY <1>3, <2>1, QuitOK, LocalStep DEF Swap, Quit, Goto, IInv, TypeOK
<1>. QED
  BY <1>1, <1>2, <1>3

-----------------------------------------------------------------------------
(* The invariant.                                                          *)

LEMMA NextKeeps == IInv /\ [Next]_vars => IInv'
<1>. SUFFICES ASSUME IInv, [Next]_vars PROVE IInv'
  OBVIOUS
<1>1. ASSUME NEW p \in Writer, DefectCommand(p) PROVE IInv'
  BY <1>1, DefectCommandKeeps
<1>2. ASSUME NEW p \in Process, Step(p) PROVE IInv'
  <2>1. CASE Stop(p)
    BY <2>1, QuitOK, QuietStep DEF Stop, Quit, Goto
  <2>. QED
    BY <1>2, <2>1, WriteKeeps, ProjectKeeps, ImportKeeps, RebuildKeeps DEF Step
<1>3. ASSUME NEW r \in Run, NEW c \in Contents[r], ChangeRun(r, c) PROVE IInv'
  <2>1. c \in Content
    BY ContentsAssumption
  <2>2. TypeOK'
    BY <1>3, <2>1 DEF ChangeRun, IInv, TypeOK
  <2>. QED
    BY <1>3, <2>2 DEF ChangeRun, IInv, LedgerOK, JobOK
<1>4. CASE UNCHANGED vars
  BY <1>4 DEF vars, IInv, TypeOK, LedgerOK, JobOK
<1>. QED
  BY <1>1, <1>2, <1>3, <1>4 DEF Next

LEMMA InvariantHolds == Spec => []IInv
BY InitIInv, NextKeeps, PTL DEF Spec

(* The variables keep their types.                                         *)
THEOREM TypeCorrect == Spec => []TypeOK
<1>1. IInv => TypeOK
  BY DEF IInv
<1>. QED
  BY <1>1, InvariantHolds, PTL

(* Whatever commands, imports and rebuilds overlap, and whatever they do   *)
(* to the registry file, the database has every finding and artifact its   *)
(* defects link, and every closed defect its evidence.                     *)
THEOREM EvidenceHeld == Spec => []ProjectedLinksHold
<1>1. IInv => ProjectedLinksHold
  <2>. SUFFICES ASSUME IInv, ledger.book # None PROVE ProjectedLinksHold
    BY DEF ProjectedLinksHold
  <2>1. CanProject(ledger, ledger.book)
    BY DEF IInv, LedgerOK
  <2>2. LinkedFindings(ledger) \subseteq KnownFindings(ledger)
    BY <2>1 DEF CanProject, LinkedFindings
  <2>3. LinkedArtifacts(ledger) \subseteq KnownArtifacts(ledger)
    BY <2>1 DEF CanProject, LinkedArtifacts
  <2>4. ASSUME NEW d \in Defect, ledger.book.status[d] = "CLOSED"
        PROVE  \E a \in KnownArtifacts(ledger) :
                 <<d, a, "resolution_evidence">> \in ledger.book.artifacts
    <3>1. PICK a \in Artifact : <<d, a, "resolution_evidence">> \in ledger.book.artifacts
      BY <2>4 DEF IInv, LedgerOK, HasResolutionEvidence
    <3>2. <<d, a, "resolution_evidence">>[2] \in LinkedArtifacts(ledger)
      BY <3>1 DEF LinkedArtifacts
    <3>3. a \in KnownArtifacts(ledger)
      BY <3>2, <2>3
    <3>. QED
      BY <3>1, <3>3
  <2>. QED
    BY <2>2, <2>3, <2>4 DEF ProjectedLinksHold
<1>. QED
  BY <1>1, InvariantHolds, PTL

-----------------------------------------------------------------------------
(* What inserting an event does to the list.                               *)

LEMMA InsertElements ==
  ASSUME NEW s \in Seq(Event), NEW e \in Event, NEW k \in 0 .. Len(s)
  PROVE  /\ Insert(s, k, e) \in Seq(Event)
         /\ Len(Insert(s, k, e)) = Len(s) + 1
         /\ DOMAIN Insert(s, k, e) = 1 .. Len(s) + 1
         /\ \A i \in 1 .. k : Insert(s, k, e)[i] = s[i]
         /\ Insert(s, k, e)[k + 1] = e
         /\ \A i \in k + 2 .. Len(s) + 1 : Insert(s, k, e)[i] = s[i - 1]
<1> DEFINE front == SubSeq(s, 1, k)
           back == SubSeq(s, k + 1, Len(s))
           head == front \o <<e>>
<1>1. Len(s) \in Nat /\ \A i \in 1 .. Len(s) : s[i] \in Event
  BY ElementOfSeq
<1>2. front \in Seq(Event) /\ Len(front) = k /\ \A i \in 1 .. k : front[i] = s[i]
  BY <1>1, SubSeqProperties
<1>3. /\ back \in Seq(Event) /\ Len(back) = Len(s) - k
      /\ \A i \in 1 .. Len(s) - k : back[i] = s[k + i]
  BY <1>1, SubSeqProperties
<1>4. <<e>> \in Seq(Event) /\ Len(<<e>>) = 1 /\ <<e>>[1] = e
  OBVIOUS
<1> HIDE DEF front, back
<1>5. /\ head \in Seq(Event) /\ Len(head) = k + 1 /\ head[k + 1] = e
      /\ \A i \in 1 .. k : head[i] = s[i]
  <2>1. /\ head \in Seq(Event) /\ Len(head) = Len(front) + Len(<<e>>)
        /\ \A i \in 1 .. Len(front) + Len(<<e>>) :
             head[i] = IF i <= Len(front) THEN front[i] ELSE <<e>>[i - Len(front)]
    BY <1>2, <1>4, ConcatProperties
  <2> HIDE DEF head
  <2>2. head[k + 1] = <<e>>[1]
    BY <1>2, <1>4, <2>1
  <2>3. \A i \in 1 .. k : head[i] = front[i]
    BY <1>2, <1>4, <2>1
  <2>. QED BY <1>2, <1>4, <2>1, <2>2, <2>3
<1>6. Insert(s, k, e) = head \o back
  BY DEF Insert, front, back
<1> HIDE DEF head
<1>7. /\ head \o back \in Seq(Event) /\ Len(head \o back) = Len(s) + 1
      /\ \A i \in 1 .. k + 1 : (head \o back)[i] = head[i]
      /\ \A i \in k + 2 .. Len(s) + 1 : (head \o back)[i] = back[i - (k + 1)]
  BY <1>1, <1>3, <1>5, ConcatProperties
<1>8. \A i \in k + 2 .. Len(s) + 1 : back[i - (k + 1)] = s[i - 1]
  BY <1>1, <1>3
<1>9. DOMAIN (head \o back) = 1 .. Len(s) + 1
  BY <1>1, <1>7
<1>. QED BY <1>1, <1>5, <1>6, <1>7, <1>8, <1>9

(* A set of indices has a greatest one.                                    *)
LEMMA GreatestExists ==
  ASSUME NEW n \in Nat, NEW M \in SUBSET (1 .. n), M # {}
  PROVE  \E m \in M : \A j \in M : j <= m
<1> DEFINE D == {n - i : i \in M}
<1>1. D \subseteq Nat /\ D # {}
  <2>1. ASSUME NEW i \in M PROVE n - i \in Nat
    <3>1. i \in 1 .. n
      OBVIOUS
    <3>. QED BY <3>1
  <2>. QED BY <2>1
<1>2. PICK x \in D : \A y \in D : <<y, x>> \notin OpToRel(<, Nat)
  BY <1>1, WFMin, NatLessThanWellFounded
<1>3. PICK m \in M : x = n - m
  BY <1>2
<1>4. ASSUME NEW j \in M PROVE j <= m
  <2>1. n - j \in D /\ n - j \in Nat /\ x \in Nat
    BY <1>1
  <2>2. ~ (n - j < x)
    BY <1>2, <2>1 DEF OpToRel
  <2>. QED BY <1>3, <2>2
<1>. QED BY <1>4

LEMMA StatusOfGreatest ==
  ASSUME NEW s, NEW M \in SUBSET Nat, NEW m \in M, \A j \in M : j <= m
  PROVE  StatusAfter(s, M) = s[m].to
<1>1. ASSUME NEW i \in M, \A j \in M : j <= i PROVE i = m
  <2>1. i <= m /\ m <= i /\ i \in Nat /\ m \in Nat
    BY <1>1
  <2>. QED BY <2>1
<1>2. (CHOOSE i \in M : \A j \in M : j <= i) = m
  BY <1>1
<1>. QED BY <1>2 DEF StatusAfter

(* Where an index of the old list is in the new one.                       *)
Shift(k, i) == IF i <= k THEN i ELSE i + 1

LEMMA StatusShifted ==
  ASSUME NEW s \in Seq(Event), NEW e \in Event, NEW k \in 0 .. Len(s),
         NEW M \in SUBSET (1 .. Len(s))
  PROVE  StatusAfter(Insert(s, k, e), {Shift(k, i) : i \in M}) = StatusAfter(s, M)
<1> DEFINE new == Insert(s, k, e)
           N == {Shift(k, i) : i \in M}
<1>1. Len(s) \in Nat
  OBVIOUS
<1>2. \A i \in 1 .. Len(s) : new[Shift(k, i)] = s[i]
  <2>1. ASSUME NEW i \in 1 .. Len(s), i <= k PROVE new[Shift(k, i)] = s[i]
    BY <2>1, InsertElements DEF Shift
  <2>2. ASSUME NEW i \in 1 .. Len(s), ~ (i <= k) PROVE new[Shift(k, i)] = s[i]
    <3>1. Shift(k, i) = i + 1 /\ i + 1 \in k + 2 .. Len(s) + 1 /\ (i + 1) - 1 = i
      BY <1>1, <2>2 DEF Shift
    <3>2. \A j \in k + 2 .. Len(s) + 1 : new[j] = s[j - 1]
      BY InsertElements
    <3> HIDE DEF new
    <3>3. new[i + 1] = s[(i + 1) - 1]
      BY <3>1, <3>2
    <3>. QED BY <3>1, <3>3
  <2>. QED BY <2>1, <2>2
<1> HIDE DEF new
<1>3. CASE M = {}
  BY <1>3 DEF StatusAfter
<1>4. CASE M # {}
  <2>1. PICK m \in M : \A j \in M : j <= m
    BY <1>1, <1>4, GreatestExists
  <2>2. N \in SUBSET Nat /\ Shift(k, m) \in N
    BY <1>1 DEF Shift
  <2>3. \A j \in N : j <= Shift(k, m)
    BY <1>1, <2>1 DEF Shift
  <2>4. StatusAfter(s, M) = s[m].to /\ M \in SUBSET Nat
    BY <1>1, <2>1, StatusOfGreatest
  <2> HIDE DEF N
  <2>5. StatusAfter(new, N) = new[Shift(k, m)].to
    BY <2>2, <2>3, StatusOfGreatest
  <2>. QED BY <1>2, <2>1, <2>4, <2>5 DEF N, new
<1>. QED BY <1>3, <1>4 DEF new

LEMMA ShiftFacts ==
  ASSUME NEW s \in Seq(Event), NEW e \in Event, NEW k \in 0 .. Len(s)
  PROVE  /\ \A i \in 1 .. Len(s) : /\ Shift(k, i) \in (1 .. Len(s) + 1) \ {k + 1}
                                   /\ Insert(s, k, e)[Shift(k, i)] = s[i]
                                   /\ k + 1 < Shift(k, i) <=> k < i
         /\ \A i, j \in 1 .. Len(s) : Shift(k, i) < Shift(k, j) <=> i < j
         /\ \A i, j \in 1 .. Len(s) : Shift(k, i) = Shift(k, j) => i = j
         /\ \A j \in 1 .. Len(s) + 1 : j = k + 1 \/ \E i \in 1 .. Len(s) : j = Shift(k, i)
<1>1. Len(s) \in Nat
  OBVIOUS
<1>2. ASSUME NEW i \in 1 .. Len(s) PROVE Insert(s, k, e)[Shift(k, i)] = s[i]
  <2>1. CASE i <= k
    BY <2>1, InsertElements DEF Shift
  <2>2. CASE ~ (i <= k)
    <3>1. Shift(k, i) = i + 1 /\ i + 1 \in k + 2 .. Len(s) + 1 /\ (i + 1) - 1 = i
      BY <1>1, <2>2 DEF Shift
    <3>2. \A j \in k + 2 .. Len(s) + 1 : Insert(s, k, e)[j] = s[j - 1]
      BY InsertElements
    <3>3. Insert(s, k, e)[i + 1] = s[(i + 1) - 1]
      BY <3>1, <3>2
    <3>. QED BY <3>1, <3>3
  <2>. QED BY <2>1, <2>2
<1>3. ASSUME NEW i \in 1 .. Len(s)
      PROVE  /\ Shift(k, i) \in (1 .. Len(s) + 1) \ {k + 1}
             /\ k + 1 < Shift(k, i) <=> k < i
  BY <1>1 DEF Shift
<1>4. \A i, j \in 1 .. Len(s) : /\ Shift(k, i) < Shift(k, j) <=> i < j
                                /\ Shift(k, i) = Shift(k, j) => i = j
  BY <1>1 DEF Shift
<1>5. ASSUME NEW j \in 1 .. Len(s) + 1, j # k + 1
      PROVE  \E i \in 1 .. Len(s) : j = Shift(k, i)
  <2>1. CASE j <= k
    <3>1. j \in 1 .. Len(s) /\ j = Shift(k, j)
      BY <1>1, <2>1 DEF Shift
    <3>. QED BY <3>1
  <2>2. CASE ~ (j <= k)
    <3>1. j - 1 \in 1 .. Len(s) /\ j = Shift(k, j - 1)
      BY <1>1, <1>5, <2>2 DEF Shift
    <3>. QED BY <3>1
  <2>. QED BY <2>1, <2>2
<1>. QED BY <1>2, <1>3, <1>4, <1>5

Moving(e) == e.type \in {"CREATED", "TRANSITIONED"}

LEMMA MovesInserted ==
  ASSUME NEW s \in Seq(Event), NEW e \in Event, NEW k \in 0 .. Len(s), NEW x \in Defect
  PROVE  /\ e.defect = x /\ Moving(e) =>
              Moves(Insert(s, k, e), x) = {Shift(k, i) : i \in Moves(s, x)} \cup {k + 1}
         /\ ~ (e.defect = x /\ Moving(e)) =>
              Moves(Insert(s, k, e), x) = {Shift(k, i) : i \in Moves(s, x)}
<1> DEFINE new == Insert(s, k, e)
           old == {Shift(k, i) : i \in Moves(s, x)}
<1>1. Len(s) \in Nat /\ DOMAIN s = 1 .. Len(s) /\ DOMAIN new = 1 .. Len(s) + 1 /\ new[k + 1] = e
  BY InsertElements
<1>2. /\ \A i \in 1 .. Len(s) : Shift(k, i) \in (1 .. Len(s) + 1) \ {k + 1} /\ new[Shift(k, i)] = s[i]
      /\ \A j \in 1 .. Len(s) + 1 : j = k + 1 \/ \E i \in 1 .. Len(s) : j = Shift(k, i)
  BY ShiftFacts
<1> HIDE DEF new
<1>3. old \subseteq Moves(new, x)
  BY <1>1, <1>2 DEF Moves
<1>4. ASSUME NEW j \in Moves(new, x), j # k + 1 PROVE j \in old
  <2>1. PICK i \in 1 .. Len(s) : j = Shift(k, i)
    BY <1>1, <1>2, <1>4 DEF Moves
  <2>2. i \in Moves(s, x)
    BY <1>1, <1>2, <2>1 DEF Moves
  <2>. QED BY <2>1, <2>2
<1>5. k + 1 \in Moves(new, x) <=> e.defect = x /\ Moving(e)
  BY <1>1 DEF Moves, Moving
<1> HIDE DEF old
<1>6. /\ e.defect = x /\ Moving(e) => Moves(new, x) = old \cup {k + 1}
      /\ ~ (e.defect = x /\ Moving(e)) => Moves(new, x) = old
  BY <1>3, <1>4, <1>5
<1>. QED BY <1>6 DEF new, old

(* The status before an old event does not change, unless the new event is *)
(* a move of its defect and lands before it.                               *)
LEMMA BeforeShifted ==
  ASSUME NEW s \in Seq(Event), NEW e \in Event, NEW k \in 0 .. Len(s), NEW i \in 1 .. Len(s),
         e.defect = s[i].defect /\ Moving(e) => i <= k
  PROVE  StatusBefore(Insert(s, k, e), Shift(k, i)) = StatusBefore(s, i)
<1> DEFINE new == Insert(s, k, e)
           x == s[i].defect
           M == {j \in Moves(s, x) : j < i}
           N == {j \in Moves(new, x) : j < Shift(k, i)}
<1>0. s[i] \in Event
  BY ElementOfSeq
<1>1. Len(s) \in Nat /\ DOMAIN s = 1 .. Len(s) /\ x \in Defect
  BY <1>0 DEF Event
<1>2. new[Shift(k, i)] = s[i] /\ (k + 1 < Shift(k, i) <=> k < i)
  BY ShiftFacts
<1>3. \A a, b \in 1 .. Len(s) : Shift(k, a) < Shift(k, b) <=> a < b
  BY ShiftFacts
<1>4. Moves(s, x) \subseteq 1 .. Len(s)
  BY <1>1 DEF Moves
<1> HIDE DEF x
<1>5. /\ e.defect = x /\ Moving(e) => Moves(new, x) = {Shift(k, j) : j \in Moves(s, x)} \cup {k + 1}
      /\ ~ (e.defect = x /\ Moving(e)) => Moves(new, x) = {Shift(k, j) : j \in Moves(s, x)}
  BY <1>1, MovesInserted
<1>6. e.defect = x /\ Moving(e) => ~ (k + 1 < Shift(k, i))
  <2>1. e.defect = x /\ Moving(e) => i <= k
    BY DEF x
  <2>. QED BY <1>1, <1>2, <2>1
<1> HIDE DEF new
<1>7. N = {Shift(k, j) : j \in M}
  <2>1. ASSUME NEW j \in M PROVE Shift(k, j) \in N
    BY <1>3, <1>4, <1>5, <2>1
  <2>2. ASSUME NEW m \in N PROVE m \in {Shift(k, j) : j \in M}
    <3>1. PICK j \in Moves(s, x) : m = Shift(k, j)
      BY <1>5, <1>6, <2>2
    <3>2. j < i
      BY <1>3, <1>4, <3>1, <2>2
    <3>. QED BY <3>1, <3>2
  <2>. QED BY <2>1, <2>2
<1>8. M \in SUBSET (1 .. Len(s))
  BY <1>4
<1>9. StatusBefore(s, i) = StatusAfter(s, M) /\ StatusBefore(new, Shift(k, i)) = StatusAfter(new, N)
  BY <1>2 DEF StatusBefore, x
<1> HIDE DEF M, N
<1>10. StatusAfter(new, {Shift(k, j) : j \in M}) = StatusAfter(s, M)
  BY <1>8, StatusShifted DEF new
<1>. QED BY <1>7, <1>9, <1>10 DEF new

(* What a transition does, later than every move of its defect.            *)
LEMMA LaterValid ==
  ASSUME NEW r \in Registry, Valid(r), NEW d \in Defect, NEW to \in Status, NEW y \in Reason,
         NEW t \in Nat, CanTransition(r, d, to),
         \A i \in Moves(r.events, d) : r.events[i].at < t,
         NEW new \in Transitioned(r, d, to, TransitionEvent(r, d, to, t, y))
  PROVE  Valid(new)
<1> DEFINE e == TransitionEvent(r, d, to, t, y)
           s == r.events
<1>1. /\ s \in Seq(Event) /\ r.status \in [Defect -> Status \cup {None}]
      /\ r.findings \in SUBSET FindingLink /\ r.artifacts \in SUBSET ArtifactLink
  BY DEF Registry
<1>2. /\ e.defect = d /\ e.type = "TRANSITIONED" /\ e.from = r.status[d] /\ e.to = to /\ e.at = t
      /\ e \in Event /\ Moving(e)
  BY <1>1 DEF TransitionEvent, Event, EventType, Moving
<1>3. PICK log \in Sorted(s, e) :
        new = [r EXCEPT !.status = [@ EXCEPT ![d] = to],
                        !.resolved = IF to = "CLOSED" THEN @ \cup {d} ELSE @, !.events = log]
  BY DEF Transitioned
<1>4. /\ new.status = [r.status EXCEPT ![d] = to] /\ new.events = log
      /\ new.findings = r.findings /\ new.artifacts = r.artifacts
      /\ r.resolved \subseteq new.resolved
      /\ to = "CLOSED" => d \in new.resolved
  BY <1>3 DEF Registry
<1> HIDE DEF e
<1>5. PICK k \in 0 .. Len(s) :
        log = Insert(s, k, e) /\ \A j \in k + 1 .. Len(s) : s[j].at >= t
  BY <1>2 DEF Sorted
<1>6. Len(s) \in Nat /\ DOMAIN s = 1 .. Len(s) /\ \A i \in 1 .. Len(s) : s[i] \in Event
  BY <1>1, ElementOfSeq
<1>7. DOMAIN log = 1 .. Len(s) + 1 /\ log[k + 1] = e
  BY <1>1, <1>2, <1>5, InsertElements
<1>8. /\ r.status[d] \in Status /\ r.status[d] # None /\ to # None
      /\ to \in AllowedTransitions[r.status[d]]
      /\ to = "CLOSED" => HasResolutionEvidence(r, d)
      /\ \A x \in Defect : r.status[x] = StatusAfter(s, Moves(s, x))
      /\ \A i \in 1 .. Len(s) : EventValid(s, i)
      /\ \A x \in Defect : r.status[x] = "CLOSED" => x \in r.resolved /\ HasResolutionEvidence(r, x)
  BY <1>1, <1>6, StatusAssumption DEF Valid, CanTransition, Present
<1>9. /\ \A i \in 1 .. Len(s) : /\ Shift(k, i) \in (1 .. Len(s) + 1) \ {k + 1}
                                /\ log[Shift(k, i)] = s[i]
      /\ \A i, j \in 1 .. Len(s) : Shift(k, i) = Shift(k, j) => i = j
      /\ \A j \in 1 .. Len(s) + 1 : j = k + 1 \/ \E i \in 1 .. Len(s) : j = Shift(k, i)
  BY <1>1, <1>2, <1>5, ShiftFacts
(* The new event lands after every move of its defect.                     *)
<1>10. ASSUME NEW i \in Moves(s, d) PROVE i \in 1 .. k /\ Shift(k, i) = i
  <2>1. i \in 1 .. Len(s) /\ s[i].at < t /\ s[i].at \in Nat
    BY <1>6 DEF Moves, Event
  <2>2. ~ (i \in k + 1 .. Len(s))
    BY <1>5, <2>1
  <2>3. i <= k
    BY <1>6, <2>1, <2>2
  <2>. QED BY <2>1, <2>3 DEF Shift
<1>11. Moves(log, d) = Moves(s, d) \cup {k + 1}
  <2>1. Moves(log, d) = {Shift(k, i) : i \in Moves(s, d)} \cup {k + 1}
    BY <1>1, <1>2, <1>5, MovesInserted
  <2>2. {Shift(k, i) : i \in Moves(s, d)} = Moves(s, d)
    BY <1>10
  <2>. QED BY <2>1, <2>2
<1>12. StatusAfter(log, Moves(log, d)) = to
  <2>1. Moves(log, d) \in SUBSET Nat /\ k + 1 \in Moves(log, d)
    BY <1>10, <1>11
  <2>2. \A j \in Moves(log, d) : j <= k + 1
    BY <1>10, <1>11
  <2>. QED BY <1>2, <1>7, <2>1, <2>2, StatusOfGreatest
<1>13. ASSUME NEW x \in Defect, x # d PROVE StatusAfter(log, Moves(log, x)) = r.status[x]
  <2>1. Moves(log, x) = {Shift(k, i) : i \in Moves(s, x)}
    BY <1>1, <1>2, <1>5, <1>13, MovesInserted
  <2>2. Moves(s, x) \in SUBSET (1 .. Len(s))
    BY <1>6 DEF Moves
  <2>. QED BY <1>1, <1>2, <1>5, <1>8, <2>1, <2>2, StatusShifted
<1>14. Present(r) \subseteq Present(new)
  BY <1>1, <1>4, <1>8 DEF Present
<1>15. ASSUME NEW x \in Defect PROVE new.status[x] = StatusAfter(log, Moves(log, x))
  BY <1>1, <1>4, <1>12, <1>13
<1>16. ASSUME NEW x \in Defect, new.status[x] = "CLOSED"
       PROVE  x \in new.resolved /\ HasResolutionEvidence(new, x)
  BY <1>1, <1>4, <1>8, <1>16 DEF HasResolutionEvidence
(* No old event is the new one: it would be a move of the defect, earlier. *)
<1>17. ASSUME NEW i \in 1 .. Len(s) PROVE s[i] # e
  <2>1. SUFFICES ASSUME s[i] = e PROVE FALSE
    OBVIOUS
  <2>2. i \in Moves(s, d)
    BY <1>2, <1>6, <2>1 DEF Moves
  <2>. QED BY <1>2, <2>1, <2>2
<1>18. ASSUME NEW i \in 1 .. Len(s) + 1, NEW j \in 1 .. Len(s) + 1, log[j] = log[i]
       PROVE  i = j
  <2>1. CASE i = k + 1 \/ j = k + 1
    <3>1. ASSUME NEW a \in 1 .. Len(s) + 1, log[a] = e PROVE a = k + 1
      <4>1. ASSUME NEW b \in 1 .. Len(s), a = Shift(k, b) PROVE FALSE
        BY <1>9, <1>17, <3>1, <4>1
      <4>. QED BY <1>9, <4>1
    <3>. QED BY <1>7, <1>18, <2>1, <3>1
  <2>2. CASE i # k + 1 /\ j # k + 1
    <3>1. PICK a \in 1 .. Len(s), b \in 1 .. Len(s) : i = Shift(k, a) /\ j = Shift(k, b)
      BY <1>9, <2>2
    <3>2. s[b] = s[a]
      BY <1>9, <1>18, <3>1
    <3>3. a = b
      BY <1>6, <1>8, <3>2 DEF EventValid
    <3>. QED BY <3>1, <3>3
  <2>. QED BY <2>1, <2>2
<1>19. EventValid(log, k + 1)
  <2>1. StatusBefore(log, k + 1) = r.status[d]
    <3>1. {j \in Moves(log, d) : j < k + 1} = Moves(s, d)
      BY <1>10, <1>11
    <3>2. StatusBefore(log, k + 1) = StatusAfter(log, Moves(s, d))
      BY <1>2, <1>7, <3>1 DEF StatusBefore
    <3>3. {Shift(k, i) : i \in Moves(s, d)} = Moves(s, d) /\ Moves(s, d) \in SUBSET (1 .. Len(s))
      BY <1>6, <1>10 DEF Moves
    <3>4. StatusAfter(log, Moves(s, d)) = StatusAfter(s, Moves(s, d))
      BY <1>1, <1>2, <1>5, <3>3, StatusShifted
    <3>. QED BY <1>8, <3>2, <3>4
  <2>2. k + 1 \in 1 .. Len(s) + 1
    BY <1>6
  <2>3. \A j \in DOMAIN log : log[j] = log[k + 1] => k + 1 = j
    BY <1>7, <1>18, <2>2
  <2>. QED BY <1>2, <1>7, <1>8, <2>1, <2>3 DEF EventValid
<1>20. ASSUME NEW i \in 1 .. Len(s) PROVE EventValid(log, Shift(k, i))
  <2>1. log[Shift(k, i)] = s[i] /\ s[i] \in Event /\ EventValid(s, i)
        /\ Shift(k, i) \in 1 .. Len(s) + 1
    BY <1>6, <1>8, <1>9
  <2>2. \A j \in DOMAIN log : log[j] = log[Shift(k, i)] => Shift(k, i) = j
    BY <1>7, <1>18, <2>1
  <2>3. CASE s[i].defect = d => i <= k
    <3>1. StatusBefore(log, Shift(k, i)) = StatusBefore(s, i)
      BY <1>1, <1>2, <1>5, <2>3, BeforeShifted
    <3>. QED BY <2>1, <2>2, <3>1 DEF EventValid
  (* A link of the same defect, recorded after its last move.              *)
  <2>4. CASE s[i].defect = d /\ ~ (i <= k)
    <3>1. i \notin Moves(s, d)
      BY <1>6, <1>10, <2>4
    <3>2. s[i].type # "CREATED" /\ s[i].type # "TRANSITIONED"
      BY <1>6, <2>4, <3>1 DEF Moves
    <3>3. Shift(k, i) = i + 1
      BY <2>4 DEF Shift
    <3>4. {j \in Moves(log, d) : j < i + 1} = Moves(log, d)
      BY <1>6, <1>10, <1>11, <2>4
    <3>5. StatusBefore(log, Shift(k, i)) = StatusAfter(log, Moves(log, d))
      BY <2>1, <2>4, <3>3, <3>4 DEF StatusBefore
    <3>. QED BY <1>8, <1>12, <2>1, <2>2, <3>2, <3>5 DEF EventValid
  <2>. QED BY <2>3, <2>4
<1>21. ASSUME NEW i \in DOMAIN log PROVE EventValid(log, i)
  BY <1>7, <1>9, <1>19, <1>20
<1>. HIDE DEF s
<1>. QED BY <1>4, <1>14, <1>15, <1>16, <1>21 DEF Valid

LEMMA SecondsAreNaturals ==
  ASSUME NEW events \in Seq(Event), NEW t \in Clock \cup {events[i].at + 1 : i \in DOMAIN events}
  PROVE  t \in Nat
<1>1. \A i \in DOMAIN events : events[i].at \in Nat
  <2>1. \A i \in DOMAIN events : events[i] \in Event
    BY ElementOfSeq
  <2>. QED BY <2>1 DEF Event
<1>2. CASE t \in Clock
  BY <1>2, DefectAssumption
<1>3. CASE t \notin Clock
  <2>1. PICK i \in DOMAIN events : t = events[i].at + 1
    BY <1>3
  <2>. QED BY <1>1, <2>1
<1>. QED BY <1>2, <1>3

(* However the events of other defects and of the same second are sorted,  *)
(* a transition that the lifecycle allows and that comes after all moves   *)
(* of its defect yields a registry that the validator admits.              *)
THEOREM LaterMovesAdmitted == Spec => []LaterTransitionsAdmitted
<1>1. IInv => LaterTransitionsAdmitted
  <2>. SUFFICES ASSUME IInv, NEW p \in Writer, pc[p] = "deciding",
                       NEW d \in Present(job[p].base), NEW to \in Status, NEW y \in Reason,
                       NEW t \in Clock \cup {job[p].base.events[i].at + 1 :
                                               i \in DOMAIN job[p].base.events},
                       CanTransition(job[p].base, d, to),
                       \A i \in Moves(job[p].base.events, d) : job[p].base.events[i].at < t,
                       NEW s \in Transitioned(job[p].base, d, to,
                                              TransitionEvent(job[p].base, d, to, t, y))
       PROVE  Valid(s)
    BY ZenonT(30) DEF LaterTransitionsAdmitted
  <2> DEFINE r == job[p].base
  <2>1. r \in Registry /\ Valid(r)
    <3>1. p \in Process
      BY DEF Process
    <3>2. job[p].base \in Registry
      BY <3>1, DecidingTyped
    <3>3. Valid(job[p].base)
      BY <3>1 DEF IInv, JobOK
    <3>. QED BY <3>2, <3>3
  <2>2. job[p].base.events \in Seq(Event)
    BY <2>1 DEF Registry
  <2> HIDE DEF r
  <2>4. t \in Nat
    BY <2>2, SecondsAreNaturals
  <2>5. d \in Defect
    BY DEF Present
  <2>. QED BY <2>1, <2>4, <2>5, LaterValid DEF r
<1>. QED BY <1>1, InvariantHolds, PTL

-----------------------------------------------------------------------------
(* A valid registry's moves are only appended to: a move that landed among *)
(* the earlier ones of its defect would have to go from a status to        *)
(* itself, which the lifecycle does not know.                              *)

LEMMA InsertAppends ==
  ASSUME NEW s \in Seq(Event), NEW e \in Event, NEW k \in 0 .. Len(s), NEW x \in Defect,
         e.defect = x /\ Moving(e) => \A i \in Moves(s, x) : i <= k
  PROVE  Appended(s, Insert(s, k, e), x)
<1> DEFINE new == Insert(s, k, e)
<1>1. Len(s) \in Nat /\ DOMAIN s = 1 .. Len(s) /\ Moves(s, x) \subseteq 1 .. Len(s)
  BY DEF Moves
<1>2. /\ \A i \in 1 .. Len(s) : new[Shift(k, i)] = s[i] /\ (k + 1 < Shift(k, i) <=> k < i)
      /\ \A i, j \in 1 .. Len(s) : Shift(k, i) < Shift(k, j) <=> i < j
  BY ShiftFacts
<1>3. /\ e.defect = x /\ Moving(e) => Moves(new, x) = {Shift(k, i) : i \in Moves(s, x)} \cup {k + 1}
      /\ ~ (e.defect = x /\ Moving(e)) => Moves(new, x) = {Shift(k, i) : i \in Moves(s, x)}
  BY MovesInserted
<1> HIDE DEF new
<1>4. ASSUME NEW i \in Moves(s, x)
      PROVE  /\ Shift(k, i) \in Moves(new, x) /\ new[Shift(k, i)] = s[i]
             /\ {new[m] : m \in {y \in Moves(new, x) : y < Shift(k, i)}}
                  = {s[m] : m \in {y \in Moves(s, x) : y < i}}
  <2> DEFINE late == {y \in Moves(new, x) : y < Shift(k, i)}
             early == {y \in Moves(s, x) : y < i}
  <2>1. ASSUME NEW m \in early PROVE Shift(k, m) \in late /\ new[Shift(k, m)] = s[m]
    BY <1>1, <1>2, <1>3, <1>4, <2>1
  <2>2. ASSUME NEW y \in late PROVE \E m \in early : y = Shift(k, m) /\ new[y] = s[m]
    <3>1. y # k + 1 \/ ~ (e.defect = x /\ Moving(e))
      BY <1>1, <1>2, <1>4, <2>2
    <3>2. PICK m \in Moves(s, x) : y = Shift(k, m)
      BY <1>3, <2>2, <3>1
    <3>. QED BY <1>1, <1>2, <1>4, <2>2, <3>2
  <2> HIDE DEF late, early
  <2>3. {new[m] : m \in late} = {s[m] : m \in early}
    BY <2>1, <2>2
  <2>4. Shift(k, i) \in Moves(new, x) /\ new[Shift(k, i)] = s[i]
    BY <1>1, <1>2, <1>3, <1>4
  <2>. QED BY <2>3, <2>4 DEF late, early
<1>. QED BY <1>4 DEF Appended, new

LEMMA LeastExists ==
  ASSUME NEW M \in SUBSET Nat, M # {}
  PROVE  \E m \in M : \A j \in M : m <= j
<1>1. PICK m \in M : \A y \in M : <<y, m>> \notin OpToRel(<, Nat)
  BY WFMin, NatLessThanWellFounded
<1>2. ASSUME NEW j \in M PROVE m <= j
  <2>1. j \in Nat /\ m \in Nat
    OBVIOUS
  <2>2. ~ (j < m)
    BY <1>1, <2>1 DEF OpToRel
  <2>. QED BY <2>1, <2>2
<1>. QED BY <1>2

(* The status after a move of a valid history is a status.                 *)
LEMMA MovesHaveStatus ==
  ASSUME NEW s \in Seq(Event), NEW d \in Defect, NEW i \in Moves(s, d), EventValid(s, i)
  PROVE  s[i].to \in Status /\ s[i].to # None
<1>1. s[i] \in Event /\ s[i].type \in {"CREATED", "TRANSITIONED"}
  BY ElementOfSeq DEF Moves
<1>2. CASE s[i].type = "CREATED"
  BY <1>2, StatusAssumption DEF EventValid, Status
<1>3. CASE s[i].type = "TRANSITIONED"
  <2>1. /\ s[i].from \in Status \cup {None} /\ s[i].from # None
        /\ s[i].to \in AllowedTransitions[s[i].from]
    BY <1>1, <1>3 DEF EventValid, Event
  <2>2. \A x \in Status : AllowedTransitions[x] \subseteq Status
    BY DEF AllowedTransitions, Status
  <2>. QED BY <2>1, <2>2, StatusAssumption
<1>. QED BY <1>1, <1>2, <1>3

LEMMA NewDefectHasNoMoves ==
  ASSUME NEW r \in Registry, Valid(r), NEW d \in Defect, d \notin Present(r)
  PROVE  Moves(r.events, d) = {}
<1>1. r.events \in Seq(Event) /\ Len(r.events) \in Nat /\ DOMAIN r.events = 1 .. Len(r.events)
  BY DEF Registry
<1>2. r.status[d] = None /\ r.status[d] = StatusAfter(r.events, Moves(r.events, d))
  BY DEF Present, Valid
<1>3. Moves(r.events, d) \in SUBSET (1 .. Len(r.events)) /\ Moves(r.events, d) \in SUBSET Nat
  BY <1>1 DEF Moves
<1>4. ASSUME Moves(r.events, d) # {} PROVE FALSE
  <2>1. PICK m \in Moves(r.events, d) : \A j \in Moves(r.events, d) : j <= m
    BY <1>1, <1>3, <1>4, GreatestExists
  <2>2. r.events[m].to = None
    BY <1>2, <1>3, <2>1, StatusOfGreatest
  <2>3. EventValid(r.events, m)
    BY <1>1, <1>3 DEF Valid
  <2>. QED BY <1>1, <2>2, <2>3, MovesHaveStatus
<1>. QED BY <1>4

LEMMA NoSelfTransition == \A x \in Status : x \notin AllowedTransitions[x]
BY DEF AllowedTransitions, Status

(* A transition the validator admits landed after all moves of its defect. *)
LEMMA TransitionLandsLast ==
  ASSUME NEW s \in Seq(Event), NEW e \in Event, NEW k \in 0 .. Len(s), NEW d \in Defect,
         e.defect = d, e.type = "TRANSITIONED", e.from \in Status,
         \A i \in DOMAIN s : EventValid(s, i),
         \A i \in DOMAIN Insert(s, k, e) : EventValid(Insert(s, k, e), i)
  PROVE  \A i \in Moves(s, d) : i <= k
<1> DEFINE new == Insert(s, k, e)
           late == {i \in Moves(s, d) : ~ (i <= k)}
           before == {m \in Moves(s, d) : m <= k}
<1>. SUFFICES ASSUME late # {} PROVE FALSE
  OBVIOUS
<1>1. /\ Len(s) \in Nat /\ DOMAIN s = 1 .. Len(s) /\ Moves(s, d) \subseteq 1 .. Len(s)
      /\ DOMAIN new = 1 .. Len(s) + 1 /\ new[k + 1] = e
  <2>1. Len(s) \in Nat /\ DOMAIN s = 1 .. Len(s)
    OBVIOUS
  <2>2. DOMAIN new = 1 .. Len(s) + 1 /\ new[k + 1] = e
    BY InsertElements
  <2>. QED BY <2>1, <2>2 DEF Moves
<1>2. PICK b \in late : \A j \in late : b <= j
  <2>1. late \in SUBSET Nat
    BY <1>1
  <2>. QED BY <2>1, LeastExists
<1>3. b \in 1 .. Len(s) /\ b > k /\ s[b].defect = d /\ Shift(k, b) = b + 1 /\ b + 1 \in DOMAIN new
  BY <1>1, <1>2 DEF Moves, Shift
<1>4. {m \in Moves(s, d) : m < b} = before
  BY <1>1, <1>2, <1>3
<1>5. Moves(new, d) = {Shift(k, i) : i \in Moves(s, d)} \cup {k + 1}
  BY MovesInserted DEF Moving
<1>6. {Shift(k, i) : i \in before} = before
  BY <1>1 DEF Shift
<1>7. \A i \in Moves(s, d) : (i <= k => Shift(k, i) = i) /\ (~ (i <= k) => Shift(k, i) = i + 1)
  BY DEF Shift
<1>8. {m \in Moves(new, d) : m < k + 1} = before
  BY <1>1, <1>5, <1>7
<1>9. {m \in Moves(new, d) : m < b + 1} = before \cup {k + 1}
  BY <1>1, <1>2, <1>3, <1>5, <1>7
<1>10. new[b + 1] = s[b]
  BY <1>3, ShiftFacts
<1>11. before \in SUBSET (1 .. Len(s))
  BY <1>1
<1>12. StatusAfter(new, before) = StatusAfter(s, before)
  BY <1>6, <1>11, StatusShifted
<1>13. StatusAfter(new, before \cup {k + 1}) = e.to
  <2>1. before \cup {k + 1} \in SUBSET Nat /\ \A j \in before \cup {k + 1} : j <= k + 1
    BY <1>1
  <2>. QED BY <1>1, <2>1, StatusOfGreatest
<1>14. EventValid(s, b) /\ EventValid(new, k + 1) /\ EventValid(new, b + 1)
  BY <1>1, <1>3
<1> HIDE DEF new, before, late
<1>15. StatusBefore(s, b) = StatusAfter(s, before)
  BY <1>3, <1>4 DEF StatusBefore
<1>16. StatusBefore(new, k + 1) = StatusAfter(s, before)
  BY <1>1, <1>8, <1>12 DEF StatusBefore
<1>17. StatusBefore(new, b + 1) = e.to
  BY <1>3, <1>9, <1>10, <1>13 DEF StatusBefore
<1>18. StatusAfter(s, before) = e.from /\ StatusAfter(s, before) # None
       /\ e.to \in AllowedTransitions[e.from]
  BY <1>1, <1>14, <1>16 DEF EventValid
<1>19. s[b].type = "TRANSITIONED"
  <2>1. s[b].type \in {"CREATED", "TRANSITIONED"}
    BY <1>2 DEF late, Moves
  <2>. QED BY <1>14, <1>15, <1>18, <2>1 DEF EventValid
<1>20. s[b].from = e.from /\ s[b].from = e.to
  BY <1>10, <1>14, <1>15, <1>17, <1>18, <1>19 DEF EventValid
<1>. QED BY <1>18, <1>20, NoSelfTransition

-----------------------------------------------------------------------------
(* One writer, whose rebuilds are given the registry. Nobody else opens    *)
(* the temporary file, so the registry is always one that was computed     *)
(* from the one before it, and no link ever leaves it; the database has    *)
(* the links of every registry it was given.                               *)

OneWriter ==
  /\ \A p, q \in Writer : p = q
  /\ \A l \in Listing : l[2] = TRUE

(* A registry records what an event links.                                 *)
Links(r, e) ==
  /\ e.type = "FINDING_LINKED" => <<e.subject, e.defect>> \in r.findings
  /\ e.type = "ARTIFACT_LINKED" => <<e.defect, e.subject[1], e.subject[2]>> \in r.artifacts

(* A new registry keeps the links and the moves of the old one, and has    *)
(* the link of its event.                                                  *)
Adds(old, new, e) ==
  /\ old.findings \subseteq new.findings /\ old.artifacts \subseteq new.artifacts
  /\ Links(new, e)
  /\ \A d \in Defect : Appended(old.events, new.events, d)

LinkEvent(e) == e.type \in {"FINDING_LINKED", "ARTIFACT_LINKED"}

Done(e, b) == LinkEvent(e) => b # None /\ Links(b, e)

(* A rebuild brings the registry.                                          *)
Rebuilding(phase, j, r) ==
  /\ phase \in {"building", "importing", "loading", "projecting", "verifying", "swapping"}
  /\ j.books = TRUE /\ j.event = None
  /\ j.build.book # None => j.build.book = r

(* What the command of the writer has.                                     *)
WriterOK(phase, j, r, file) ==
  /\ phase = "deciding" => j.base = r
  /\ phase \in {"opening", "writing", "moving"} => j.registry \in Registry /\ Adds(r, j.registry, j.event)
  /\ phase = "writing" => file = Torn /\ j.handle = "tmp"
  /\ phase = "moving" => file = j.registry
  /\ j.handle \in {"none", "tmp"}
  /\ phase \notin {"writing", "moving"} => j.handle = "none"
  /\ phase \in {"loading", "projecting"} /\ j.event # None => Links(r, j.event)
  /\ phase = "projecting" => j.book = r
  /\ phase \in {"idle", "building", "importing", "verifying", "swapping"} => j.event = None
  /\ phase \in {"verifying", "swapping"} => j.build # None /\ j.build.book = r
  /\ j.build # None => Rebuilding(phase, j, r)

(* A process that never writes imports only.                               *)
ImporterOK(phase, j) ==
  /\ phase \in {"idle", "importing"} /\ j.handle = "none" /\ j.build = None /\ j.event = None

LoneInv ==
  /\ registry \in Registry
  /\ \A e \in acked : Links(registry, e) /\ Done(e, ledger.book)
  /\ \A p \in Writer : WriterOK(pc[p], job[p], registry, tmp)
  /\ \A p \in Process \ Writer : ImporterOK(pc[p], job[p])

LinkIInv == IInv /\ LoneInv

LEMMA ComputedAppends ==
  ASSUME NEW r \in Registry, Valid(r), NEW e \in Event, NEW log \in Sorted(r.events, e),
         \/ e.type \in {"FINDING_LINKED", "ARTIFACT_LINKED"}
         \/ e.type = "CREATED" /\ e.defect \notin Present(r)
         \/ /\ e.type = "TRANSITIONED" /\ e.from \in Status
            /\ \A i \in DOMAIN log : EventValid(log, i)
  PROVE  \A d \in Defect : Appended(r.events, log, d)
<1>1. r.events \in Seq(Event) /\ \A i \in DOMAIN r.events : EventValid(r.events, i)
  BY DEF Registry, Valid
<1>2. PICK k \in 0 .. Len(r.events) : log = Insert(r.events, k, e)
  BY DEF Sorted
<1>3. ASSUME NEW d \in Defect, e.defect = d, Moving(e)
      PROVE  \A i \in Moves(r.events, d) : i <= k
  <2>1. CASE e.type = "CREATED"
    BY <1>3, <2>1, NewDefectHasNoMoves
  <2>2. CASE e.type = "TRANSITIONED"
    BY <1>1, <1>2, <1>3, <2>2, TransitionLandsLast
  <2>. QED BY <1>3, <2>1, <2>2 DEF Moving
<1>. QED BY <1>1, <1>2, <1>3, InsertAppends

LEMMA ComputedAdds ==
  ASSUME NEW r \in Registry, Valid(r), NEW e \in Event, NEW d \in Defect
  PROVE  /\ e.type = "CREATED" /\ e.defect = d /\ d \notin Present(r)
              => \A n \in Created(r, d, e) : Adds(r, n, e)
         /\ \A f \in Finding : e.type = "FINDING_LINKED" /\ e.defect = d /\ e.subject = f
              => \A n \in FindingLinked(r, d, f, e) : Adds(r, n, e)
         /\ \A a \in Artifact, x \in Relation :
              e.type = "ARTIFACT_LINKED" /\ e.defect = d /\ e.subject = <<a, x>>
              => \A n \in ArtifactLinked(r, d, a, x, e) : Adds(r, n, e)
         /\ \A to \in Status : e.type = "TRANSITIONED" /\ e.from \in Status
              => \A n \in Transitioned(r, d, to, e) : Valid(n) => Adds(r, n, e)
<1>1. ASSUME NEW n \in Created(r, d, e)
      PROVE  n.findings = r.findings /\ n.artifacts = r.artifacts /\ n.events \in Sorted(r.events, e)
  BY DEF Created, Registry
<1>2. ASSUME NEW f \in Finding, NEW n \in FindingLinked(r, d, f, e)
      PROVE  /\ n.findings = r.findings \cup {<<f, d>>} /\ n.artifacts = r.artifacts
             /\ n.events \in Sorted(r.events, e)
  BY DEF FindingLinked, Registry
<1>3. ASSUME NEW a \in Artifact, NEW x \in Relation, NEW n \in ArtifactLinked(r, d, a, x, e)
      PROVE  /\ n.findings = r.findings /\ n.artifacts = r.artifacts \cup {<<d, a, x>>}
             /\ n.events \in Sorted(r.events, e)
  BY DEF ArtifactLinked, Registry
<1>4. ASSUME NEW to \in Status, NEW n \in Transitioned(r, d, to, e)
      PROVE  n.findings = r.findings /\ n.artifacts = r.artifacts /\ n.events \in Sorted(r.events, e)
  BY DEF Transitioned, Registry
<1>5. ASSUME NEW a \in Artifact, NEW x \in Relation, NEW n \in ArtifactLinked(r, d, a, x, e),
             e.type = "ARTIFACT_LINKED", e.defect = d, e.subject = <<a, x>>
      PROVE  Adds(r, n, e)
  <2>1. e.subject[1] = a /\ e.subject[2] = x
    BY <1>5
  <2>. QED BY <1>3, <1>5, <2>1, ComputedAppends DEF Adds, Links
<1>6. ASSUME NEW f \in Finding, NEW n \in FindingLinked(r, d, f, e),
             e.type = "FINDING_LINKED", e.defect = d, e.subject = f
      PROVE  Adds(r, n, e)
  BY <1>2, <1>6, ComputedAppends DEF Adds, Links
<1>7. ASSUME NEW n \in Created(r, d, e), e.type = "CREATED", e.defect = d, d \notin Present(r)
      PROVE  Adds(r, n, e)
  BY <1>1, <1>7, ComputedAppends DEF Adds, Links
<1>8. ASSUME NEW to \in Status, NEW n \in Transitioned(r, d, to, e),
             e.type = "TRANSITIONED", e.from \in Status, Valid(n)
      PROVE  Adds(r, n, e)
  <2>1. \A i \in DOMAIN n.events : EventValid(n.events, i)
    BY <1>8 DEF Valid
  <2>. QED BY <1>4, <1>8, <2>1, ComputedAppends DEF Adds, Links
<1>. QED BY <1>5, <1>6, <1>7, <1>8

(* One process takes a step within its own job; a process that only        *)
(* imports leaves the registry and the temporary file alone.               *)
LEMMA LoneStep ==
  ASSUME IInv, LoneInv, OneWriter, NEW p \in Process, NEW phase, NEW j,
         pc' = [pc EXCEPT ![p] = phase], job' = [job EXCEPT ![p] = j],
         registry' \in Registry,
         \A e \in acked' : Links(registry', e) /\ Done(e, ledger'.book),
         p \in Writer => WriterOK(phase, j, registry', tmp'),
         p \notin Writer => ImporterOK(phase, j) /\ registry' = registry /\ tmp' = tmp
  PROVE  LoneInv'
<1>1. /\ pc'[p] = phase /\ job'[p] = j
      /\ \A q \in Process \ {p} : pc'[q] = pc[q] /\ job'[q] = job[q]
  BY DEF IInv, TypeOK
<1>2. ASSUME NEW q \in Writer PROVE WriterOK(pc'[q], job'[q], registry', tmp')
  <2>1. q \in Process
    BY DEF Process
  <2>2. CASE q = p
    BY <1>1, <2>2
  <2>3. CASE q # p
    <3>1. p \notin Writer
      BY <2>3 DEF OneWriter
    <3>. QED BY <1>1, <2>1, <2>3, <3>1 DEF LoneInv
  <2>. QED BY <2>2, <2>3
<1>3. ASSUME NEW q \in Process \ Writer PROVE ImporterOK(pc'[q], job'[q])
  BY <1>1 DEF LoneInv
<1>. QED BY <1>2, <1>3 DEF LoneInv

(* What is known of the process that moves.                                *)
LEMMA LoneFacts ==
  ASSUME IInv, LoneInv, NEW p \in Process
  PROVE  /\ job[p] \in Job /\ JobOK(pc[p], job[p]) /\ registry \in Registry /\ ledger \in Ledger
         /\ \A e \in acked : Links(registry, e) /\ Done(e, ledger.book)
         /\ p \in Writer => WriterOK(pc[p], job[p], registry, tmp)
         /\ p \notin Writer => ImporterOK(pc[p], job[p])
         /\ job = [job EXCEPT ![p] = job[p]]
BY DEF IInv, LoneInv, TypeOK

LEMMA LoneQuit ==
  ASSUME IInv, LoneInv, OneWriter, NEW p \in Process, Quit(p), registry' = registry, tmp' = tmp,
         \A e \in acked' : Links(registry, e) /\ Done(e, ledger'.book)
  PROVE  LoneInv'
<1>1. WriterOK("idle", NoJob, registry, tmp) /\ ImporterOK("idle", NoJob)
  BY DEF WriterOK, ImporterOK, NoJob
<1>2. registry' \in Registry
  BY DEF LoneInv
<1>. QED BY <1>1, <1>2, LoneStep DEF Quit, Goto

(* A step that leaves the files alone.                                     *)
LEMMA LoneQuiet ==
  ASSUME IInv, LoneInv, OneWriter, NEW p \in Process, NEW phase, NEW j,
         pc' = [pc EXCEPT ![p] = phase], job' = [job EXCEPT ![p] = j],
         UNCHANGED <<registry, tmp, ledger, acked>>,
         p \in Writer => WriterOK(phase, j, registry, tmp),
         p \notin Writer => ImporterOK(phase, j)
  PROVE  LoneInv'
<1>1. registry' \in Registry /\ \A e \in acked' : Links(registry', e) /\ Done(e, ledger'.book)
  BY DEF LoneInv
<1>. QED BY <1>1, LoneStep

LEMMA LoneRecord ==
  ASSUME IInv, LoneInv, OneWriter, NEW p \in Writer, pc[p] = "deciding",
         NEW e \in Event, NEW candidates \in SUBSET Registry,
         \A n \in candidates : Valid(n) => Adds(registry, n, e), Record(p, e, candidates)
  PROVE  LoneInv'
<1>0. p \in Process
  BY DEF Process
<1>1. PICK r \in candidates : Valid(r) /\ job' = [job EXCEPT ![p] = [NoJob EXCEPT !.registry = r, !.event = e]]
  BY DEF Record
<1> DEFINE j == [NoJob EXCEPT !.registry = r, !.event = e]
<1>2. j.registry = r /\ j.event = e /\ j.handle = "none" /\ j.build = None
  BY DEF NoJob
<1>3. pc' = [pc EXCEPT ![p] = "opening"] /\ job' = [job EXCEPT ![p] = j]
  BY <1>1 DEF Record, Goto
<1> HIDE DEF j
<1>4. WriterOK("opening", j, registry, tmp)
  BY <1>1, <1>2 DEF WriterOK
<1>. QED BY <1>0, <1>3, <1>4, LoneQuiet DEF Record

LEMMA LoneCommand ==
  ASSUME IInv, LoneInv, OneWriter, NEW p \in Writer, DefectCommand(p)
  PROVE  LoneInv'
<1>. p \in Process
  BY DEF Process
<1>. USE LoneFacts
<1>0. /\ WriterOK(pc[p], job[p], registry, tmp) /\ registry \in Registry
      /\ pc[p] = "deciding" => job[p].base = registry /\ Valid(registry)
  BY DEF WriterOK, JobOK
<1>1. CASE Load(p)
  <2> DEFINE j == [job[p] EXCEPT !.base = registry]
  <2>1. /\ j.base = registry /\ j.handle = job[p].handle /\ j.build = job[p].build
        /\ j.event = job[p].event
    BY DEF Job
  <2>2. pc' = [pc EXCEPT ![p] = "deciding"] /\ job' = [job EXCEPT ![p] = j] /\ pc[p] = "idle"
    BY <1>1 DEF Load, Goto
  <2> HIDE DEF j
  <2>3. job[p].handle = "none" /\ job[p].build = None /\ job[p].event = None
    BY <1>0, <2>2 DEF WriterOK, Rebuilding
  <2>4. WriterOK("deciding", j, registry, tmp)
    BY <2>1, <2>3 DEF WriterOK
  <2>. QED BY <1>1, <2>2, <2>4, LoneQuiet DEF Load
<1>2. CASE Sync(p)
  <2>1. pc' = [pc EXCEPT ![p] = "loading"] /\ job' = [job EXCEPT ![p] = job[p]] /\ pc[p] = "idle"
    BY <1>2 DEF Sync, Goto
  <2>2. job[p].handle = "none" /\ job[p].build = None /\ job[p].event = None
    BY <1>0, <2>1 DEF WriterOK, Rebuilding
  <2>3. WriterOK("loading", job[p], registry, tmp)
    BY <2>2 DEF WriterOK
  <2>. QED BY <1>2, <2>1, <2>3, LoneQuiet DEF Sync
<1>3. ASSUME NEW d \in Defect, CreateAgain(p, d) PROVE LoneInv'
  <2>1. WriterOK("loading", NoJob, registry, tmp)
    BY DEF WriterOK, NoJob
  <2>. QED BY <1>3, <2>1, LoneQuiet DEF CreateAgain, Goto
<1>4. ASSUME NEW d \in Defect, NEW t \in Clock, NEW y \in Reason, CreateDefect(p, d, t, y)
      PROVE  LoneInv'
  <2> DEFINE e == CreatedEvent(d, t, y)
  <2>1. /\ e \in Event /\ e.type = "CREATED" /\ e.defect = d /\ d \notin Present(registry)
        /\ pc[p] = "deciding"
    BY <1>0, <1>4, EventsTyped DEF CreatedEvent, CreateDefect
  <2>2. Record(p, e, Created(registry, d, e))
    BY <1>0, <1>4, <2>1 DEF CreateDefect
  <2> HIDE DEF e
  <2>. QED BY <1>0, <2>1, <2>2, ComputedTyped, ComputedAdds, LoneRecord
<1>5. ASSUME NEW d \in Defect, NEW f \in Finding, NEW t \in Clock, LinkFinding(p, d, f, t)
      PROVE  LoneInv'
  <2> DEFINE e == FindingEvent(d, f, t)
  <2>1. /\ e \in Event /\ e.type = "FINDING_LINKED" /\ e.defect = d /\ e.subject = f
        /\ pc[p] = "deciding"
    BY <1>5, EventsTyped DEF FindingEvent, LinkFinding
  <2>2. Record(p, e, FindingLinked(registry, d, f, e))
    BY <1>0, <1>5, <2>1 DEF LinkFinding
  <2> HIDE DEF e
  <2>. QED BY <1>0, <2>1, <2>2, ComputedTyped, ComputedAdds, LoneRecord
<1>6. ASSUME NEW d \in Defect, NEW a \in Artifact, NEW x \in Relation, NEW t \in Clock,
             LinkArtifact(p, d, a, x, t)
      PROVE  LoneInv'
  <2> DEFINE e == ArtifactEvent(d, a, x, t)
  <2>1. /\ e \in Event /\ e.type = "ARTIFACT_LINKED" /\ e.defect = d /\ e.subject = <<a, x>>
        /\ pc[p] = "deciding"
    BY <1>6, EventsTyped DEF ArtifactEvent, LinkArtifact
  <2>2. Record(p, e, ArtifactLinked(registry, d, a, x, e))
    BY <1>0, <1>6, <2>1 DEF LinkArtifact
  <2> HIDE DEF e
  <2>. QED BY <1>0, <2>1, <2>2, ComputedTyped, ComputedAdds, LoneRecord
<1>7. ASSUME NEW d \in Defect, NEW to \in Status, NEW t \in Clock, NEW y \in Reason,
             TransitionDefect(p, d, to, t, y)
      PROVE  LoneInv'
  <2> DEFINE e == TransitionEvent(registry, d, to, t, y)
  <2>1. /\ e \in Event /\ e.type = "TRANSITIONED" /\ e.from \in Status
        /\ pc[p] = "deciding"
    BY <1>0, <1>7, EventsTyped DEF TransitionEvent, TransitionDefect, CanTransition, Present, Registry
  <2>2. Record(p, e, Transitioned(registry, d, to, e))
    BY <1>0, <1>7, <2>1 DEF TransitionDefect
  <2> HIDE DEF e
  <2>. QED BY <1>0, <2>1, <2>2, ComputedTyped, ComputedAdds, LoneRecord
<1>8. ASSUME NEW listing \in Listing, Rebuild(p, listing) PROVE LoneInv'
  <2> DEFINE j == [NoJob EXCEPT !.build = EmptyLedger, !.left = listing[1], !.books = listing[2]]
  <2>1. /\ j.books = TRUE /\ j.event = None /\ j.handle = "none" /\ j.build.book = None
    BY DEF NoJob, OneWriter, EmptyLedger
  <2>2. pc' = [pc EXCEPT ![p] = "building"] /\ job' = [job EXCEPT ![p] = j]
    BY <1>8 DEF Rebuild, Goto
  <2> HIDE DEF j
  <2>3. WriterOK("building", j, registry, tmp)
    BY <2>1 DEF WriterOK, Rebuilding
  <2>. QED BY <1>8, <2>2, <2>3, LoneQuiet DEF Rebuild
<1>. QED BY <1>1, <1>2, <1>3, <1>4, <1>5, <1>6, <1>7, <1>8 DEF DefectCommand

(* The writing: nobody else has the temporary file.                        *)
LEMMA LoneWrite ==
  ASSUME IInv, LoneInv, OneWriter, NEW p \in Process, Open(p) \/ Write(p) \/ Move(p)
  PROVE  LoneInv'
<1>. USE LoneFacts
<1>1. /\ pc[p] \in {"opening", "writing", "moving"} /\ p \in Writer
      /\ WriterOK(pc[p], job[p], registry, tmp)
      /\ job[p].registry \in Registry /\ Adds(registry, job[p].registry, job[p].event)
      /\ job[p].build = None
  <2>1. pc[p] \in {"opening", "writing", "moving"}
    BY DEF Open, Write, Move
  <2>2. p \in Writer
    BY <2>1 DEF ImporterOK
  <2>. QED BY <2>1, <2>2 DEF WriterOK, Rebuilding
<1>2. CASE Open(p)
  <2> DEFINE j == [job[p] EXCEPT !.handle = "tmp"]
  <2>1. /\ j.handle = "tmp" /\ j.registry = job[p].registry /\ j.event = job[p].event
        /\ j.build = None
    BY <1>1 DEF Job
  <2>2. pc' = [pc EXCEPT ![p] = "writing"] /\ job' = [job EXCEPT ![p] = j]
    BY <1>2 DEF Open, Goto
  <2> HIDE DEF j
  <2>3. WriterOK("writing", j, registry, Torn)
    BY <1>1, <2>1 DEF WriterOK
  <2>. QED BY <1>1, <1>2, <2>2, <2>3, LoneStep DEF Open
<1>3. CASE Write(p)
  <2>1. job[p].handle = "tmp" /\ tmp = Torn
    BY <1>1, <1>3 DEF Write, WriterOK
  <2>2. tmp' = job[p].registry /\ registry' = registry
    BY <1>3, <2>1 DEF Write, Over
  <2>3. pc' = [pc EXCEPT ![p] = "moving"] /\ job' = [job EXCEPT ![p] = job[p]]
    BY <1>3 DEF Write, Goto
  <2>4. WriterOK("moving", job[p], registry, job[p].registry)
    BY <1>1, <2>1 DEF WriterOK
  <2>. QED BY <1>1, <1>3, <2>2, <2>3, <2>4, LoneStep DEF Write
<1>4. CASE Move(p)
  <2> DEFINE j == [job[p] EXCEPT !.handle = "none"]
  <2>1. /\ j.handle = "none" /\ j.event = job[p].event /\ j.build = None
    BY <1>1 DEF Job
  <2>2. ASSUME NEW q \in Process, q # p
        PROVE  job'[q] = job[q]
    <3>1. q \notin Writer
      BY <1>1, <2>2 DEF OneWriter
    <3>2. job[q].handle = "none" /\ job[q] \in Job
      BY <3>1 DEF ImporterOK
    <3>3. job'[q] = [job[q] EXCEPT !.handle = Moved(job[q].handle)]
      BY <1>4, <2>2 DEF Move
    <3>. QED BY <3>2, <3>3 DEF Moved, Job
  <2>3. job'[p] = j /\ job' = [q \in Process |-> job'[q]]
    BY <1>4 DEF Move
  <2>4. job' = [job EXCEPT ![p] = j] /\ pc' = [pc EXCEPT ![p] = "loading"]
    <3>1. job \in [Process -> Job]
      BY DEF IInv, TypeOK
    <3> HIDE DEF j
    <3>. QED BY <1>4, <2>2, <2>3, <3>1, ZenonT(40) DEF Move, Goto
  <2> HIDE DEF j
  <2>5. registry' = job[p].registry
    BY <1>1, <1>4 DEF Move, WriterOK
  <2>6. registry' \in Registry /\ Adds(registry, registry', job[p].event)
    BY <1>1, <2>5
  <2>7. WriterOK("loading", j, registry', tmp')
    BY <2>1, <2>6 DEF WriterOK, Adds
  <2>8. \A e \in acked' : Links(registry', e) /\ Done(e, ledger'.book)
    BY <1>4, <2>6 DEF Move, Adds, Links
  <2>. QED BY <1>1, <2>4, <2>6, <2>7, <2>8, LoneStep
<1>. QED BY <1>2, <1>3, <1>4

LEMMA LoneProject ==
  ASSUME IInv, LoneInv, OneWriter, NEW p \in Process, LoadForSync(p) \/ ProjectRegistry(p)
  PROVE  LoneInv'
<1>. USE LoneFacts
<1>1. /\ pc[p] \in {"loading", "projecting"} /\ p \in Writer
      /\ WriterOK(pc[p], job[p], registry, tmp)
  <2>1. pc[p] \in {"loading", "projecting"}
    BY DEF LoadForSync, ProjectRegistry
  <2>. QED BY <2>1 DEF ImporterOK
<1>2. CASE LoadForSync(p)
  <2> DEFINE j == [job[p] EXCEPT !.book = registry]
  <2>1. /\ j.book = registry /\ j.handle = job[p].handle /\ j.event = job[p].event
        /\ j.build = job[p].build /\ j.books = job[p].books
    BY DEF Job
  <2>2. pc' = [pc EXCEPT ![p] = "projecting"] /\ job' = [job EXCEPT ![p] = j] /\ pc[p] = "loading"
    BY <1>2 DEF LoadForSync, Goto
  <2> HIDE DEF j
  <2>3. WriterOK("projecting", j, registry, tmp)
    BY <1>1, <2>1, <2>2 DEF WriterOK, Rebuilding
  <2>. QED BY <1>1, <1>2, <2>2, <2>3, LoneQuiet DEF LoadForSync
<1>3. CASE ProjectRegistry(p)
  <2>1. pc[p] = "projecting" /\ job[p].book = registry
    BY <1>1, <1>3 DEF ProjectRegistry, WriterOK
  <2>2. CASE job[p].build = None
    <3>1. ledger' = Project(ledger, job[p].book) /\ Quit(p)
          /\ acked' = acked \cup ({job[p].event} \ {None})
          /\ registry' = registry /\ tmp' = tmp
      BY <1>3, <2>2 DEF ProjectRegistry
    <3>2. ledger'.book = registry
      BY <2>1, <3>1 DEF Project, Ledger
    <3>3. registry # None
      BY LedgerAssumption
    <3>4. \A e \in acked' : Links(registry, e)
      BY <1>1, <2>1, <3>1 DEF WriterOK
    <3>. QED BY <3>1, <3>2, <3>3, <3>4, LoneQuit DEF Done
  <2>3. CASE job[p].build # None
    <3> DEFINE made == Project(job[p].build, job[p].book)
               j == [job[p] EXCEPT !.build = made]
    <3>1. pc' = [pc EXCEPT ![p] = "verifying"] /\ job' = [job EXCEPT ![p] = j]
          /\ UNCHANGED <<registry, tmp, ledger, acked>>
      BY <1>3, <2>3 DEF ProjectRegistry, Goto
    <3>2. job[p].build \in Ledger
      BY <2>3 DEF Job
    <3>3. made.book = registry /\ made \in Ledger
      BY <2>1, <3>2 DEF Project, Ledger
    <3> HIDE DEF made
    <3>4. /\ j.build = made /\ j.handle = job[p].handle /\ j.event = job[p].event
          /\ j.books = job[p].books
      BY DEF Job
    <3> HIDE DEF j
    <3>5. Rebuilding("verifying", j, registry) /\ made # None
      BY <1>1, <2>1, <2>3, <3>3, <3>4, LedgerAssumption DEF WriterOK, Rebuilding
    <3>6. WriterOK("verifying", j, registry, tmp)
      BY <1>1, <2>1, <3>3, <3>4, <3>5 DEF WriterOK, Rebuilding
    <3>. QED BY <1>1, <3>1, <3>6, LoneQuiet
  <2>. QED BY <2>2, <2>3
<1>. QED BY <1>2, <1>3

LEMMA LoneImport ==
  ASSUME IInv, LoneInv, OneWriter, NEW p \in Process,
         (\E r \in Run : ImportRun(p, r)) \/ CommitImport(p)
  PROVE  LoneInv'
<1>. USE LoneFacts
<1>1. ASSUME NEW r \in Run, ImportRun(p, r) PROVE LoneInv'
  <2> DEFINE j == [job[p] EXCEPT !.run = r, !.artifacts = dirs[r].artifacts]
  <2>1. /\ j.handle = job[p].handle /\ j.event = job[p].event /\ j.build = job[p].build
        /\ j.books = job[p].books
    BY DEF Job
  <2>2. pc' = [pc EXCEPT ![p] = "importing"] /\ job' = [job EXCEPT ![p] = j]
        /\ pc[p] \in {"idle", "building"}
    BY <1>1 DEF ImportRun, Goto
  <2> HIDE DEF j
  <2>3. p \in Writer => WriterOK("importing", j, registry, tmp)
    BY <2>1, <2>2 DEF WriterOK, Rebuilding
  <2>4. p \notin Writer => ImporterOK("importing", j)
    BY <2>1 DEF ImporterOK
  <2>. QED BY <1>1, <2>2, <2>3, <2>4, LoneQuiet DEF ImportRun
<1>2. CASE CommitImport(p)
  <2>1. CASE job[p].build = None
    <3>1. ledger' = Import(ledger, job[p].run, ReadContent(p)) /\ Quit(p)
          /\ UNCHANGED <<registry, tmp, acked>>
      BY <1>2, <2>1 DEF CommitImport
    <3>2. ledger'.book = ledger.book
      BY <3>1 DEF Import, Ledger
    <3>. QED BY <3>1, <3>2, LoneQuit
  <2>2. CASE job[p].build # None
    <3> DEFINE made == Import(job[p].build, job[p].run, ReadContent(p))
               j == [job[p] EXCEPT !.build = made, !.left = @ \ {job[p].run}]
    <3>1. pc' = [pc EXCEPT ![p] = "building"] /\ job' = [job EXCEPT ![p] = j]
          /\ UNCHANGED <<registry, tmp, ledger, acked>>
          /\ pc[p] = "importing"
      BY <1>2, <2>2 DEF CommitImport, Goto
    <3>2. job[p].build \in Ledger /\ p \in Writer
      BY <2>2 DEF Job, ImporterOK
    <3>3. made.book = job[p].build.book
      BY <3>2 DEF Import, Ledger
    <3> HIDE DEF made
    <3>4. /\ j.build = made /\ j.handle = job[p].handle /\ j.event = job[p].event
          /\ j.books = job[p].books
      BY DEF Job
    <3> HIDE DEF j
    <3>5. Rebuilding("building", j, registry) /\ j.handle = "none"
      BY <2>2, <3>1, <3>2, <3>3, <3>4 DEF WriterOK, Rebuilding
    <3>6. WriterOK("building", j, registry, tmp)
      BY <3>5 DEF WriterOK, Rebuilding
    <3>. QED BY <3>1, <3>2, <3>6, LoneQuiet
  <2>. QED BY <2>1, <2>2
<1>. QED BY <1>1, <1>2

LEMMA LoneRebuild ==
  ASSUME IInv, LoneInv, OneWriter, NEW p \in Process, AllImported(p) \/ Verify(p) \/ Swap(p)
  PROVE  LoneInv'
<1>. USE LoneFacts
<1>1. /\ pc[p] \in {"building", "verifying", "swapping"} /\ p \in Writer
      /\ WriterOK(pc[p], job[p], registry, tmp) /\ JobOK(pc[p], job[p])
      /\ job[p].build # None /\ Rebuilding(pc[p], job[p], registry)
  <2>1. pc[p] \in {"building", "verifying", "swapping"}
    BY DEF AllImported, Verify, Swap
  <2>2. p \in Writer /\ WriterOK(pc[p], job[p], registry, tmp) /\ JobOK(pc[p], job[p])
    BY <2>1 DEF ImporterOK
  <2>3. job[p].build # None
    BY <2>1, <2>2 DEF JobOK
  <2>. QED BY <2>1, <2>2, <2>3 DEF WriterOK
<1>2. CASE AllImported(p)
  <2>1. pc' = [pc EXCEPT ![p] = "loading"] /\ job' = [job EXCEPT ![p] = job[p]]
        /\ UNCHANGED <<registry, tmp, ledger, acked>> /\ pc[p] = "building"
    BY <1>1, <1>2 DEF AllImported, Goto, Rebuilding
  <2>2. WriterOK("loading", job[p], registry, tmp)
    BY <1>1, <2>1 DEF WriterOK, Rebuilding
  <2>. QED BY <1>1, <2>1, <2>2, LoneQuiet
<1>3. CASE Verify(p)
  <2>1. pc' = [pc EXCEPT ![p] = "swapping"] /\ job' = [job EXCEPT ![p] = job[p]]
        /\ UNCHANGED <<registry, tmp, ledger, acked>> /\ pc[p] = "verifying"
    BY <1>3 DEF Verify, Goto
  <2>2. WriterOK("swapping", job[p], registry, tmp)
    BY <1>1, <2>1 DEF WriterOK, Rebuilding
  <2>. QED BY <1>1, <2>1, <2>2, LoneQuiet
<1>4. CASE Swap(p)
  <2>1. ledger'.book = registry /\ Quit(p) /\ UNCHANGED <<registry, tmp, acked>>
    BY <1>1, <1>4 DEF Swap, WriterOK
  <2>2. registry # None
    BY LedgerAssumption
  <2>. QED BY <2>1, <2>2, LoneQuit DEF Done
<1>. QED BY <1>2, <1>3, <1>4

LEMMA LoneInit == OneWriter /\ Init => LoneInv
<1>. SUFFICES ASSUME Init PROVE LoneInv
  OBVIOUS
<1>1. EmptyRegistry \in Registry
  BY EmptySeq DEF EmptyRegistry, Registry
<1>2. WriterOK("idle", NoJob, registry, tmp) /\ ImporterOK("idle", NoJob)
  BY DEF WriterOK, ImporterOK, NoJob
<1>. QED BY <1>1, <1>2 DEF Init, LoneInv, Process

LEMMA LoneNext ==
  ASSUME IInv, LoneInv, OneWriter, [Next]_vars PROVE LoneInv'
<1>1. ASSUME NEW p \in Writer, DefectCommand(p) PROVE LoneInv'
  BY <1>1, LoneCommand
<1>2. ASSUME NEW p \in Process, Step(p) PROVE LoneInv'
  <2>1. CASE Stop(p)
    BY <2>1, LoneQuit, LoneFacts DEF Stop
  <2>. QED BY <1>2, <2>1, LoneWrite, LoneProject, LoneImport, LoneRebuild DEF Step
<1>3. ASSUME NEW r \in Run, NEW c \in Contents[r], ChangeRun(r, c) PROVE LoneInv'
  BY <1>3 DEF ChangeRun, LoneInv
<1>4. CASE UNCHANGED vars
  BY <1>4 DEF vars, LoneInv
<1>. QED BY <1>1, <1>2, <1>3, <1>4 DEF Next

LEMMA LinkInvariantHolds == OneWriter => (Spec => []LinkIInv)
<1>. SUFFICES ASSUME OneWriter PROVE Spec => []LinkIInv
  OBVIOUS
<1>1. Init => LinkIInv
  BY InitIInv, LoneInit DEF LinkIInv
<1>2. LinkIInv /\ [Next]_vars => LinkIInv'
  BY NextKeeps, LoneNext DEF LinkIInv
<1>. QED BY <1>1, <1>2, PTL DEF Spec

(* With one writer, whose rebuilds are given the registry, every finding   *)
(* and artifact whose link was reported stays in the ledger, however often *)
(* run directories change, are imported again and the ledger is rebuilt.   *)
THEOREM LinksStay == OneWriter => (Spec => []ReportedLinksStay)
<1>. SUFFICES ASSUME OneWriter PROVE Spec => []ReportedLinksStay
  OBVIOUS
<1>1. LinkIInv => ReportedLinksStay
  <2>. SUFFICES ASSUME LinkIInv, NEW e \in acked
       PROVE  /\ e.type = "FINDING_LINKED" => e.subject \in KnownFindings(ledger)
              /\ e.type = "ARTIFACT_LINKED" => e.subject[1] \in KnownArtifacts(ledger)
    BY DEF ReportedLinksStay
  <2>1. LinkEvent(e) => ledger.book # None /\ Links(ledger.book, e)
    BY DEF LinkIInv, LoneInv, Done
  <2>2. ledger.book # None => CanProject(ledger, ledger.book)
    BY DEF LinkIInv, IInv, LedgerOK
  <2>3. ASSUME e.type = "FINDING_LINKED" PROVE e.subject \in KnownFindings(ledger)
    <3>1. <<e.subject, e.defect>> \in ledger.book.findings /\ CanProject(ledger, ledger.book)
      BY <2>1, <2>2, <2>3 DEF LinkEvent, Links
    <3>2. <<e.subject, e.defect>>[1] \in KnownFindings(ledger)
      BY <3>1 DEF CanProject
    <3>. QED BY <3>2
  <2>4. ASSUME e.type = "ARTIFACT_LINKED" PROVE e.subject[1] \in KnownArtifacts(ledger)
    <3> DEFINE a == e.subject[1]
               x == e.subject[2]
    <3>1. <<e.defect, a, x>> \in ledger.book.artifacts /\ CanProject(ledger, ledger.book)
      BY <2>1, <2>2, <2>4 DEF LinkEvent, Links
    <3> HIDE DEF a, x
    <3>2. <<e.defect, a, x>>[2] \in KnownArtifacts(ledger)
      BY <3>1 DEF CanProject
    <3>3. a \in KnownArtifacts(ledger)
      BY <3>2
    <3>. QED BY <3>3 DEF a
  <2>. QED BY <2>3, <2>4
<1>. QED BY <1>1, LinkInvariantHolds, PTL

(* With one writer the moves of every defect are only ever appended to,    *)
(* although an event is sorted in by its second and a hash nobody knows:   *)
(* the validator refuses a move that would land among earlier ones.        *)
THEOREM HistoriesOnlyGrow == OneWriter => (Spec => HistoryOnlyAppends)
<1>. SUFFICES ASSUME OneWriter PROVE Spec => HistoryOnlyAppends
  OBVIOUS
<1> DEFINE Grows == \A d \in Defect : Appended(registry.events, registry'.events, d)
<1>1. ASSUME LinkIInv, [Next]_vars, registry' # registry PROVE Grows
  <2>. USE <1>1
  <2>1. PICK p \in Process : Write(p) \/ Move(p)
    <3>1. ~ UNCHANGED vars
      BY DEF vars
    <3>2. ASSUME NEW p \in Writer, DefectCommand(p) PROVE registry' = registry
      BY <3>2 DEF DefectCommand, Load, Sync, CreateAgain, CreateDefect, LinkFinding,
                  LinkArtifact, TransitionDefect, Record, Rebuild
    <3>3. ASSUME NEW p \in Process, Step(p) PROVE registry' = registry \/ Write(p) \/ Move(p)
      BY <3>3 DEF Step, Open, LoadForSync, ProjectRegistry, ImportRun, CommitImport,
                  AllImported, Verify, Swap, Stop
    <3>4. \A r \in Run : \A c \in Contents[r] : ChangeRun(r, c) => registry' = registry
      BY DEF ChangeRun
    <3>. QED BY <3>1, <3>2, <3>3, <3>4 DEF Next
  <2>2. /\ pc[p] \in {"writing", "moving"} /\ p \in Writer
        /\ WriterOK(pc[p], job[p], registry, tmp)
    <3>1. pc[p] \in {"writing", "moving"}
      BY <2>1 DEF Write, Move
    <3>. QED BY <3>1 DEF LinkIInv, LoneInv, ImporterOK
  <2>3. CASE Write(p)
    BY <2>2, <2>3 DEF Write, WriterOK
  <2>4. CASE Move(p)
    BY <2>2, <2>4 DEF Move, WriterOK, Adds
  <2>. QED BY <2>1, <2>3, <2>4
<1>2. LinkIInv /\ [Next]_vars
        => [registry' # registry /\ Loadable /\ Loadable' => Grows]_registry
  BY <1>1
<1> HIDE DEF Grows
<1>3. Spec => [][registry' # registry /\ Loadable /\ Loadable' => Grows]_registry
  BY <1>2, LinkInvariantHolds, PTL DEF Spec
<1>. QED BY <1>3 DEF HistoryOnlyAppends, Grows
=============================================================================
