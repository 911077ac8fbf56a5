----------------------------- MODULE DefectLedger -----------------------------
(***************************************************************************)
(* Defect commands, imports, synchronisations and rebuilds as processes    *)
(* that share the registry file, its temporary file, the ledger database   *)
(* and the run directories (defects.py, ledger.py).                        *)
(*                                                                         *)
(* A database transaction is one step. Writing the registry is three: the  *)
(* temporary file, whose name all writers share, is truncated, written and *)
(* moved. A writer whose temporary file another one moved keeps writing    *)
(* into the moved file. Directories change between the commands.           *)
(***************************************************************************)
EXTENDS EvidenceLedger

CONSTANTS
  Writer,     \* processes that change the registry or rebuild the ledger
  Importer,   \* processes that import run directories
  Listing,    \* what a rebuild may list: run directories, and the registry or not
  MaxEvents,  \* bound: no event is recorded after this many
  Torn        \* the content of a file that is truncated or mixed

Process == Writer \cup Importer

ASSUME LedgerAssumption ==
  /\ MaxEvents \in Nat
  /\ Listing \subseteq (SUBSET Run) \X BOOLEAN
  /\ None \notin Registry /\ None \notin Event /\ None \notin Ledger /\ None \notin Run
  /\ Torn \notin Registry \cup {None}

VARIABLES
  registry,   \* defect-registry.json
  tmp,        \* defect-registry.json.tmp
  ledger,     \* the committed database
  dirs,       \* the run directories
  pc,         \* where the command of each process is
  job,        \* what it has read and computed
  acked       \* history: the events that were recorded, projected and reported

vars == <<registry, tmp, ledger, dirs, pc, job, acked>>

Phase == {"idle", "deciding", "opening", "writing", "moving", "loading", "projecting",
          "importing", "building", "verifying", "swapping"}

(* base: the registry the command computes from; registry, event: its new  *)
(* content; handle: the file its open temporary file has become; book: the *)
(* registry to project; run, artifacts: what an import has read; build,    *)
(* left, books: the ledger a rebuild makes and what it still has to do.    *)
Job == [base : Registry \cup {None}, registry : Registry \cup {None}, event : Event \cup {None},
        handle : {"none", "tmp", "registry", "gone"}, book : Registry \cup {None},
        run : Run \cup {None}, artifacts : SUBSET Artifact,
        build : Ledger \cup {None}, left : SUBSET Run, books : BOOLEAN]

NoJob == [base |-> None, registry |-> None, event |-> None, handle |-> "none", book |-> None,
          run |-> None, artifacts |-> {}, build |-> None, left |-> {}, books |-> FALSE]

TypeOK ==
  /\ registry \in Registry \cup {Torn}
  /\ tmp \in Registry \cup {Torn, None}
  /\ ledger \in Ledger
  /\ dirs \in [Run -> Content]
  /\ pc \in [Process -> Phase]
  /\ job \in [Process -> Job]
  /\ acked \subseteq Event

(* An initialized registry, an empty ledger, finished runs. *)
Init ==
  /\ registry = EmptyRegistry
  /\ tmp = None
  /\ ledger = EmptyLedger
  /\ dirs \in {d \in [Run -> UNION {Contents[r] : r \in Run}] : \A r \in Run : d[r] \in Contents[r]}
  /\ pc = [p \in Process |-> "idle"]
  /\ job = [p \in Process |-> NoJob]
  /\ acked = {}

Goto(p, phase) == pc' = [pc EXCEPT ![p] = phase]

Quit(p) == Goto(p, "idle") /\ job' = [job EXCEPT ![p] = NoJob]

Loadable == registry # Torn /\ Valid(registry)

-----------------------------------------------------------------------------
(* Defect commands: the registry is loaded, references are looked up in    *)
(* the ledger, the new content is computed and validated.                  *)

(* A slip that takes the projected registry for the authority. *)
LoadProjected(p) ==
  /\ pc[p] = "idle"
  /\ ledger.book # None
  /\ Goto(p, "deciding")
  /\ job' = [job EXCEPT ![p].base = ledger.book]
  /\ UNCHANGED <<registry, tmp, ledger, dirs, acked>>

Load(p) ==
  /\ pc[p] = "idle"
  /\ Loadable
  /\ Goto(p, "deciding")
  /\ job' = [job EXCEPT ![p].base = registry]
  /\ UNCHANGED <<registry, tmp, ledger, dirs, acked>>

Record(p, event, candidates) ==
  /\ Len(job[p].base.events) < MaxEvents
  /\ \E r \in candidates :
        /\ Valid(r)
        /\ job' = [job EXCEPT ![p] = [NoJob EXCEPT !.registry = r, !.event = event]]
  /\ Goto(p, "opening")
  /\ UNCHANGED <<registry, tmp, ledger, dirs, acked>>

CreateDefect(p, d, t, y) ==
  /\ pc[p] = "deciding"
  /\ d \notin Present(job[p].base)
  /\ Record(p, CreatedEvent(d, t, y), Created(job[p].base, d, CreatedEvent(d, t, y)))

(* The defect exists already: only the synchronisation is done. *)
CreateAgain(p, d) ==
  /\ pc[p] = "deciding"
  /\ d \in Present(job[p].base)
  /\ Goto(p, "loading")
  /\ job' = [job EXCEPT ![p] = NoJob]
  /\ UNCHANGED <<registry, tmp, ledger, dirs, acked>>

(* A link that exists already is reported without any further step. *)
LinkFinding(p, d, f, t) ==
  LET e == FindingEvent(d, f, t)
  IN  /\ pc[p] = "deciding"
      /\ d \in Present(job[p].base)
      /\ f \in KnownFindings(ledger)
      /\ <<f, d>> \notin job[p].base.findings
      /\ Record(p, e, FindingLinked(job[p].base, d, f, e))

LinkArtifact(p, d, a, x, t) ==
  LET e == ArtifactEvent(d, a, x, t)
  IN  /\ pc[p] = "deciding"
      /\ d \in Present(job[p].base)
      /\ a \in KnownArtifacts(ledger)
      /\ <<d, a, x>> \notin job[p].base.artifacts
      /\ Record(p, e, ArtifactLinked(job[p].base, d, a, x, e))

TransitionDefect(p, d, to, t, y) ==
  LET e == TransitionEvent(job[p].base, d, to, t, y)
  IN  /\ pc[p] = "deciding"
      /\ CanTransition(job[p].base, d, to)
      /\ Record(p, e, Transitioned(job[p].base, d, to, e))

-----------------------------------------------------------------------------
(* _write_registry: write_text truncates and writes the temporary file,    *)
(* os.replace moves it. Nothing is restored when a step fails.             *)

Open(p) ==
  /\ pc[p] = "opening"
  /\ tmp' = Torn
  /\ job' = [job EXCEPT ![p].handle = "tmp"]
  /\ Goto(p, "writing")
  /\ UNCHANGED <<registry, ledger, dirs, acked>>

(* What is written at the start of a file somebody else wrote to may leave *)
(* a mixture; a file that was moved away is out of sight.                  *)
Over(file, new) == IF file \in {Torn, new} THEN {new} ELSE {new, Torn}

Write(p) ==
  /\ pc[p] = "writing"
  /\ tmp' \in IF job[p].handle = "tmp" THEN Over(tmp, job[p].registry) ELSE {tmp}
  /\ registry' \in IF job[p].handle = "registry" THEN Over(registry, job[p].registry)
                    ELSE {registry}
  /\ Goto(p, "moving")
  /\ UNCHANGED <<ledger, dirs, job, acked>>

Moved(handle) == IF handle = "tmp" THEN "registry" ELSE IF handle = "none" THEN "none" ELSE "gone"

Move(p) ==
  /\ pc[p] = "moving"
  /\ tmp # None
  /\ registry' = tmp
  /\ tmp' = None
  /\ job' = [q \in Process |->
       IF q = p THEN [job[q] EXCEPT !.handle = "none"]
       ELSE [job[q] EXCEPT !.handle = Moved(@)]]
  /\ Goto(p, "loading")
  /\ UNCHANGED <<ledger, dirs, acked>>

-----------------------------------------------------------------------------
(* sync_defect_registry, on the ledger or on the one a rebuild makes. The  *)
(* registry is read before the transaction begins.                         *)

Target(p) == IF job[p].build = None THEN ledger ELSE job[p].build

Sync(p) ==
  /\ pc[p] = "idle"
  /\ Goto(p, "loading")
  /\ UNCHANGED <<registry, tmp, ledger, dirs, job, acked>>

LoadForSync(p) ==
  /\ pc[p] = "loading"
  /\ Loadable
  /\ job' = [job EXCEPT ![p].book = registry]
  /\ Goto(p, "projecting")
  /\ UNCHANGED <<registry, tmp, ledger, dirs, acked>>

ProjectRegistry(p) ==
  /\ pc[p] = "projecting"
  /\ CanProject(Target(p), job[p].book)
  /\ IF job[p].build = None
       THEN /\ ledger' = Project(ledger, job[p].book)
            /\ acked' = acked \cup ({job[p].event} \ {None})
            /\ Quit(p)
       ELSE /\ job' = [job EXCEPT ![p].build = Project(@, job[p].book)]
            /\ Goto(p, "verifying")
            /\ UNCHANGED <<ledger, acked>>
  /\ UNCHANGED <<registry, tmp, dirs>>

-----------------------------------------------------------------------------
(* import_artifact_directory: the manifest is read before the transaction, *)
(* the findings are read in it.                                            *)

ImportRun(p, r) ==
  /\ \/ pc[p] = "idle" /\ p \in Importer
     \/ pc[p] = "building" /\ r \in job[p].left
  /\ job' = [job EXCEPT ![p] = [job[p] EXCEPT !.run = r, !.artifacts = dirs[r].artifacts]]
  /\ Goto(p, "importing")
  /\ UNCHANGED <<registry, tmp, ledger, dirs, acked>>

ReadContent(p) == [artifacts |-> job[p].artifacts, findings |-> dirs[job[p].run].findings]

CommitImport(p) ==
  /\ pc[p] = "importing"
  /\ CanImport(Target(p), job[p].run, ReadContent(p))
  /\ IF job[p].build = None
       THEN /\ ledger' = Import(ledger, job[p].run, ReadContent(p))
            /\ Quit(p)
       ELSE /\ job' = [job EXCEPT ![p] =
                 [job[p] EXCEPT !.build = Import(@, job[p].run, ReadContent(p)),
                                !.left = @ \ {job[p].run}]]
            /\ Goto(p, "building")
            /\ UNCHANGED ledger
  /\ UNCHANGED <<registry, tmp, dirs, acked>>

-----------------------------------------------------------------------------
(* rebuild_ledger: into a temporary database, moved over the ledger when   *)
(* it verifies. One rebuild at a time: the temporary name is fixed.        *)

Rebuild(p, listing) ==
  /\ pc[p] = "idle"
  /\ \A q \in Process : job[q].build = None
  /\ job' = [job EXCEPT ![p] =
       [NoJob EXCEPT !.build = EmptyLedger, !.left = listing[1], !.books = listing[2]]]
  /\ Goto(p, "building")
  /\ UNCHANGED <<registry, tmp, ledger, dirs, acked>>

AllImported(p) ==
  /\ pc[p] = "building"
  /\ job[p].left = {}
  /\ Goto(p, IF job[p].books THEN "loading" ELSE "verifying")
  /\ UNCHANGED <<registry, tmp, ledger, dirs, job, acked>>

Verify(p) ==
  /\ pc[p] = "verifying"
  /\ Verified(job[p].build, dirs, registry)
  /\ Goto(p, "swapping")
  /\ UNCHANGED <<registry, tmp, ledger, dirs, job, acked>>

Swap(p) ==
  /\ pc[p] = "swapping"
  /\ ledger' = job[p].build
  /\ Quit(p)
  /\ UNCHANGED <<registry, tmp, dirs, acked>>

-----------------------------------------------------------------------------

(* A refusal, an error or the death of the process: nothing is undone but  *)
(* the transaction and the temporary database.                             *)
Stop(p) ==
  /\ pc[p] # "idle"
  /\ Quit(p)
  /\ UNCHANGED <<registry, tmp, ledger, dirs, acked>>

(* A run directory is worked on and its manifests are refreshed. *)
ChangeRun(r, c) ==
  /\ c # dirs[r]
  /\ dirs' = [dirs EXCEPT ![r] = c]
  /\ UNCHANGED <<registry, tmp, ledger, pc, job, acked>>

DefectCommand(p) ==
  \/ Load(p)
  \/ Sync(p)
  \/ \E d \in Defect : CreateAgain(p, d)
  \/ \E d \in Defect, t \in Clock, y \in Reason : CreateDefect(p, d, t, y)
  \/ \E d \in Defect, f \in Finding, t \in Clock : LinkFinding(p, d, f, t)
  \/ \E d \in Defect, a \in Artifact, x \in Relation, t \in Clock : LinkArtifact(p, d, a, x, t)
  \/ \E d \in Defect, to \in Status, t \in Clock, y \in Reason : TransitionDefect(p, d, to, t, y)
  \/ \E listing \in Listing : Rebuild(p, listing)

Step(p) ==
  \/ Open(p)
  \/ Write(p)
  \/ Move(p)
  \/ LoadForSync(p)
  \/ ProjectRegistry(p)
  \/ \E r \in Run : ImportRun(p, r)
  \/ CommitImport(p)
  \/ AllImported(p)
  \/ Verify(p)
  \/ Swap(p)
  \/ Stop(p)

Next ==
  \/ \E p \in Writer : DefectCommand(p)
  \/ \E p \in Process : Step(p)
  \/ \E r \in Run : \E c \in Contents[r] : ChangeRun(r, c)

Spec == Init /\ [][Next]_vars

-----------------------------------------------------------------------------
(* Properties.                                                             *)

Quiescent == \A p \in Process : pc[p] = "idle"

(* STAGE-5-DEFECT-REGISTRY.md: closing needs resolution evidence, and what *)
(* is linked is not removed. In the database, everything the projected     *)
(* defects link is there, and every closed defect has its evidence, under  *)
(* any interleaving of commands, imports and rebuilds, also of several     *)
(* writers that destroy each other's registry files.                       *)
ProjectedLinksHold ==
  ledger.book # None =>
    /\ LinkedFindings(ledger) \subseteq KnownFindings(ledger)
    /\ LinkedArtifacts(ledger) \subseteq KnownArtifacts(ledger)
    /\ \A d \in Defect : ledger.book.status[d] = "CLOSED" =>
         \E a \in KnownArtifacts(ledger) : <<d, a, "resolution_evidence">> \in ledger.book.artifacts

(* One writer: a finding or artifact whose link was recorded, projected    *)
(* and reported stays in the ledger, however its run directory changes and *)
(* is imported again, and through interrupted commands and rebuilds.       *)
ReportedLinksStay ==
  \A e \in acked :
    /\ e.type = "FINDING_LINKED" => e.subject \in KnownFindings(ledger)
    /\ e.type = "ARTIFACT_LINKED" => e.subject[1] \in KnownArtifacts(ledger)

(* Every move of a defect is still there, after the same moves as before.  *)
Appended(old, new, d) ==
  \A i \in Moves(old, d) : \E j \in Moves(new, d) :
    /\ new[j] = old[i]
    /\ {new[m] : m \in {x \in Moves(new, d) : x < j}} = {old[m] : m \in {x \in Moves(old, d) : x < i}}

(* One writer: the moves of a defect are only ever appended to, although   *)
(* every event is sorted into the list by its second and an unknown hash.  *)
HistoryOnlyAppends ==
  [][registry' # registry /\ Loadable /\ Loadable' =>
       \A d \in Defect : Appended(registry.events, registry'.events, d)]_registry

(* A transition the lifecycle allows is admitted by the validator whenever *)
(* its second is later than all of the defect's moves, whatever the hashes *)
(* and whatever was recorded of other defects; within one second it may be *)
(* refused.                                                                *)
LaterTransitionsAdmitted ==
  \A p \in Writer : pc[p] = "deciding" =>
    LET r == job[p].base
    IN  \A d \in Present(r), to \in Status, y \in Reason :
        \A t \in Clock \cup {r.events[i].at + 1 : i \in DOMAIN r.events} :
          CanTransition(r, d, to) /\ (\A i \in Moves(r.events, d) : r.events[i].at < t)
          => \A s \in Transitioned(r, d, to, TransitionEvent(r, d, to, t, y)) : Valid(s)

=============================================================================
