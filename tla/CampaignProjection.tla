--------------------------- MODULE CampaignProjection ---------------------------
(***************************************************************************)
(* Projection of a project's evidence onto its campaign workspace.         *)
(*                                                                         *)
(*   AUTO-4B (prospective_campaign_projection.py) takes the assessments of *)
(*   AUTO-2 artifacts in, and makes the workspace when there is none       *)
(*   AUTO-4C (prospective_campaign_event_projection.py) replays the        *)
(*   decisions and outcomes of one source workspace, event by event        *)
(*                                                                         *)
(* Both try the whole command on a copy first. On the workspace itself     *)
(* every event is a command of its own with its own rollback, and nothing  *)
(* is undone across events: a command that fails half way is repeated.     *)
(*                                                                         *)
(* A source workspace is an artifact that was downloaded; another one of   *)
(* the same pull request has more events. It holds one case. Its registry  *)
(* identity is given by its creation time, an event identity by the events *)
(* up to it. Every source outcome has its declaration; a command refused   *)
(* before its first write changes nothing and is not shown.                *)
(***************************************************************************)
EXTENDS Naturals, Sequences, FiniteSets, SequencesExt

CONSTANTS
  Source,       \* source workspaces, and the case each one holds
  Projector,    \* processes, numbered
  Created,      \* creation times of source workspaces
  MaxEvents,    \* bound: events of a source
  MaxErrors,    \* bound: I/O errors
  MaxFaults,    \* bound: deaths, and archives copied in part
  MaxOverlap    \* bound: events of two sources and failures when commands overlap

ASSUME ProjectionAssumption ==
  /\ IsFiniteSet(Source) /\ IsFiniteSet(Created)
  /\ Projector \subseteq Nat
  /\ Created \subseteq Nat \ {0}
  /\ MaxEvents \in Nat /\ MaxErrors \in Nat /\ MaxFaults \in Nat /\ MaxOverlap \in Nat

VARIABLES
  created,    \* when each source workspace was made
  source,     \* the events of each source workspace
  lineage,    \* the creation time the destination has taken over; 0 before it is made
  registry,   \* comparison-registry.json of the destination
  manifest,   \* reconciliation-sources.json
  dirs,       \* directories of cases and outcomes
  whole,      \* decisions with their review archive
  part,       \* decisions with a part of it
  proc,       \* what each process is doing
  reported,   \* chains reported as projected
  alone,      \* no two commands have been under way together
  errors, faults

destination == <<lineage, registry, manifest, dirs, whole, part>>
history == <<created, source, reported, alone, errors, faults>>
projectionVars == <<created, source, lineage, registry, manifest, dirs, whole, part, proc,
          reported, alone, errors, faults>>

Event == [type : {"review", "outcome"}, case : Source, no : 1..MaxEvents]

Chain == BoundedSeq(Event, MaxEvents * Cardinality(Source))

Registry == [cases : SUBSET Source, events : Chain]

(* An outcome is mapped under its identity, the chain that ends in it. *)
Manifest == [cases : SUBSET Source, outcomes : SUBSET Chain]

Files == [registry : Registry, manifest : Manifest]

Phase == {"idle", "assessing", "preflight", "checking", "replaying", "copying",
          "recording", "writing", "replacing", "mapping"}

(* chain: the source events read; at: the one being replayed; prefix: how  *)
(* many the destination had; base: the files read first; todo: the cases   *)
(* to take in; old, new: what a replacement started from and writes; dir:  *)
(* the directory it has placed; copied: it has made the archive.           *)
Process == [phase : Phase, chain : Chain, at : 0..MaxEvents + 1, prefix : 0..MaxEvents,
            todo : SUBSET Source, base : Files, old : Files, new : Files,
            dir : {"none"} \cup Source \cup Chain, copied : BOOLEAN]

EmptyRegistry == [cases |-> {}, events |-> <<>>]
EmptyManifest == [cases |-> {}, outcomes |-> {}]
NoFiles == [registry |-> EmptyRegistry, manifest |-> EmptyManifest]

Idle == [phase |-> "idle", chain |-> <<>>, at |-> 0, prefix |-> 0, todo |-> {}, base |-> NoFiles,
         old |-> NoFiles, new |-> NoFiles, dir |-> "none", copied |-> FALSE]

ProjectionTypeOK ==
  /\ created \in [Source -> Created]
  /\ \A s \in Source : Len(source[s]) <= MaxEvents /\ \A i \in DOMAIN source[s] : source[s][i] \in Event
  /\ lineage \in {0} \cup Created
  /\ registry.cases \subseteq Source /\ \A i \in DOMAIN registry.events : registry.events[i] \in Event
  /\ manifest.cases \subseteq Source
  /\ whole \subseteq Event /\ part \subseteq Event
  /\ \A p \in Projector : proc[p].phase \in Phase /\ proc[p].at \in 0..Len(proc[p].chain) + 1
  /\ alone \in BOOLEAN
  /\ errors \in 0..MaxErrors
  /\ faults \in 0..MaxFaults

ProjectionInit ==
  /\ created \in [Source -> Created]
  /\ source = [s \in Source |-> <<>>]
  /\ lineage = 0
  /\ registry = EmptyRegistry
  /\ manifest = EmptyManifest
  /\ dirs = {}
  /\ whole = {}
  /\ part = {}
  /\ proc = [p \in Projector |-> Idle]
  /\ reported = {}
  /\ alone = TRUE
  /\ errors = 0
  /\ faults = 0

Current == [registry |-> registry, manifest |-> manifest]

(* source_reconciliation_complete: everything recorded is mapped, nothing  *)
(* else is, and its files are there.                                       *)
OutcomeIds(r) == {SubSeq(r.events, 1, i) : i \in {j \in DOMAIN r.events : r.events[j].type = "outcome"}}

Reconciled(f) ==
  /\ f.manifest.cases = f.registry.cases
  /\ f.manifest.outcomes = OutcomeIds(f.registry)
  /\ f.registry.cases \subseteq dirs /\ OutcomeIds(f.registry) \subseteq dirs

----------------------------------------------------------------------------
(* The sources: a decision, or an outcome of an earlier decision. *)

SourceEvent(s, type) ==
  /\ alone
  /\ Len(source[s]) < MaxEvents
  /\ type = "outcome" => source[s] # <<>>
  /\ source' = [source EXCEPT ![s] = Append(@, [type |-> type, case |-> s, no |-> Len(source[s]) + 1])]
  /\ UNCHANGED <<created, destination, proc, reported, alone, errors, faults>>

----------------------------------------------------------------------------
(* Processes. *)

Becomes(p, r) == proc' = [proc EXCEPT ![p] = r]

At(p, phase) == proc[p].phase = phase

(* The first idle process takes a command. Bounds: two commands overlap    *)
(* once and while sources are short, and then nothing new begins.          *)
OthersIdle(p) == \A q \in Projector \ {p} : At(q, "idle")

Starts(p, r) ==
  /\ At(p, "idle") /\ \A q \in Projector : q < p => ~At(q, "idle")
  /\ alone
  /\ OthersIdle(p) \/ \A s, t \in Source : s # t => Len(source[s]) + Len(source[t]) + errors + faults <= MaxOverlap
  /\ Becomes(p, r)
  /\ alone' = (alone /\ OthersIdle(p))
  /\ UNCHANGED <<destination, created, source, reported, errors, faults>>

Only(p, r) == Becomes(p, r) /\ UNCHANGED <<destination, history>>

Fail(p) == Only(p, Idle)

(* The process dies. *)
Die(p) ==
  /\ ~At(p, "idle")
  /\ faults < MaxFaults
  /\ faults' = faults + 1
  /\ Becomes(p, Idle)
  /\ UNCHANGED <<destination, created, source, reported, alone, errors>>

Erring ==
  /\ errors < MaxErrors
  /\ errors' = errors + 1
  /\ UNCHANGED <<created, source, lineage, part, reported, alone, faults>>

(* Mutant: compares what events say and not their identities.              *)
SameContents(events, chain, n) == events = SubSeq(chain, 1, n)

(* These events are the first n of the source, to their identities: they   *)
(* hash the registry identity and all earlier events.                      *)
SameEvents(events, chain, n) ==
  /\ lineage = created[chain[1].case]
  /\ events = SubSeq(chain, 1, n)

----------------------------------------------------------------------------
(* One recording: a directory is placed, the registry is replaced and then *)
(* the manifest; an error puts both files back and removes the directory.  *)
(* (The windows inside it are those of ProspectiveCampaign.)               *)

Place(p, r, new, dir) ==
  /\ dir \notin dirs
  /\ dirs' = dirs \cup {dir}
  /\ Becomes(p, [r EXCEPT !.phase = "replacing", !.new = new, !.dir = dir])
  /\ UNCHANGED <<lineage, registry, manifest, whole, part, history>>

ReplaceRegistry(p) ==
  /\ At(p, "replacing")
  /\ registry' = proc[p].new.registry
  /\ Becomes(p, [proc[p] EXCEPT !.phase = "mapping", !.old = Current])
  /\ UNCHANGED <<lineage, manifest, dirs, whole, part, history>>

Written(r) ==
  [r EXCEPT !.phase = IF r.chain = <<>> THEN "assessing" ELSE "replaying",
            !.at = IF r.chain = <<>> THEN 0 ELSE r.at + 1,
            !.old = NoFiles, !.new = NoFiles, !.dir = "none"]

(* An outcome whose identity is not the source's ends the projection after *)
(* it was recorded.                                                        *)
Reproduced(r) == r.chain = <<>> \/ SameEvents(r.new.registry.events, r.chain, r.at)

ReplaceManifest(p) ==
  /\ At(p, "mapping")
  /\ manifest' = proc[p].new.manifest
  /\ Becomes(p, IF Reproduced(proc[p]) THEN Written(proc[p]) ELSE Idle)
  /\ UNCHANGED <<lineage, registry, dirs, whole, part, history>>

(* Mutant: the directory is left behind.                                   *)
UndoFilesOnly(p) ==
  /\ At(p, "replacing") \/ At(p, "mapping")
  /\ Erring
  /\ registry' = IF At(p, "mapping") THEN proc[p].old.registry ELSE registry
  /\ manifest' = IF At(p, "mapping") THEN proc[p].old.manifest ELSE manifest
  /\ Becomes(p, Idle)
  /\ UNCHANGED <<dirs, whole>>

Undo(p) ==
  /\ At(p, "replacing") \/ At(p, "mapping")
  /\ Erring
  /\ registry' = IF At(p, "mapping") THEN proc[p].old.registry ELSE registry
  /\ manifest' = IF At(p, "mapping") THEN proc[p].old.manifest ELSE manifest
  /\ dirs' = dirs \ {proc[p].dir}
  /\ Becomes(p, Idle)
  /\ UNCHANGED whole

----------------------------------------------------------------------------
(* AUTO-4B. *)

(* Without a destination the staged workspace is moved into place: the     *)
(* oldest of the artifacts gives it its identity.                          *)
Oldest(S, t) == (\E s \in S : created[s] = t) /\ \A s \in S : t <= created[s]

(* Mutant: it is moved over the workspace that is there.                   *)
CreateWorkspaceAgain(S) ==
  /\ S # {}
  /\ \E t \in Created : Oldest(S, t) /\ lineage' = t
  /\ registry' = [cases |-> S, events |-> <<>>]
  /\ manifest' = [cases |-> S, outcomes |-> {}]
  /\ dirs' = S
  /\ UNCHANGED <<whole, part, proc, history>>

CreateWorkspace(S) ==
  /\ lineage = 0
  /\ S # {}
  /\ \E t \in Created : Oldest(S, t) /\ lineage' = t
  /\ registry' = [cases |-> S, events |-> <<>>]
  /\ manifest' = [cases |-> S, outcomes |-> {}]
  /\ dirs' = S
  /\ UNCHANGED <<whole, part, proc, history>>

(* The preflight: what is there is mapped, what is new has no directory    *)
(* yet, and the result is reconciled.                                      *)
CanAssess(S) ==
  /\ lineage # 0
  /\ S # {}
  /\ S \cap registry.cases \subseteq manifest.cases
  /\ S \cap dirs \subseteq registry.cases
  /\ Reconciled(Current)

StartAssess(p, S) ==
  /\ CanAssess(S)
  /\ Starts(p, [Idle EXCEPT !.phase = "assessing", !.todo = S, !.base = Current])

WithCase(f, c) ==
  [registry |-> [f.registry EXCEPT !.cases = @ \cup {c}],
   manifest |-> [f.manifest EXCEPT !.cases = @ \cup {c}]]

(* intake_prospective_case of one artifact: idempotent, refused or begun. *)
Intake(p, c) ==
  LET r == [proc[p] EXCEPT !.todo = @ \ {c}] IN
  /\ At(p, "assessing")
  /\ c \in proc[p].todo
  /\ \/ c \in registry.cases /\ c \in manifest.cases /\ Only(p, r)
     \/ c \in registry.cases /\ c \notin manifest.cases /\ Fail(p)
     \/ c \notin registry.cases /\ c \in dirs /\ Fail(p)
     \/ c \notin registry.cases /\ Place(p, r, WithCase(Current, c), c)

(* The committed registry is compared with the preflight's; whichever way  *)
(* it comes out, nothing is written any more.                              *)
FinishAssess(p) == At(p, "assessing") /\ proc[p].todo = {} /\ Fail(p)

----------------------------------------------------------------------------
(* AUTO-4C. *)

(* _event_prefix: what is there is a prefix of the source. *)
Follows(chain) ==
  /\ chain # <<>>
  /\ Len(registry.events) <= Len(chain)
  /\ SameEvents(registry.events, chain, Len(registry.events))

StartProject(p, s) ==
  /\ lineage # 0
  /\ Follows(source[s])
  /\ Reconciled(Current)
  /\ Starts(p, [Idle EXCEPT !.phase = "preflight", !.chain = source[s], !.base = Current])

(* Mutant: an archive that is there is a conflict.                         *)
ReviewAgainConflicts(e) == e \notin whole \cup part

(* What _project_once asks of each event, on a copy or in earnest. *)
ReviewAgain(e) == e \in whole \ part

CanReview(e) == e.case \in registry.cases /\ e \notin part

CanPreflight(chain) ==
  /\ Follows(chain)
  /\ Reconciled(Current)
  /\ \A i \in DOMAIN chain :
       /\ chain[i].case \in registry.cases
       /\ chain[i].type = "review" /\ i <= Len(registry.events) => ReviewAgain(chain[i])
       /\ chain[i].type = "review" /\ i > Len(registry.events) => CanReview(chain[i])
       /\ chain[i].type = "outcome" /\ i > Len(registry.events) => SubSeq(chain, 1, i) \notin dirs

Preflight(p) ==
  /\ At(p, "preflight")
  /\ \/ CanPreflight(proc[p].chain) /\ Only(p, [proc[p] EXCEPT !.phase = "checking"])
     \/ ~CanPreflight(proc[p].chain) /\ Fail(p)

(* The destination must not have changed since it was first read. *)
CheckUnchanged(p) ==
  LET r == proc[p] IN
  /\ At(p, "checking")
  /\ \/ Current = r.base /\ Only(p, [r EXCEPT !.phase = "replaying", !.at = 1, !.prefix = Len(registry.events)])
     \/ Current # r.base /\ Fail(p)

Replaying(p, type) ==
  At(p, "replaying") /\ proc[p].at <= Len(proc[p].chain) /\ proc[p].chain[proc[p].at].type = type

Advanced(r) == [r EXCEPT !.phase = "replaying", !.at = r.at + 1, !.new = NoFiles, !.copied = FALSE]

(* _verify_existing_review_archive *)
SkipReview(p) ==
  LET r == proc[p] IN
  /\ Replaying(p, "review")
  /\ r.at <= r.prefix
  /\ \/ ReviewAgain(r.chain[r.at]) /\ Only(p, Advanced(r))
     \/ ~ReviewAgain(r.chain[r.at]) /\ Fail(p)

(* _project_review: the event must come out exactly as in the source, then *)
(* the archive is copied unless it is there.                               *)
CanProject(r) ==
  /\ r.chain[r.at].case \in registry.cases
  /\ SameEvents(Append(registry.events, r.chain[r.at]), r.chain, r.at)

BeginReview(p) ==
  LET r == proc[p]  e == r.chain[r.at] IN
  /\ Replaying(p, "review")
  /\ r.at > r.prefix
  /\ \/ /\ CanProject(r) /\ e \in whole \ part
        /\ Only(p, [r EXCEPT !.phase = "recording"])
     \/ /\ CanProject(r) /\ e \notin whole \cup part
        /\ part' = part \cup {e}
        /\ Becomes(p, [r EXCEPT !.phase = "copying"])
        /\ UNCHANGED <<lineage, registry, manifest, dirs, whole, history>>
     \/ (~CanProject(r) \/ e \in part) /\ Fail(p)

CopyArchive(p) ==
  LET r == proc[p]  e == r.chain[r.at] IN
  /\ At(p, "copying")
  /\ whole' = whole \cup {e}
  /\ part' = part \ {e}
  /\ Becomes(p, [r EXCEPT !.phase = "recording", !.copied = TRUE])
  /\ UNCHANGED <<lineage, registry, manifest, dirs, history>>

(* The copy is outside the cleanup: what was copied of it stays. *)
CopyFails(p) ==
  /\ At(p, "copying")
  /\ faults < MaxFaults
  /\ faults' = faults + 1
  /\ Becomes(p, Idle)
  /\ UNCHANGED <<destination, created, source, reported, alone, errors>>

(* record_case_review: the packet has no decision yet, and the workspace   *)
(* is reconciled with this one.                                            *)
CanRecord(e) == e \notin Range(registry.events) /\ e \in whole /\ Reconciled(Current)

WithReview(f, e) == [registry |-> [f.registry EXCEPT !.events = Append(@, e)], manifest |-> f.manifest]

RemoveArchive(p) ==
  /\ whole' = IF proc[p].copied THEN whole \ {proc[p].chain[proc[p].at]} ELSE whole
  /\ Becomes(p, Idle)

RecordReview(p) ==
  LET r == proc[p]  e == r.chain[r.at] IN
  /\ At(p, "recording")
  /\ \/ /\ CanRecord(e)
        /\ Only(p, [r EXCEPT !.phase = "writing", !.new = WithReview(Current, e)])
     \/ /\ ~CanRecord(e)
        /\ RemoveArchive(p)
        /\ UNCHANGED <<lineage, registry, manifest, dirs, part, history>>

WriteReview(p) ==
  LET r == proc[p] IN
  /\ At(p, "writing")
  /\ registry' = r.new.registry
  /\ Becomes(p, IF Reproduced(r) THEN Advanced(r) ELSE Idle)
  /\ UNCHANGED <<lineage, manifest, dirs, whole, part, history>>

ReviewFails(p) ==
  /\ At(p, "recording") \/ At(p, "writing")
  /\ Erring
  /\ RemoveArchive(p)
  /\ UNCHANGED <<registry, manifest, dirs>>

(* transport_declared_outcome: the outcome is there and reconciles, or it  *)
(* is recorded from what is read now, its decision being on record.        *)
OutcomeId(e) == SubSeq(registry.events, 1, SelectInSeq(registry.events, LAMBDA x : x = e))

WithOutcome(f, e) ==
  LET events == Append(f.registry.events, e)
  IN  [registry |-> [f.registry EXCEPT !.events = events],
       manifest |-> [f.manifest EXCEPT !.outcomes = @ \cup {events}]]

Decided(r) == \E i \in 1..r.at - 1 : r.chain[i].type = "review" /\ r.chain[i] \in Range(registry.events) \cap whole

CanTransport(r) == r.chain[r.at].case \in registry.cases /\ Decided(r)

Transport(p) ==
  LET r == proc[p]  e == r.chain[r.at] IN
  /\ Replaying(p, "outcome")
  /\ \/ /\ CanTransport(r) /\ e \in Range(registry.events)
        /\ \/ /\ OutcomeId(e) \in manifest.outcomes \cap dirs /\ OutcomeId(e) = SubSeq(r.chain, 1, r.at)
              /\ Only(p, Advanced(r))
           \/ /\ OutcomeId(e) \notin manifest.outcomes \cap dirs \/ OutcomeId(e) # SubSeq(r.chain, 1, r.at)
              /\ Fail(p)
     \/ CanTransport(r) /\ e \notin Range(registry.events) /\ Place(p, r, WithOutcome(Current, e), Append(registry.events, e))
     \/ CanTransport(r) /\ e \notin Range(registry.events) /\ Append(registry.events, e) \in dirs /\ Fail(p)
     \/ ~CanTransport(r) /\ Fail(p)

(* Registry, manifest and evidence must be what the preflight computed. *)
AsPreflight(r) ==
  /\ registry = [r.base.registry EXCEPT !.events = r.chain]
  /\ manifest = [r.base.manifest EXCEPT !.outcomes = OutcomeIds(registry)]
  /\ Reconciled(Current)

FinishProject(p) ==
  LET r == proc[p] IN
  /\ At(p, "replaying")
  /\ r.at = Len(r.chain) + 1
  /\ reported' = IF AsPreflight(r) THEN reported \cup {r.chain} ELSE reported
  /\ Becomes(p, Idle)
  /\ UNCHANGED <<destination, created, source, alone, errors, faults>>

----------------------------------------------------------------------------

Assess(p) == FinishAssess(p) \/ \E c \in Source : Intake(p, c)

Project(p) ==
  \/ Preflight(p) \/ CheckUnchanged(p) \/ SkipReview(p) \/ BeginReview(p) \/ CopyArchive(p)
  \/ RecordReview(p) \/ WriteReview(p) \/ Transport(p) \/ FinishProject(p)

Proceed(p) == Assess(p) \/ Project(p) \/ ReplaceRegistry(p) \/ ReplaceManifest(p)

Fault(p) == Undo(p) \/ ReviewFails(p) \/ CopyFails(p) \/ Die(p)

ProjectionNext ==
  \/ \E s \in Source, type \in {"review", "outcome"} : SourceEvent(s, type)
  \/ \E S \in SUBSET Source : CreateWorkspace(S) \/ \E p \in Projector : StartAssess(p, S)
  \/ \E p \in Projector : Proceed(p) \/ Fault(p) \/ \E s \in Source : StartProject(p, s)

ProjectionSpec == ProjectionInit /\ [][ProjectionNext]_projectionVars

(* A command that has begun goes on, and every source is assessed and      *)
(* projected again and again: the retry that a failed command asks for.    *)
Fairness ==
  /\ \A p \in Projector : WF_projectionVars(Proceed(p))
  /\ \A s \in Source :
       /\ WF_projectionVars(CreateWorkspace({s}))
       /\ SF_projectionVars(\E p \in Projector : StartAssess(p, {s}))
       /\ SF_projectionVars(\E p \in Projector : StartProject(p, s))

FairSpec == ProjectionSpec /\ Fairness

----------------------------------------------------------------------------
(* Properties. *)

(* Unless commands have overlapped, the destination's events are the       *)
(* beginning of one source of its own lineage: never a mixture of two      *)
(* sources, whatever fails or dies half way. (_event_prefix, AUTO-4C.)     *)
OneChain ==
  alone /\ registry.events # <<>> =>
    \E s \in Source : created[s] = lineage /\ IsPrefix(registry.events, source[s])

(* Unless commands have overlapped, what a projection has reported stays.  *)
ReportedChainsStay ==
  alone => \A chain \in reported : IsPrefix(chain, registry.events)

(* What stops a repeated projection for good: something recorded without   *)
(* its mapping, a directory without its record, an archive in part.        *)
Damaged == ~Reconciled(Current) \/ dirs # registry.cases \cup OutcomeIds(registry) \/ part # {}

(* An I/O error is undone completely: between commands, damage takes a     *)
(* death or an archive that was copied in part.                            *)
ErrorsAreUndone ==
  alone /\ (\A p \in Projector : At(p, "idle")) /\ Damaged => faults > 0

(* Repeated commands bring the destination to the end of the source it     *)
(* follows, from whatever point an earlier one has failed at, and bring in *)
(* every case; only damage, or commands that overlapped, can prevent it.   *)
CatchesUp ==
  <>[](alone /\ ~Damaged =>
         /\ registry.cases = Source
         /\ \A s \in Source : Follows(source[s]) => registry.events = source[s])
=============================================================================
