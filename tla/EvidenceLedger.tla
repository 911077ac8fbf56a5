---------------------------- MODULE EvidenceLedger ----------------------------
(***************************************************************************)
(* The content of the evidence ledger (ledger.py): what it has imported of *)
(* each run directory, and the defect registry it has projected. The rows  *)
(* of decisions, policies and defects are functions of these.              *)
(***************************************************************************)
EXTENDS DefectDocument

CONSTANTS
  Run,       \* run identities
  Contents   \* the contents the directory of each run may have

(* A directory: the artifacts its manifest lists, the findings its         *)
(* findings.json holds.                                                    *)
Content == [artifacts : SUBSET Artifact, findings : SUBSET Finding]

ASSUME ContentsAssumption ==
  /\ Contents \in [Run -> SUBSET Content]
  /\ None \notin Content

Ledger == [runs : [Run -> Content \cup {None}], book : Registry \cup {None}]

EmptyLedger == [runs |-> [r \in Run |-> None], book |-> None]

Imported(l) == {r \in Run : l.runs[r] # None}

KnownFindings(l) == UNION {l.runs[r].findings : r \in Imported(l)}
KnownArtifacts(l) == UNION {l.runs[r].artifacts : r \in Imported(l)}

LinkedFindings(l) == IF l.book = None THEN {} ELSE {k[1] : k \in l.book.findings}
LinkedArtifacts(l) == IF l.book = None THEN {} ELSE {k[2] : k \in l.book.artifacts}

(* A slip that looks at linked artifacts only. *)
CanImportAnyFindings(l, r, c) ==
  r \in Imported(l) => (l.runs[r].artifacts \ c.artifacts) \cap LinkedArtifacts(l) = {}

(* import_artifact_directory: what the directory no longer has is deleted, *)
(* unless the projected registry links it (the foreign keys restrict).     *)
CanImport(l, r, c) ==
  r \in Imported(l) =>
    /\ (l.runs[r].findings \ c.findings) \cap LinkedFindings(l) = {}
    /\ (l.runs[r].artifacts \ c.artifacts) \cap LinkedArtifacts(l) = {}

Import(l, r, c) == [l EXCEPT !.runs = [@ EXCEPT ![r] = c]]

(* A slip that does not look the artifacts up. *)
CanProjectAnyArtifacts(l, b) == {k[1] : k \in b.findings} \subseteq KnownFindings(l)

(* sync_defect_registry: the ledger knows everything the registry links.   *)
(* (A run a defect was seen in is the run of a finding it links.)          *)
CanProject(l, b) ==
  /\ {k[1] : k \in b.findings} \subseteq KnownFindings(l)
  /\ {k[2] : k \in b.artifacts} \subseteq KnownArtifacts(l)

Project(l, b) == [l EXCEPT !.book = b]

(* verify_ledger against the directories and the registry file. *)
Verified(l, dirs, registry) ==
  /\ \A r \in Imported(l) : l.runs[r] = dirs[r]
  /\ l.book # None => l.book = registry
=============================================================================
