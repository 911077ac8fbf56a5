------------------------- MODULE ProspectiveRunProofs -------------------------
(***************************************************************************)
(* Proofs about ProspectiveRun, for any heads, bases, files, policies and  *)
(* facts, and any number of moves, edits, runs and stops.                  *)
(*                                                                         *)
(* Three facts carry them. Files that are not of the revision read with    *)
(* them were read when the pull request was not there: the live check of   *)
(* the case passes them only after it came back and went away again, that  *)
(* of the packet only after it came back a second time. A report is        *)
(* written once and captured as it is, so the case of a head is the report *)
(* of its directory. And a bundle directory belongs to one identity, and   *)
(* with it to runs with a request or to runs without: what a manifest      *)
(* lists is what one run wrote.                                            *)
(***************************************************************************)
EXTENDS ProspectiveRun, TLAPS

(* What a run is made of, and the names of the files of a bundle. *)

Reading == {"view", "files", "diff", "analyze"}
Casing == {"case files", "materialize", "intake", "packet view", "packet files", "prepare"}
Bundling == {"bundle", "bundle files"}
Steps == Reading \cup {"bind", "identify", "case view"} \cup Casing \cup Bundling

Identities == [head : Head, profile : Nat, request : Requests \cup {None}]

Names == {"candidate", "diff", "binding", "snapshot", "facts", "request", "report", "packet",
          "summary", "result", "explanation"}

Runs ==
  [at : Steps, event : Head, input : Input, live : Revisions \cup {None},
   files : Files \cup {{}}, diff : Revisions \cup {None}, cand : Candidates \cup {None},
   binding : Bindings \cup {None}, request : Requests \cup {None},
   id : Identities \cup {None}, packet : PacketDocs \cup {None}, left : SUBSET Names]

TypeOK ==
  /\ pull \in Revisions /\ visits \in [Revisions -> Nat] /\ visits[pull] > 0
  /\ profile \in Nat
  /\ report \in [Head -> Reports \cup {None}]
  /\ snapshot \in [Head -> Policies \cup {None}]
  /\ workspace \in [Head -> Reports \cup {None}]
  /\ DOMAIN bundles \subseteq Identities
  /\ run = None \/ run \in Runs
  /\ spent \in [{"moves", "edits", "runs", "stops"} -> Nat]

(* Files that are not those of the head and base rev, read while the pull  *)
(* request was away after n visits there: it still is, or came once more.  *)
Read(files, rev, n) ==
  files = FilesOf[rev] \/ (visits[rev] >= n /\ pull # rev) \/ visits[rev] > n

(* The head and base were found after that. *)
Found(files, rev, n) == files = FilesOf[rev] \/ visits[rev] > n

ReadingOK ==
  /\ At("files") \/ At("diff") \/ At("analyze") => run.live \in Revisions /\ visits[run.live] > 0
  /\ At("diff") \/ At("analyze") => run.files \in Files /\ Read(run.files, run.live, 1)

CandidateOK ==
  (run # None /\ run.at \notin Reading) =>
    /\ run.cand \in Candidates /\ run.event = run.cand.head
    /\ visits[Revision(run.cand)] > 0
    /\ Read(run.cand.files, Revision(run.cand), 1)

BindingOK ==
  /\ (run # None /\ run.at \in Reading \cup {"bind"}) => run.binding = None /\ run.request = None
  /\ (run # None /\ run.at \notin Reading \cup {"bind"}) =>
       /\ run.input.mode # "policy" => run.binding = None
       /\ run.input.mode = "policy" /\ run.request # None =>
            /\ PolicyAt[run.cand.base] \in Policies
            /\ snapshot[run.event] = PolicyAt[run.cand.base]
            /\ \E c \in Selected(PolicyAt[run.cand.base], run.cand.files) :
                 run.request.class = PolicyAt[run.cand.base][c].task

CaseOK ==
  /\ At("case files") =>
       run.live = Revision(run.cand) /\ Found(run.cand.files, Revision(run.cand), 1)
  /\ At("materialize") \/ At("intake") \/ At("packet view") =>
       Read(run.cand.files, Revision(run.cand), 2)
  /\ At("packet files") \/ At("prepare") => Found(run.cand.files, Revision(run.cand), 2)
  /\ (run # None /\ run.at \in Casing \cup {"case view"}) => run.request # None
  /\ At("intake") => report[run.event] \in Reports
  /\ At("packet view") \/ At("packet files") \/ At("prepare") => workspace[run.cand.head] \in Reports

PacketOK(p) ==
  /\ p \in PacketDocs
  /\ visits[Revision(p)] > 0 /\ Found(p.files, Revision(p), 2)
  /\ p.report.request.files = p.files

IdentityOK ==
  (run # None /\ run.at \notin Reading \cup {"bind", "identify"}) =>
    run.id \in Identities /\ run.id.request = run.request

RunPacketOK ==
  /\ (run # None /\ run.at \notin Bundling) => run.packet = None
  /\ (run # None /\ run.at \in Bundling) =>
       IF run.request = None THEN run.packet = None
       ELSE /\ PacketOK(run.packet)
            /\ run.packet.base = run.cand.base /\ run.packet.files = run.cand.files

(* What a run has written of its bundle, file by file. *)
Wrote(name, content) ==
  name \notin run.left => bundles[run.id].file[name] = content

WrittenOK ==
  At("bundle files") =>
    /\ run.id \in DOMAIN bundles
    /\ Wrote("summary", Summary) /\ Wrote("candidate", run.cand)
    /\ run.request = None => Wrote("result", Result)
    /\ run.request # None => Wrote("packet", run.packet) /\ Wrote("request", run.request)
    /\ run.request # None /\ run.input.mode = "policy" => Wrote("snapshot", snapshot[run.event])

RunOK ==
  ReadingOK /\ CandidateOK /\ BindingOK /\ CaseOK /\ IdentityOK /\ RunPacketOK /\ WrittenOK

(* The case of a head is its captured report. *)
CapturedOK == \A h \in Head : workspace[h] # None => report[h] = workspace[h]

(* A request of the class that alone matches, of the policy in m. *)
BoundByPolicy(m) ==
  /\ m["snapshot"] \in Policies /\ m["snapshot"] = PolicyAt[m["packet"].base]
  /\ m["request"] # None
  /\ \E c \in Selected(m["snapshot"], m["packet"].files) :
       m["request"].class = m["snapshot"][c].task

(* What a manifest lists was written by one run. *)
Whole(id, m) ==
  /\ DOMAIN m = Names
  /\ m["summary"] \in Summaries
  /\ m["candidate"] = m["summary"].cand
  /\ m["summary"].status = "READY" <=> id.request # None
  /\ id.request # None =>
       /\ m["packet"] \in PacketDocs /\ m["packet"] = m["summary"].packet
       /\ m["summary"].binding # None => BoundByPolicy(m)
  /\ id.request = None => m["result"] \in Results /\ m["result"].summary = m["summary"]

(* A directory of the bundles of an identity. *)
DirectoryOK(id, b) ==
  /\ b = [file |-> b.file, manifest |-> b.manifest]
  /\ b.file = [name \in Names |-> b.file[name]]
  /\ b.file["packet"] # None => PacketOK(b.file["packet"])
  /\ id.request = None => b.file["packet"] = None
  /\ b.manifest # None => Whole(id, b.manifest)

BundleOK(id) == DirectoryOK(id, bundles[id])

IInv == TypeOK /\ RunOK /\ CapturedOK /\ \A id \in DOMAIN bundles : BundleOK(id)

-----------------------------------------------------------------------------
(* Steps that write no file.                                               *)

(* Visits are never taken back, at any of the revisions. *)
MoreVisits == \A rev \in Revisions : visits'[rev] >= visits[rev]

LEMMA PacketKept ==
  ASSUME visits \in [Revisions -> Nat], visits' \in [Revisions -> Nat], MoreVisits,
         NEW p, PacketOK(p)
  PROVE  PacketOK(p)'
<1>1. Revision(p) \in Revisions
  BY DEF PacketOK, PacketDocs, Revision, Revisions
<1>. QED
  BY <1>1 DEF MoreVisits, PacketOK, Found, Revision

(* The bundles stay as good as they are while the visits only grow. *)
LEMMA BundlesKept ==
  ASSUME IInv, visits' \in [Revisions -> Nat], MoreVisits, UNCHANGED bundles
  PROVE  \A id \in DOMAIN bundles' : BundleOK(id)'
<1>. SUFFICES ASSUME NEW id \in DOMAIN bundles
              PROVE  BundleOK(id)'
  OBVIOUS
<1>1. DirectoryOK(id, bundles[id])
  BY DEF IInv, BundleOK
<1>2. bundles[id].file["packet"] # None => PacketOK(bundles[id].file["packet"])'
  BY <1>1, PacketKept DEF IInv, TypeOK, DirectoryOK
<1>. QED
  BY <1>1, <1>2 DEF BundleOK, DirectoryOK, Whole, BoundByPolicy

LEMMA SameVisits ==
  ASSUME IInv, UNCHANGED visits
  PROVE  visits' \in [Revisions -> Nat] /\ MoreVisits
  BY DEF IInv, TypeOK, MoreVisits

LEMMA BundlesSame ==
  ASSUME IInv, UNCHANGED <<visits, bundles>>
  PROVE  \A id \in DOMAIN bundles' : BundleOK(id)'
  BY SameVisits, BundlesKept

(* Nothing is said of a run that is over. *)
LEMMA RunOver ==
  ASSUME run' = None
  PROVE  RunOK'
  BY DEF RunOK, ReadingOK, CandidateOK, BindingOK, CaseOK, IdentityOK, RunPacketOK, WrittenOK, At

LEMMA CountTyped ==
  ASSUME TypeOK, NEW name \in {"moves", "edits", "runs", "stops"}, Count(name)
  PROVE  spent' \in [{"moves", "edits", "runs", "stops"} -> Nat]
  BY DEF TypeOK, Count

(* A step that ends the run and writes at most a snapshot. *)
LEMMA EndingStep ==
  ASSUME IInv, run' = None, UNCHANGED <<outside, report, workspace, bundles>>,
         snapshot' \in [Head -> Policies \cup {None}],
         spent' \in [{"moves", "edits", "runs", "stops"} -> Nat]
  PROVE  IInv'
<1>1. TypeOK'
  BY DEF IInv, TypeOK, outside
<1>2. CapturedOK'
  BY DEF IInv, CapturedOK
<1>. QED
  BY <1>1, <1>2, RunOver, BundlesSame DEF IInv, outside

LEMMA StopStep == ASSUME IInv, Stop PROVE IInv'
  BY EndingStep, CountTyped DEF Stop, IInv, TypeOK, kept

(* A move away keeps what was read while away; a move back is one more. *)
LEMMA ReadKept ==
  ASSUME visits \in [Revisions -> Nat], visits' \in [Revisions -> Nat], MoreVisits,
         pull' \in Revisions, pull' # pull, visits' = [visits EXCEPT ![pull'] = @ + 1],
         NEW files, NEW rev \in Revisions, NEW n \in Nat
  PROVE  /\ Read(files, rev, n) => Read(files, rev, n)'
         /\ Found(files, rev, n) => Found(files, rev, n)'
<1>1. visits'[rev] >= visits[rev] /\ visits[rev] \in Nat /\ visits'[rev] \in Nat
  BY DEF MoreVisits
<1>2. pull' = rev => visits'[rev] = visits[rev] + 1
  OBVIOUS
<1>. QED
  BY <1>1, <1>2 DEF Read, Found

LEMMA PullMovesStep ==
  ASSUME IInv, PullMoves
  PROVE  IInv'
<1>1. /\ pull' \in Revisions /\ pull' # pull /\ visits' = [visits EXCEPT ![pull'] = @ + 1]
      /\ UNCHANGED <<tree, profile, report, snapshot, workspace, bundles, run>>
  BY DEF PullMoves, kept
<1>2. visits \in [Revisions -> Nat] /\ visits' \in [Revisions -> Nat] /\ MoreVisits
  BY <1>1 DEF IInv, TypeOK, MoreVisits
<1>3. TypeOK'
  BY <1>1, <1>2, CountTyped DEF IInv, TypeOK, PullMoves
<1>4. \A rev \in Revisions : visits[rev] > 0 => visits'[rev] > 0
  BY <1>2 DEF MoreVisits
<1>5. ReadingOK'
  BY <1>1, <1>2, <1>4, ReadKept DEF IInv, RunOK, ReadingOK, At, Read
<1>6. (run # None /\ run.at \notin Reading) => Revision(run.cand) \in Revisions
  BY DEF IInv, RunOK, CandidateOK, Candidates, Revision, Revisions
<1>7. CandidateOK'
  BY <1>1, <1>2, <1>4, <1>6, ReadKept DEF IInv, RunOK, CandidateOK, Revision, Read
<1>8. CaseOK'
  <2>1. (run # None /\ run.at \in Casing) => Revision(run.cand) \in Revisions
    BY <1>6 DEF Reading, Casing
  <2>2. \A n \in Nat : (run # None /\ run.at \in Casing) =>
          /\ Read(run.cand.files, Revision(run.cand), n) => Read(run.cand.files, Revision(run.cand), n)'
          /\ Found(run.cand.files, Revision(run.cand), n) => Found(run.cand.files, Revision(run.cand), n)'
    BY <1>1, <1>2, <2>1, ReadKept DEF Read, Found, Revision
  <2>. QED
    BY <1>1, <2>2 DEF IInv, RunOK, CaseOK, Casing, At
<1>9. BindingOK' /\ IdentityOK' /\ CapturedOK'
  BY <1>1 DEF IInv, RunOK, BindingOK, IdentityOK, CapturedOK
<1>10. RunPacketOK'
  BY <1>1, <1>2, PacketKept DEF IInv, RunOK, RunPacketOK
<1>11. WrittenOK'
  BY <1>1 DEF IInv, RunOK, WrittenOK, Wrote, At, Summary, Result
<1>. QED
  BY <1>1, <1>2, <1>3, <1>5, <1>7, <1>8, <1>9, <1>10, <1>11, BundlesKept DEF IInv, RunOK

(* A step that leaves the pull request, the run and its files alone. *)
LEMMA RunKept ==
  ASSUME RunOK, UNCHANGED <<pull, visits, report, snapshot, workspace, bundles, run>>
  PROVE  RunOK'
<1>1. ReadingOK' /\ CandidateOK'
  BY DEF RunOK, ReadingOK, CandidateOK, Read, Revision, At
<1>2. BindingOK' /\ IdentityOK'
  BY ZenonT(40) DEF RunOK, BindingOK, IdentityOK
<1>3. CaseOK'
  BY DEF RunOK, CaseOK, Read, Found, Revision, At
<1>4. RunPacketOK'
  BY DEF RunOK, RunPacketOK, PacketOK, Found, Revision
<1>5. WrittenOK'
  BY DEF RunOK, WrittenOK, Wrote, At, Summary, Result
<1>. QED
  BY <1>1, <1>2, <1>3, <1>4, <1>5 DEF RunOK

LEMMA OperatorStep ==
  ASSUME IInv, TreeChanges \/ ProfileChanges
  PROVE  IInv'
<1>1. UNCHANGED <<pull, visits, report, snapshot, workspace, bundles, run>>
  BY DEF TreeChanges, ProfileChanges, kept
<1>2. TypeOK'
  BY <1>1, CountTyped DEF IInv, TypeOK, TreeChanges, ProfileChanges
<1>3. RunOK' /\ CapturedOK'
  BY <1>1, RunKept DEF IInv, CapturedOK
<1>. QED
  BY <1>1, <1>2, <1>3, BundlesSame DEF IInv

LEMMA BeginStep ==
  ASSUME IInv, Begin
  PROVE  IInv'
<1>1. PICK e \in Head, i \in Input :
        run' = [at |-> "view", event |-> e, input |-> i, live |-> None, files |-> {},
                diff |-> None, cand |-> None, binding |-> None, request |-> None,
                id |-> None, packet |-> None, left |-> {}]
  BY DEF Begin
<1>2. UNCHANGED <<pull, visits, tree, profile, report, snapshot, workspace, bundles>>
  BY DEF Begin, outside, kept
<1>3. TypeOK'
  BY <1>1, <1>2, CountTyped DEF IInv, TypeOK, Begin, Runs, Steps, Reading
<1>4. RunOK'
  BY <1>1 DEF RunOK, ReadingOK, CandidateOK, BindingOK, CaseOK, IdentityOK, RunPacketOK, WrittenOK,
     At, Reading, Casing, Bundling
<1>. QED
  BY <1>2, <1>3, <1>4, BundlesSame DEF IInv, CapturedOK

-----------------------------------------------------------------------------
(* Reading the pull request.                                               *)

LEMMA RevisionOfRevision ==
  ASSUME NEW x \in Revisions
  PROVE  Revision(x) = x
  BY DEF Revision, Revisions

(* A step of a run that reads writes no file and binds nothing. *)
LEMMA ReadingStep ==
  ASSUME IInv, run # None, run.at \in Reading,
         run' \in Runs, run'.at \in Reading \cup {"bind"},
         run'.binding = run.binding, run'.request = run.request, run'.packet = run.packet,
         UNCHANGED <<outside, kept, spent>>, ReadingOK', CandidateOK'
  PROVE  IInv'
<1>1. TypeOK'
  BY DEF IInv, TypeOK, outside, kept
<1>2. BindingOK'
  BY DEF IInv, RunOK, BindingOK
<1>3. CaseOK'
  BY DEF CaseOK, At, Reading, Casing
<1>4. IdentityOK' /\ WrittenOK'
  BY DEF IdentityOK, WrittenOK, At, Reading
<1>5. RunPacketOK'
  BY DEF IInv, RunOK, RunPacketOK, Reading, Bundling
<1>. QED
  BY <1>1, <1>2, <1>3, <1>4, <1>5, BundlesSame DEF IInv, RunOK, CapturedOK, outside, kept

LEMMA ViewStep ==
  ASSUME IInv, View
  PROVE  IInv'
<1>1. /\ run # None /\ run \in Runs /\ run.at = "view"
      /\ run' = [run EXCEPT !.at = "files", !.live = Viewed]
      /\ UNCHANGED <<outside, kept, spent>>
  BY DEF View, At, Continue, IInv, TypeOK
<1>2. Viewed = pull /\ pull \in Revisions /\ visits[pull] > 0
  BY RevisionOfRevision DEF IInv, TypeOK, Viewed
<1>3. /\ run' \in Runs /\ run'.at = "files" /\ run'.live = pull
      /\ run'.binding = run.binding /\ run'.request = run.request /\ run'.packet = run.packet
  BY <1>1, <1>2, ZenonT(40) DEF Runs, Steps, Reading
<1>4. ReadingOK' /\ CandidateOK'
  <2>1. visits' = visits
    BY <1>1 DEF outside
  <2>. QED
    BY <1>2, <1>3, <2>1 DEF ReadingOK, CandidateOK, At, Reading
<1>. QED
  <2>. USE DEF Reading
  <2>. QED
    BY <1>1, <1>3, <1>4, ReadingStep

LEMMA ReadFilesStep ==
  ASSUME IInv, ReadFiles
  PROVE  IInv'
<1>1. CASE \E f \in CollectedFiles : Continue([run EXCEPT !.at = "diff", !.files = f])
  <2>1. PICK f \in CollectedFiles : Continue([run EXCEPT !.at = "diff", !.files = f])
    BY <1>1
  <2>2. /\ run # None /\ run \in Runs /\ run.at = "files"
        /\ run' = [run EXCEPT !.at = "diff", !.files = f]
        /\ UNCHANGED <<outside, kept, spent>> /\ run.live \in Revisions /\ visits[run.live] > 0
        /\ pull \in Revisions
    BY <2>1 DEF ReadFiles, At, Continue, IInv, TypeOK, RunOK, ReadingOK
  <2>3. f = FilesOf[run.live] \/ (f = FilesOf[pull] /\ pull # run.live)
    BY <2>2 DEF CollectedFiles, DeclaredFiles
  <2>4. f \in Files
    BY <2>2, <2>3 DEF Files
  <2>5. /\ run' \in Runs /\ run'.at = "diff" /\ run'.live = run.live /\ run'.files = f
        /\ run'.binding = run.binding /\ run'.request = run.request /\ run'.packet = run.packet
    BY <2>2, <2>4 DEF Runs, Steps, Reading
  <2>6. ReadingOK' /\ CandidateOK'
    <3>1. visits' = visits /\ pull' = pull /\ visits[run.live] \in Nat
      BY <2>2 DEF outside, IInv, TypeOK
    <3>. QED
      BY <2>2, <2>3, <2>4, <2>5, <3>1 DEF ReadingOK, CandidateOK, At, Reading, Read
  <2>. QED
    BY <2>2, <2>5, <2>6, ReadingStep DEF Reading
<1>2. CASE Miscounted /\ Refuse
  BY <1>2, EndingStep DEF ReadFiles, Refuse, IInv, TypeOK, kept
<1>. QED
  BY <1>1, <1>2 DEF ReadFiles

LEMMA ReadDiffStep ==
  ASSUME IInv, ReadDiff
  PROVE  IInv'
<1>1. PICK d \in {Viewed, None} : Continue([run EXCEPT !.at = "analyze", !.diff = d])
  BY DEF ReadDiff
<1>2. /\ run # None /\ run \in Runs /\ run.at = "diff"
      /\ run' = [run EXCEPT !.at = "analyze", !.diff = d]
      /\ UNCHANGED <<outside, kept, spent>>
  BY <1>1 DEF ReadDiff, At, Continue, IInv, TypeOK
<1>3. d \in Revisions \cup {None}
  BY RevisionOfRevision DEF IInv, TypeOK, Viewed
<1>4. /\ run' \in Runs /\ run'.at = "analyze" /\ run'.live = run.live /\ run'.files = run.files
      /\ run'.binding = run.binding /\ run'.request = run.request /\ run'.packet = run.packet
  BY <1>2, <1>3 DEF Runs, Steps, Reading
<1>5. ReadingOK' /\ CandidateOK'
  <2>1. visits' = visits /\ pull' = pull
    BY <1>2 DEF outside
  <2>2. /\ run.live \in Revisions /\ visits[run.live] > 0 /\ run.files \in Files
        /\ Read(run.files, run.live, 1)
    BY <1>2 DEF IInv, RunOK, ReadingOK, At
  <2>. QED
    BY <1>4, <2>1, <2>2 DEF ReadingOK, CandidateOK, At, Reading, Read
<1>. QED
  BY <1>2, <1>4, <1>5, ReadingStep DEF Reading

(* The candidate is of the revision it was read with. *)
LEMMA AnalyzeStep ==
  ASSUME IInv, Analyze
  PROVE  IInv'
<1>1. CASE Analyzable /\ run.event = run.live.head
           /\ Continue([run EXCEPT !.at = "bind", !.cand = Candidate, !.live = None, !.files = {}])
  <2>1. /\ run # None /\ run \in Runs /\ run.at = "analyze" /\ run.event = run.live.head
        /\ run' = [run EXCEPT !.at = "bind", !.cand = Candidate, !.live = None, !.files = {}]
        /\ UNCHANGED <<outside, kept, spent>>
    BY <1>1 DEF Analyze, At, Continue, IInv, TypeOK
  <2>2. /\ run.live \in Revisions /\ visits[run.live] > 0 /\ run.files \in Files
        /\ Read(run.files, run.live, 1)
    BY <2>1 DEF IInv, RunOK, ReadingOK, At
  <2>3. /\ Candidate \in Candidates /\ Revision(Candidate) = run.live
        /\ Candidate.head = run.live.head /\ Candidate.files = run.files
        /\ Candidate.base = run.live.base
    BY <2>1, <2>2 DEF Candidate, Candidates, Revision, Revisions, IInv, TypeOK
  <2>4. /\ run' \in Runs /\ run'.at = "bind" /\ run'.cand = Candidate /\ run'.event = run.event
        /\ run'.binding = run.binding /\ run'.request = run.request /\ run'.packet = run.packet
    BY <2>1, <2>3 DEF Runs, Steps
  <2>5. ReadingOK' /\ CandidateOK'
    <3>1. visits' = visits /\ pull' = pull
      BY <2>1 DEF outside
    <3>. QED
      BY <2>1, <2>2, <2>3, <2>4, <3>1 DEF ReadingOK, CandidateOK, At, Read, Revision
  <2>. QED
    BY <2>1, <2>4, <2>5, ReadingStep DEF Reading
<1>2. CASE Refuse
  BY <1>2, EndingStep DEF Analyze, Refuse, IInv, TypeOK, kept
<1>. QED
  BY <1>1, <1>2 DEF Analyze

-----------------------------------------------------------------------------
(* Binding.                                                                *)

(* A step of a run that has its candidate and keeps it. *)
LEMMA CandidateKept ==
  ASSUME IInv, run # None, run.at \notin Reading, run'.at \notin Reading,
         run'.cand = run.cand, run'.event = run.event, UNCHANGED outside
  PROVE  ReadingOK' /\ CandidateOK'
<1>1. ReadingOK'
  BY DEF ReadingOK, At, Reading
<1>2. CandidateOK'
  BY DEF IInv, RunOK, CandidateOK, outside, Read, Revision
<1>. QED
  BY <1>1, <1>2

(* The run after it bound b. *)
LEMMA BoundStep ==
  ASSUME IInv, At("bind"), NEW b \in Bindings \cup {None}, NEW q \in Requests \cup {None},
         run' = [run EXCEPT !.at = "identify", !.binding = b, !.request = q],
         UNCHANGED <<outside, report, workspace, bundles, spent>>,
         snapshot' \in [Head -> Policies \cup {None}],
         run.input.mode # "policy" => b = None,
         run.input.mode = "policy" /\ q # None =>
           /\ PolicyAt[run.cand.base] \in Policies
           /\ snapshot'[run.event] = PolicyAt[run.cand.base]
           /\ \E c \in Selected(PolicyAt[run.cand.base], run.cand.files) :
                q.class = PolicyAt[run.cand.base][c].task
  PROVE  IInv'
<1>1. run # None /\ run \in Runs /\ run.at = "bind"
  BY DEF At, IInv, TypeOK
<1>2. /\ run' \in Runs /\ run'.at = "identify" /\ run'.cand = run.cand /\ run'.event = run.event
      /\ run'.binding = b /\ run'.request = q /\ run'.packet = run.packet /\ run'.input = run.input
  BY <1>1 DEF Runs, Steps
<1>3. TypeOK'
  BY <1>2 DEF IInv, TypeOK, outside
<1>4. ReadingOK' /\ CandidateOK'
  BY <1>1, <1>2, CandidateKept DEF Reading
<1>5. BindingOK'
  BY <1>2 DEF BindingOK, Reading
<1>6. CaseOK' /\ IdentityOK' /\ WrittenOK'
  BY <1>2 DEF CaseOK, IdentityOK, WrittenOK, At, Casing
<1>7. RunPacketOK'
  BY <1>1, <1>2 DEF IInv, RunOK, RunPacketOK, Bundling
<1>. QED
  BY <1>3, <1>4, <1>5, <1>6, <1>7, BundlesSame DEF IInv, RunOK, CapturedOK, outside

LEMMA BindingTyped ==
  ASSUME NEW cand \in Candidates, NEW p \in Policies \cup {None}, NEW c \in Classes \cup {None},
         NEW q \in Requests \cup {None}
  PROVE  Binding(cand, p, c, q) \in Bindings /\ Binding(cand, p, c, q).request = q
  BY DEF Binding, Bindings, Candidates

LEMMA RequestTyped ==
  ASSUME NEW cand \in Candidates, NEW p \in Policies, NEW c \in DOMAIN p,
         NEW facts \in FactsFile \cup {None}
  PROVE  /\ BoundRequest(cand, p[c], facts) \in Requests \cup {None}
         /\ BoundRequest(cand, p[c], facts) # None =>
              BoundRequest(cand, p[c], facts).class = p[c].task
<1>1. p[c].task \in Tasks
  BY DEF Tasks
<1>2. facts # None => facts.completed \in {f.completed : f \in FactsFile}
  OBVIOUS
<1>. QED
  BY <1>1, <1>2 DEF BoundRequest, Candidates, Requests

LEMMA UnboundStep ==
  ASSUME IInv, Unbound
  PROVE  IInv'
<1>1. run \in Runs /\ run.at = "bind" /\ run # None
  BY DEF Unbound, At, IInv, TypeOK
<1>2. run.binding = None
  BY <1>1 DEF IInv, RunOK, BindingOK
<1>3. run.input.request \in Requests \cup {None}
  BY <1>1 DEF Runs, Input, Requests
<1>4. run' = [run EXCEPT !.at = "identify", !.binding = None, !.request = run.input.request]
  BY <1>1, <1>2 DEF Unbound, Continue, Runs
<1>. QED
  BY <1>3, <1>4, BoundStep DEF Unbound, Continue, kept, IInv, TypeOK

LEMMA BindStep ==
  ASSUME IInv, Bind
  PROVE  IInv'
<1>. DEFINE policy == PolicyAt[run.cand.base]
<1>1. /\ run # None /\ run \in Runs /\ run.at = "bind" /\ run.input.mode = "policy" /\ At("bind")
      /\ UNCHANGED <<outside, report, workspace, bundles>>
      /\ snapshot \in [Head -> Policies \cup {None}]
  BY DEF Bind, At, IInv, TypeOK
<1>2. /\ run.cand \in Candidates /\ run.event = run.cand.head
  BY <1>1 DEF IInv, RunOK, CandidateOK, Reading
<1>3. run.cand.base \in Base /\ run.event \in Head /\ policy \in Policies \cup {None}
  BY <1>2 DEF Candidates, Policies
<1>4. run.input.facts \in FactsFile \cup {None}
  BY <1>1 DEF Runs, Input
<1>5. CASE Refuse /\ UNCHANGED snapshot
  BY <1>1, <1>5, EndingStep DEF Refuse, IInv, TypeOK
<1>6. CASE BindNone
  <2>1. Binding(run.cand, None, None, None) \in Bindings
    BY <1>2, BindingTyped
  <2>2. Binding(run.cand, None, None, None).request = None
    BY DEF Binding
  <2>. QED
    BY <1>1, <1>6, <2>1, <2>2, BoundStep DEF BindNone, Bound, Continue
<1>7. CASE /\ policy # None /\ snapshot' = [snapshot EXCEPT ![run.event] = policy]
           /\ BindUnselected \/ BindSelected
  <2>1. policy \in Policies /\ snapshot' \in [Head -> Policies \cup {None}]
        /\ snapshot'[run.event] = policy
    BY <1>1, <1>3, <1>7
  <2>2. CASE BindUnselected
    <3>1. Binding(run.cand, policy, None, None) \in Bindings
      BY <1>2, <2>1, BindingTyped
    <3>2. Binding(run.cand, policy, None, None).request = None
      BY DEF Binding
    <3>. QED
      BY <1>1, <2>1, <2>2, <3>1, <3>2, BoundStep DEF BindUnselected, Bound, Continue
  <2>3. CASE BindSelected
    <3>1. PICK c \in Selected(policy, run.cand.files) :
            \/ Refuse
            \/ Bound(Binding(run.cand, policy, c, BoundRequest(run.cand, policy[c], run.input.facts)))
      BY <2>3 DEF BindSelected
    <3>. DEFINE q == BoundRequest(run.cand, policy[c], run.input.facts)
                b == Binding(run.cand, policy, c, q)
    <3>2. c \in DOMAIN policy /\ c \in Classes
      BY <2>1 DEF Selected, Matched, Classes
    <3>3. q \in Requests \cup {None} /\ (q # None => q.class = policy[c].task)
      BY <1>2, <1>4, <2>1, <3>2, RequestTyped
    <3>4. b \in Bindings /\ b.request = q
      BY <1>2, <2>1, <3>2, <3>3, BindingTyped
    <3>5. CASE Refuse
      BY <1>1, <2>1, <3>5, EndingStep DEF Refuse, IInv, TypeOK
    <3>6. CASE Bound(b)
      <4>1. run' = [run EXCEPT !.at = "identify", !.binding = b, !.request = q] /\ UNCHANGED spent
        BY <3>4, <3>6 DEF Bound, Continue
      <4>. HIDE DEF q, b
      <4>. QED
        BY <1>1, <2>1, <3>1, <3>3, <3>4, <4>1, BoundStep
    <3>. QED
      BY <3>1, <3>5, <3>6
  <2>. QED
    BY <1>7, <2>2, <2>3
<1>. QED
  BY <1>5, <1>6, <1>7 DEF Bind

LEMMA IdentifyStep ==
  ASSUME IInv, Identify
  PROVE  IInv'
<1>1. /\ run # None /\ run \in Runs /\ run.at = "identify"
      /\ UNCHANGED <<outside, kept, spent>>
      /\ run' = [run EXCEPT !.id = Identity,
                            !.at = IF run.request = None THEN "bundle" ELSE "case view"]
  BY DEF Identify, At, Continue, IInv, TypeOK
<1>2. run.cand \in Candidates /\ profile \in Nat /\ run.request \in Requests \cup {None}
  BY <1>1 DEF IInv, RunOK, CandidateOK, Reading, TypeOK, Runs
<1>3. Identity \in Identities /\ Identity.request = run.request
  BY <1>2 DEF Identity, Identities, Candidates
<1>. DEFINE next == IF run.request = None THEN "bundle" ELSE "case view"
<1>4. /\ run' \in Runs /\ run'.at = IF run.request = None THEN "bundle" ELSE "case view"
      /\ run'.cand = run.cand /\ run'.event = run.event /\ run'.input = run.input
      /\ run'.binding = run.binding /\ run'.request = run.request /\ run'.packet = run.packet
      /\ run'.id = Identity
  <2>1. next \in Steps
    BY DEF Steps, Bundling
  <2>2. run' = [run EXCEPT !.id = Identity, !.at = next]
    BY <1>1
  <2>. HIDE DEF next
  <2>3. /\ run' \in Runs /\ run'.at = next
        /\ run'.cand = run.cand /\ run'.event = run.event /\ run'.input = run.input
        /\ run'.binding = run.binding /\ run'.request = run.request /\ run'.packet = run.packet
        /\ run'.id = Identity
    BY <1>1, <1>3, <2>1, <2>2 DEF Runs
  <2>. QED
    BY <2>3 DEF next
<1>5. TypeOK'
  BY <1>1, <1>4 DEF IInv, TypeOK, outside, kept
<1>6. ReadingOK' /\ CandidateOK'
  BY <1>1, <1>4, CandidateKept DEF Reading
<1>7. BindingOK'
  BY <1>1, <1>4 DEF IInv, RunOK, BindingOK, Reading, kept
<1>8. CaseOK' /\ WrittenOK'
  BY <1>4 DEF CaseOK, WrittenOK, At, Casing
<1>9. IdentityOK'
  BY <1>3, <1>4 DEF IdentityOK
<1>10. RunPacketOK'
  BY <1>1, <1>4 DEF IInv, RunOK, RunPacketOK, Bundling
<1>. QED
  BY <1>1, <1>5, <1>6, <1>7, <1>8, <1>9, <1>10, BundlesSame DEF IInv, RunOK, CapturedOK, outside, kept

-----------------------------------------------------------------------------
(* The case and the packet.                                                *)

(* A step of a run of a case, before its packet is made. *)
LEMMA CaseStep ==
  ASSUME IInv, run # None, run.at \in Casing \cup {"case view"}, run' \in Runs, run'.at \in Casing,
         run'.cand = run.cand, run'.event = run.event, run'.input = run.input,
         run'.binding = run.binding, run'.request = run.request, run'.id = run.id,
         run'.packet = run.packet, UNCHANGED <<outside, snapshot, bundles, spent>>,
         report' \in [Head -> Reports \cup {None}], workspace' \in [Head -> Reports \cup {None}],
         CaseOK', CapturedOK'
  PROVE  IInv'
<1>1. TypeOK'
  BY DEF IInv, TypeOK, outside
<1>2. ReadingOK' /\ CandidateOK'
  BY CandidateKept DEF Casing, Reading
<1>3. BindingOK'
  BY DEF IInv, RunOK, BindingOK, Reading, Casing
<1>4. IdentityOK'
  BY DEF IInv, RunOK, IdentityOK, Reading, Casing
<1>5. RunPacketOK'
  BY DEF IInv, RunOK, RunPacketOK, Bundling, Casing
<1>6. WrittenOK'
  BY DEF WrittenOK, At, Casing
<1>. QED
  BY <1>1, <1>2, <1>3, <1>4, <1>5, <1>6, BundlesSame DEF IInv, RunOK, outside

(* The pull request still is at the revision of the candidate: its files   *)
(* are those of that revision.                                             *)
LEMMA LiveViewStep ==
  ASSUME IInv, NEW step \in {"case view", "packet view"}, NEW next \in {"case files", "packet files"},
         step = "packet view" <=> next = "packet files", LiveView(step, next)
  PROVE  IInv'
<1>1. CASE SameRevisions /\ Continue([run EXCEPT !.at = next, !.live = Viewed])
  <2>1. /\ run # None /\ run \in Runs /\ run.at = step
        /\ run' = [run EXCEPT !.at = next, !.live = Viewed]
        /\ UNCHANGED <<outside, kept, spent>>
    BY <1>1 DEF LiveView, At, Continue, IInv, TypeOK
  <2>2. Viewed = pull /\ pull \in Revisions /\ pull \in Revisions \cup {None}
    BY RevisionOfRevision DEF IInv, TypeOK, Viewed
  <2>3. /\ run' \in Runs /\ run'.at = next
        /\ run'.cand = run.cand /\ run'.event = run.event /\ run'.input = run.input
        /\ run'.binding = run.binding /\ run'.request = run.request /\ run'.packet = run.packet
        /\ run'.id = run.id
    <3>1. next \in Steps
      BY DEF Steps, Casing
    <3>. QED
      BY <2>1, <2>2, <3>1 DEF Runs
  <2>4. /\ run'.live = Revision(run.cand)
        /\ step = "case view" => Found(run.cand.files, Revision(run.cand), 1)
        /\ step = "packet view" => Found(run.cand.files, Revision(run.cand), 2)
    <3>1. pull = Revision(run.cand)
      BY <1>1, <2>2 DEF SameRevisions, Revision, Revisions
    <3>2. run'.live = pull
      BY <2>1, <2>2 DEF Runs
    <3>. QED
      BY <2>1, <3>1, <3>2 DEF IInv, RunOK, CandidateOK, CaseOK, At, Reading, Read, Found
  <2>5. CaseOK'
    <3>1. run'.request # None
      BY <2>1, <2>3 DEF IInv, RunOK, CaseOK, Casing
    <3>2. At("packet files")' => workspace'[run'.cand.head] \in Reports
      BY <2>1, <2>3 DEF IInv, RunOK, CaseOK, At, kept
    <3>3. visits' = visits
      BY <2>1 DEF outside
    <3>. QED
      BY <2>3, <2>4, <3>1, <3>2, <3>3 DEF CaseOK, At, Found, Revision
  <2>. QED
    BY <2>1, <2>3, <2>5, CaseStep DEF IInv, TypeOK, CapturedOK, Casing, kept
<1>2. CASE Refuse
  BY <1>2, EndingStep DEF LiveView, Refuse, IInv, TypeOK, kept
<1>. QED
  BY <1>1, <1>2 DEF LiveView

(* Files found again that are not those of the head and base just found    *)
(* are read while the pull request is away.                                *)
LEMMA FoundThenRead ==
  ASSUME TypeOK, NEW rev \in Revisions, NEW files \in {FilesOf[pull], FilesOf[rev]},
         Found(files, rev, 1)
  PROVE  Read(files, rev, 2)
<1>1. visits[rev] \in Nat
  BY DEF TypeOK
<1>. QED
  BY <1>1 DEF Found, Read

LEMMA LiveFilesStep ==
  ASSUME IInv, NEW step \in {"case files", "packet files"}, NEW next \in {"materialize", "prepare"},
         step = "packet files" <=> next = "prepare", LiveFiles(step, next)
  PROVE  IInv'
<1>1. CASE /\ run.cand.files \in CollectedFiles
           /\ Continue([run EXCEPT !.at = next, !.live = None])
  <2>1. /\ run # None /\ run \in Runs /\ run.at = step
        /\ run' = [run EXCEPT !.at = next, !.live = None]
        /\ UNCHANGED <<outside, kept, spent>>
    BY <1>1 DEF LiveFiles, At, Continue, IInv, TypeOK
  <2>2. /\ run' \in Runs /\ run'.at = next
        /\ run'.cand = run.cand /\ run'.event = run.event /\ run'.input = run.input
        /\ run'.binding = run.binding /\ run'.request = run.request /\ run'.packet = run.packet
        /\ run'.id = run.id
    BY <2>1 DEF Runs, Steps, Casing
  <2>3. CaseOK'
    <3>1. run.request # None
      BY <2>1 DEF IInv, RunOK, CaseOK, Casing
    <3>2. step = "packet files" =>
            workspace[run.cand.head] \in Reports /\ Found(run.cand.files, Revision(run.cand), 2)
      BY <2>1 DEF IInv, RunOK, CaseOK, At
    <3>3. step = "case files" => Read(run.cand.files, Revision(run.cand), 2)
      <4>. SUFFICES ASSUME step = "case files" PROVE Read(run.cand.files, Revision(run.cand), 2)
        OBVIOUS
      <4>1. run.live = Revision(run.cand) /\ Found(run.cand.files, Revision(run.cand), 1)
        BY <2>1 DEF IInv, RunOK, CaseOK, At
      <4>2. run.cand.files \in {FilesOf[pull], FilesOf[run.live]}
        BY <1>1 DEF CollectedFiles, DeclaredFiles
      <4>3. Revision(run.cand) \in Revisions
        BY <2>1 DEF IInv, RunOK, CandidateOK, Candidates, Revision, Revisions, Reading
      <4>. QED
        BY <4>1, <4>2, <4>3, FoundThenRead DEF IInv
    <3>4. visits' = visits /\ pull' = pull
      BY <2>1 DEF outside
    <3>. QED
      BY <2>1, <2>2, <3>1, <3>2, <3>3, <3>4 DEF CaseOK, At, Read, Found, Revision, kept
  <2>. QED
    BY <2>1, <2>2, <2>3, CaseStep DEF IInv, TypeOK, CapturedOK, Casing, kept
<1>2. CASE Refuse
  BY <1>2, EndingStep DEF LiveFiles, Refuse, IInv, TypeOK, kept
<1>. QED
  BY <1>1, <1>2 DEF LiveFiles

(* assess_trust, of a run with a request. *)
LEMMA AssessedTyped ==
  ASSUME IInv, run # None, run.at \in Casing
  PROVE  Assessed \in Reports
<1>1. run.request \in Requests /\ profile \in Nat /\ spent.runs \in Nat
  BY DEF IInv, TypeOK, RunOK, CaseOK, Runs
<1>. QED
  BY <1>1 DEF Assessed, Reports

(* A report that is there is not written over. *)
LEMMA MaterializeStep ==
  ASSUME IInv, Materialize
  PROVE  IInv'
<1>1. CASE Refuse /\ UNCHANGED report
  BY <1>1, EndingStep DEF Materialize, Refuse, IInv, TypeOK
<1>2. CASE /\ Continue([run EXCEPT !.at = "intake"])
           /\ \/ report[run.event] = None /\ report' = [report EXCEPT ![run.event] = Assessed]
              \/ report[run.event] # None /\ UNCHANGED report
  <2>1. /\ run # None /\ run \in Runs /\ run.at = "materialize"
        /\ run' = [run EXCEPT !.at = "intake"]
        /\ UNCHANGED <<outside, snapshot, workspace, bundles, spent>>
    BY <1>2 DEF Materialize, At, Continue, IInv, TypeOK
  <2>2. /\ run' \in Runs /\ run'.at = "intake"
        /\ run'.cand = run.cand /\ run'.event = run.event /\ run'.input = run.input
        /\ run'.binding = run.binding /\ run'.request = run.request /\ run'.packet = run.packet
        /\ run'.id = run.id
    <3>1. "intake" \in Steps
      BY DEF Steps, Casing
    <3>. QED
      BY <2>1, <3>1 DEF Runs
  <2>3. Assessed \in Reports /\ run.event \in Head /\ report \in [Head -> Reports \cup {None}]
    BY <2>1, AssessedTyped DEF Casing, Runs, IInv, TypeOK
  <2>4. report' \in [Head -> Reports \cup {None}] /\ report'[run.event] \in Reports
    BY <1>2, <2>3
  <2>5. CapturedOK'
    <3>1. \A h \in Head : report[h] # None => report'[h] = report[h]
      BY <1>2, <2>3
    <3>2. \A h \in Head : workspace[h] # None => report[h] = workspace[h]
      BY DEF IInv, CapturedOK
    <3>. QED
      BY <2>1, <3>1, <3>2 DEF CapturedOK
  <2>6. CaseOK'
    <3>1. run.request # None /\ Read(run.cand.files, Revision(run.cand), 2)
      BY <2>1 DEF IInv, RunOK, CaseOK, Casing, At
    <3>2. visits' = visits /\ pull' = pull
      BY <2>1 DEF outside
    <3>. QED
      BY <2>2, <2>4, <3>1, <3>2 DEF CaseOK, At, Read, Revision
  <2>. QED
    BY <2>1, <2>2, <2>4, <2>5, <2>6, CaseStep DEF IInv, TypeOK, Casing
<1>. QED
  BY <1>1, <1>2 DEF Materialize

(* What is captured is the report of the directory. *)
LEMMA IntakeStep ==
  ASSUME IInv, Intake
  PROVE  IInv'
<1>1. CASE Refuse /\ UNCHANGED workspace
  BY <1>1, EndingStep DEF Intake, Refuse, IInv, TypeOK
<1>2. CASE /\ Continue([run EXCEPT !.at = "packet view"])
           /\ workspace' = [workspace EXCEPT ![run.cand.head] = report[run.event]]
  <2>1. /\ run # None /\ run \in Runs /\ run.at = "intake"
        /\ run' = [run EXCEPT !.at = "packet view"]
        /\ UNCHANGED <<outside, report, snapshot, bundles, spent>>
    BY <1>2 DEF Intake, At, Continue, IInv, TypeOK
  <2>2. /\ run' \in Runs /\ run'.at = "packet view"
        /\ run'.cand = run.cand /\ run'.event = run.event /\ run'.input = run.input
        /\ run'.binding = run.binding /\ run'.request = run.request /\ run'.packet = run.packet
        /\ run'.id = run.id
    <3>1. "packet view" \in Steps
      BY DEF Steps, Casing
    <3>. QED
      BY <2>1, <3>1 DEF Runs
  <2>3. /\ run.cand.head = run.event /\ run.event \in Head /\ report[run.event] \in Reports
        /\ workspace \in [Head -> Reports \cup {None}]
    BY <2>1 DEF IInv, TypeOK, RunOK, CandidateOK, CaseOK, Runs, At, Reading
  <2>4. workspace' \in [Head -> Reports \cup {None}] /\ workspace'[run.event] = report[run.event]
    BY <1>2, <2>3
  <2>5. CapturedOK'
    BY <1>2, <2>1, <2>3 DEF IInv, CapturedOK
  <2>6. CaseOK'
    <3>1. run.request # None /\ Read(run.cand.files, Revision(run.cand), 2)
      BY <2>1 DEF IInv, RunOK, CaseOK, Casing, At
    <3>2. visits' = visits /\ pull' = pull
      BY <2>1 DEF outside
    <3>. QED
      BY <2>2, <2>3, <2>4, <3>1, <3>2 DEF CaseOK, At, Read, Revision
  <2>. QED
    BY <2>1, <2>2, <2>4, <2>5, <2>6, CaseStep DEF IInv, TypeOK, Casing
<1>. QED
  BY <1>1, <1>2 DEF Intake

(* The packet is of the revision of the candidate, and of its files. *)
LEMMA PrepareStep ==
  ASSUME IInv, Prepare
  PROVE  IInv'
<1>1. CASE Refuse
  BY <1>1, EndingStep DEF Prepare, Refuse, IInv, TypeOK, kept
<1>2. CASE BindsCase /\ Continue([run EXCEPT !.at = "bundle", !.packet = Packet])
  <2>1. /\ run # None /\ run \in Runs /\ run.at = "prepare"
        /\ run' = [run EXCEPT !.at = "bundle", !.packet = Packet]
        /\ UNCHANGED <<outside, kept, spent>>
    BY <1>2 DEF Prepare, At, Continue, IInv, TypeOK
  <2>2. /\ run.cand \in Candidates /\ visits[Revision(run.cand)] > 0
        /\ Found(run.cand.files, Revision(run.cand), 2)
        /\ workspace[run.cand.head] \in Reports /\ run.request # None
    BY <2>1 DEF IInv, RunOK, CandidateOK, CaseOK, At, Reading, Casing
  <2>3. Packet \in PacketDocs /\ Packet.base = run.cand.base /\ Packet.files = run.cand.files
        /\ Packet.head = run.cand.head /\ Packet.report = workspace[run.cand.head]
    BY <2>2 DEF Packet, PacketDocs, Candidates
  <2>4. PacketOK(Packet)
    <3>1. Revision(Packet) = Revision(run.cand)
      BY <2>3 DEF Revision
    <3>2. Packet.report.request.files = Packet.files
      BY <1>2, <2>3 DEF BindsCase
    <3>. QED
      BY <2>2, <2>3, <3>1, <3>2 DEF PacketOK, Found
  <2>5. /\ run' \in Runs /\ run'.at = "bundle"
        /\ run'.cand = run.cand /\ run'.event = run.event /\ run'.input = run.input
        /\ run'.binding = run.binding /\ run'.request = run.request /\ run'.packet = Packet
        /\ run'.id = run.id
    <3>1. "bundle" \in Steps
      BY DEF Steps, Bundling
    <3>. QED
      BY <2>1, <2>3, <3>1 DEF Runs
  <2>6. TypeOK'
    BY <2>1, <2>5 DEF IInv, TypeOK, outside, kept
  <2>7. ReadingOK' /\ CandidateOK'
    BY <2>1, <2>5, CandidateKept DEF Reading
  <2>8. BindingOK' /\ IdentityOK'
    BY <2>1, <2>5 DEF IInv, RunOK, BindingOK, IdentityOK, Reading, kept
  <2>9. CaseOK' /\ WrittenOK'
    BY <2>5 DEF CaseOK, WrittenOK, At, Casing
  <2>10. RunPacketOK'
    <3>1. visits' = visits
      BY <2>1 DEF outside
    <3>. QED
      BY <2>2, <2>3, <2>4, <2>5, <3>1 DEF RunPacketOK, PacketOK, Bundling, Found, Revision
  <2>. QED
    BY <2>1, <2>6, <2>7, <2>8, <2>9, <2>10, BundlesSame DEF IInv, RunOK, CapturedOK, outside, kept
<1>. QED
  BY <1>1, <1>2 DEF Prepare

-----------------------------------------------------------------------------
(* The bundle.                                                             *)

LEMMA OutputIs ==
  /\ File = Names /\ DOMAIN Output = Names
  /\ Output["summary"] = Summary /\ Output["result"] = Result
  /\ Output["candidate"] = run.cand
  /\ Output["snapshot"] = Snapshot
  /\ Output["request"] = run.request
  /\ Output["packet"] = run.packet
  BY DEF Evidence, Output, File, Rank, Names

(* The directory a run writes to, there or not. *)
LEMMA DirectoryGood ==
  ASSUME IInv, run # None, run.at \in Bundling
  PROVE  DirectoryOK(run.id, Directory)
<1>1. CASE run.id \in DOMAIN bundles
  BY <1>1 DEF IInv, BundleOK, Directory
<1>2. CASE run.id \notin DOMAIN bundles
  <2>1. Directory = [file |-> [name \in Names |-> None], manifest |-> None]
    BY <1>2, OutputIs DEF Directory, Empty
  <2>2. "packet" \in Names
    BY DEF Names
  <2>. QED
    BY <2>1, <2>2 DEF DirectoryOK
<1>. QED
  BY <1>1, <1>2

LEMMA WriteGood ==
  ASSUME IInv, run # None, run.at \in Bundling, NEW f, NEW m, DirectoryOK(run.id, [file |-> f, manifest |-> m]), Write(f, m),
         UNCHANGED outside
  PROVE  /\ DOMAIN bundles' \subseteq Identities
         /\ run.id \in DOMAIN bundles' /\ bundles'[run.id].file = f
         /\ \A id \in DOMAIN bundles' : BundleOK(id)'
<1>1. run.id \in Identities
  BY DEF IInv, RunOK, IdentityOK, Bundling, Reading
<1>2. /\ DOMAIN bundles' = DOMAIN bundles \cup {run.id}
      /\ bundles'[run.id] = [file |-> f, manifest |-> m]
      /\ \A id \in DOMAIN bundles : id # run.id => bundles'[id] = bundles[id]
  BY DEF Write
<1>3. visits' = visits
  BY DEF outside
<1>4. \A id \in DOMAIN bundles' : DirectoryOK(id, bundles'[id])
  BY <1>2 DEF IInv, BundleOK
<1>5. \A id \in DOMAIN bundles' : BundleOK(id)'
  BY <1>3, <1>4 DEF BundleOK, DirectoryOK, PacketOK, Revision, Found
<1>6. bundles'[run.id].file = f
  BY <1>2
<1>. QED
  BY <1>1, <1>2, <1>5, <1>6 DEF IInv, TypeOK

LEMMA RunPacketKept ==
  ASSUME RunPacketOK, run # None, run.at \in Bundling, run'.at \in Bundling,
         run'.cand = run.cand, run'.request = run.request, run'.packet = run.packet,
         UNCHANGED visits
  PROVE  RunPacketOK'
  BY DEF RunPacketOK, PacketOK, Found, Revision

(* A step of a run that writes f and m, with the files of left to go. *)
LEMMA BundlingStep ==
  ASSUME IInv, run # None, run.at \in Bundling, NEW f, NEW m, DirectoryOK(run.id, [file |-> f, manifest |-> m]), Write(f, m),
         NEW left \in SUBSET Names, run' = [run EXCEPT !.at = "bundle files", !.left = left],
         UNCHANGED <<outside, report, snapshot, workspace, spent>>,
         "summary" \notin left => f["summary"] = Summary,
         "candidate" \notin left => f["candidate"] = run.cand,
         run.request = None /\ "result" \notin left => f["result"] = Result,
         run.request # None /\ "packet" \notin left => f["packet"] = run.packet,
         run.request # None /\ "request" \notin left => f["request"] = run.request,
         run.request # None /\ run.input.mode = "policy" /\ "snapshot" \notin left =>
           f["snapshot"] = snapshot[run.event]
  PROVE  IInv'
<1>1. /\ run' \in Runs /\ run'.at = "bundle files" /\ run'.left = left
      /\ run'.cand = run.cand /\ run'.event = run.event /\ run'.input = run.input
      /\ run'.binding = run.binding /\ run'.request = run.request /\ run'.packet = run.packet
      /\ run'.id = run.id /\ run'.diff = run.diff
  <2>1. "bundle files" \in Steps
    BY DEF Steps, Bundling
  <2>. QED
    BY <2>1 DEF Runs, IInv, TypeOK
<1>2. TypeOK'
  BY <1>1, WriteGood DEF IInv, TypeOK, outside
<1>3. ReadingOK' /\ CandidateOK'
  BY <1>1, CandidateKept DEF Reading, Bundling
<1>4. BindingOK' /\ IdentityOK'
  BY <1>1, ZenonT(40) DEF IInv, RunOK, BindingOK, IdentityOK, Reading, Bundling
<1>5. CaseOK'
  BY <1>1 DEF CaseOK, At, Casing
<1>6. RunPacketOK'
  BY <1>1, RunPacketKept DEF IInv, RunOK, outside, Bundling
<1>7. WrittenOK'
  <2>1. Summary' = Summary /\ Result' = Result
    BY <1>1 DEF Summary, Result
  <2>2. run.id \in DOMAIN bundles' /\ bundles'[run.id].file = f
    BY WriteGood
  <2>. QED
    BY <1>1, <2>1, <2>2 DEF WrittenOK, Wrote, At
<1>. QED
  BY <1>2, <1>3, <1>4, <1>5, <1>6, <1>7, WriteGood DEF IInv, RunOK, CapturedOK

LEMMA LastStep ==
  ASSUME IInv, run # None, run.at \in Bundling, NEW f, NEW m, DirectoryOK(run.id, [file |-> f, manifest |-> m]), Write(f, m),
         run' = None, UNCHANGED <<outside, report, snapshot, workspace, spent>>
  PROVE  IInv'
<1>1. TypeOK'
  BY WriteGood DEF IInv, TypeOK, outside
<1>. QED
  BY <1>1, WriteGood, RunOver DEF IInv, CapturedOK

(* What every run of a bundle step knows of itself. *)
LEMMA BundlingFacts ==
  ASSUME IInv, run # None, run.at \in Bundling
  PROVE  /\ run \in Runs /\ run.cand \in Candidates /\ run.event \in Head
         /\ run.id.request = run.request
         /\ Summary \in Summaries /\ Summary.cand = run.cand /\ Summary.packet = run.packet
         /\ Summary.binding = run.binding
         /\ Summary.status = "READY" <=> run.request # None
         /\ run.request = None => run.packet = None
         /\ run.request # None => /\ PacketOK(run.packet)
                                  /\ run.packet.base = run.cand.base
                                  /\ run.packet.files = run.cand.files
<1>1. run \in Runs /\ run.cand \in Candidates /\ run.event \in Head
  BY DEF IInv, TypeOK, RunOK, CandidateOK, Bundling, Reading, Runs
<1>2. run.id.request = run.request
  BY DEF IInv, RunOK, IdentityOK, Bundling, Reading
<1>3. /\ Summary \in Summaries /\ Summary.cand = run.cand /\ Summary.packet = run.packet
      /\ Summary.binding = run.binding
      /\ Summary.status = "READY" <=> run.request # None
  <2>1. run.binding \in Bindings \cup {None} /\ run.packet \in PacketDocs \cup {None}
    BY <1>1 DEF Runs
  <2>. QED
    BY <1>1, <2>1 DEF Summary, Summaries
<1>4. IF run.request = None THEN run.packet = None
      ELSE /\ PacketOK(run.packet)
           /\ run.packet.base = run.cand.base /\ run.packet.files = run.cand.files
  BY DEF IInv, RunOK, RunPacketOK
<1>. QED
  BY <1>1, <1>2, <1>3, <1>4

(* What a run has is left to write: None is what it has not. *)
LEMMA BundleStartStep ==
  ASSUME IInv, BundleStart
  PROVE  IInv'
<1>1. /\ run # None /\ run.at = "bundle" /\ run.at \in Bundling
      /\ UNCHANGED <<outside, report, snapshot, workspace>>
  BY DEF BundleStart, At, Bundling
<1>2. DirectoryOK(run.id, Directory)
  BY <1>1, DirectoryGood
<1>. DEFINE f == [Directory.file EXCEPT !["explanation"] = None]
            m == Directory.manifest
            left == {name \in File : Output[name] # None}
<1>3. Write(f, m)
  BY DEF BundleStart
<1>4. f = [name \in Names |-> f[name]] /\ f["packet"] = Directory.file["packet"]
  BY <1>2 DEF DirectoryOK, Names
<1>5. DirectoryOK(run.id, [file |-> f, manifest |-> m])
  BY <1>2, <1>4 DEF DirectoryOK
<1>6. left \in SUBSET Names
  BY OutputIs
<1>7. "summary" \in left /\ "candidate" \in left
  BY <1>1, OutputIs, BundlingFacts, RunAssumption DEF Names
<1>8. run.request = None => "result" \in left
  <2>1. run.request = None => Result \in Results
    BY <1>1, BundlingFacts DEF Result, Results, Runs
  <2>. QED
    BY <2>1, OutputIs, RunAssumption DEF Names
<1>9. run.request # None => "packet" \in left /\ "request" \in left
  <2>1. run.request # None => run.packet \in PacketDocs
    BY <1>1, BundlingFacts DEF PacketOK
  <2>. QED
    BY <2>1, OutputIs, RunAssumption DEF Names
<1>10. run.request # None /\ run.input.mode = "policy" => "snapshot" \in left
  <2>1. run.request # None /\ run.input.mode = "policy" => snapshot[run.event] \in Policies
    BY <1>1 DEF IInv, RunOK, BindingOK, Bundling, Reading
  <2>. QED
    BY <2>1, OutputIs DEF Snapshot, Policies, Names
<1>11. CASE Continue([run EXCEPT !.at = "bundle files", !.left = left])
  <2>1. run' = [run EXCEPT !.at = "bundle files", !.left = left] /\ UNCHANGED spent
    BY <1>11 DEF Continue
  <2>. HIDE DEF f, m, left
  <2>. QED
    BY <1>1, <1>3, <1>5, <1>6, <1>7, <1>8, <1>9, <1>10, <2>1, BundlingStep
<1>12. CASE Refuse
  <2>. HIDE DEF f, m
  <2>. QED
    BY <1>1, <1>3, <1>5, <1>12, LastStep DEF Refuse
<1>. QED
  BY <1>11, <1>12 DEF BundleStart

LEMMA BundleFileStep ==
  ASSUME IInv, BundleFile
  PROVE  IInv'
<1>1. /\ run # None /\ run.at = "bundle files" /\ run.at \in Bundling /\ run \in Runs
      /\ UNCHANGED <<outside, report, snapshot, workspace>>
  BY DEF BundleFile, At, Bundling, IInv, TypeOK
<1>2. PICK name \in FirstOf(run.left) :
        /\ Write([Directory.file EXCEPT ![name] = Output[name]], Directory.manifest)
        /\ Continue([run EXCEPT !.left = @ \ {name}])
  BY DEF BundleFile
<1>. DEFINE d == Directory.file
            f == [d EXCEPT ![name] = Output[name]]
            m == Directory.manifest
            left == run.left \ {name}
<1>3. DirectoryOK(run.id, Directory)
  BY <1>1, DirectoryGood
<1>4. name \in run.left /\ run.left \in SUBSET Names
  BY <1>1, <1>2 DEF FirstOf, Runs
<1>5. /\ f = [n \in Names |-> f[n]] /\ f[name] = Output[name]
      /\ \A n \in Names : n # name => f[n] = d[n]
  BY <1>3, <1>4 DEF DirectoryOK
<1>6. run' = [run EXCEPT !.at = "bundle files", !.left = left] /\ UNCHANGED spent
  BY <1>1, <1>2 DEF Continue, Runs
<1>7. Write(f, m)
  BY <1>2
<1>. HIDE DEF f
<1>8. f["packet"] = IF name = "packet" THEN run.packet ELSE d["packet"]
  BY <1>5, OutputIs DEF Names
<1>9. DirectoryOK(run.id, [file |-> f, manifest |-> m])
  <2>1. f["packet"] # None => PacketOK(f["packet"])
    BY <1>1, <1>3, <1>8, BundlingFacts DEF DirectoryOK
  <2>2. run.id.request = None => f["packet"] = None
    BY <1>1, <1>3, <1>8, BundlingFacts DEF DirectoryOK
  <2>. QED
    BY <1>3, <1>5, <2>1, <2>2 DEF DirectoryOK
<1>10. \A n \in Names : \A c : (Wrote(n, c) /\ Output[n] = c /\ n \notin left) => f[n] = c
  BY <1>1, <1>4, <1>5 DEF Wrote, IInv, RunOK, WrittenOK, At, Directory
<1>11. /\ Wrote("summary", Summary) /\ Wrote("candidate", run.cand)
       /\ run.request = None => Wrote("result", Result)
       /\ run.request # None => Wrote("packet", run.packet) /\ Wrote("request", run.request)
       /\ run.request # None /\ run.input.mode = "policy" => Wrote("snapshot", snapshot[run.event])
  BY <1>1 DEF IInv, RunOK, WrittenOK, At
<1>12. run.input.mode = "policy" => Output["snapshot"] = snapshot[run.event]
  BY OutputIs DEF Snapshot
<1>13. /\ "summary" \notin left => f["summary"] = Summary
       /\ "candidate" \notin left => f["candidate"] = run.cand
       /\ run.request = None /\ "result" \notin left => f["result"] = Result
       /\ run.request # None /\ "packet" \notin left => f["packet"] = run.packet
       /\ run.request # None /\ "request" \notin left => f["request"] = run.request
       /\ run.request # None /\ run.input.mode = "policy" /\ "snapshot" \notin left =>
            f["snapshot"] = snapshot[run.event]
  BY <1>10, <1>11, <1>12, OutputIs DEF Names
<1>. HIDE DEF m
<1>14. left \in SUBSET Names
  BY <1>4
<1>. HIDE DEF left
<1>. QED
  BY <1>1, <1>6, <1>7, <1>9, <1>13, <1>14, BundlingStep

(* What the manifest lists is what this run wrote. *)
LEMMA BundleManifestStep ==
  ASSUME IInv, BundleManifest
  PROVE  IInv'
<1>1. /\ run # None /\ run.at = "bundle files" /\ run.at \in Bundling /\ run.left = {}
      /\ UNCHANGED <<outside, report, snapshot, workspace, spent>> /\ run' = None
  BY DEF BundleManifest, At, Bundling, Refuse
<1>2. DirectoryOK(run.id, Directory)
  BY <1>1, DirectoryGood
<1>. DEFINE f == Directory.file
<1>3. Write(f, f)
  BY DEF BundleManifest, ListedFiles
<1>4. /\ f["summary"] = Summary
      /\ run.request = None => f["result"] = Result
      /\ f["candidate"] = run.cand
      /\ run.request # None => f["packet"] = run.packet /\ f["request"] = run.request
      /\ run.request # None /\ run.input.mode = "policy" => f["snapshot"] = snapshot[run.event]
  BY <1>1 DEF IInv, RunOK, WrittenOK, Wrote, At, Directory
<1>5. run.request # None /\ run.binding # None => BoundByPolicy(f)
  <2>. SUFFICES ASSUME run.request # None, run.binding # None
                PROVE  BoundByPolicy(f)
    OBVIOUS
  <2>1. /\ run.input.mode = "policy"
        /\ PolicyAt[run.cand.base] \in Policies
        /\ snapshot[run.event] = PolicyAt[run.cand.base]
        /\ \E c \in Selected(PolicyAt[run.cand.base], run.cand.files) :
             run.request.class = PolicyAt[run.cand.base][c].task
    BY <1>1 DEF IInv, RunOK, BindingOK, Bundling, Reading
  <2>2. run.packet.base = run.cand.base /\ run.packet.files = run.cand.files
    BY <1>1, BundlingFacts
  <2>. QED
    BY <1>4, <2>1, <2>2 DEF BoundByPolicy
<1>6. run.request = None => f["result"] \in Results /\ f["result"].summary = f["summary"]
  <2>. SUFFICES ASSUME run.request = None
                PROVE  f["result"] \in Results /\ f["result"].summary = f["summary"]
    OBVIOUS
  <2>1. f["result"] = [cand |-> run.cand, diff |-> run.diff, summary |-> Summary]
    BY <1>4 DEF Result
  <2>2. run.cand \in Candidates /\ run.diff \in Revisions \cup {None} /\ Summary \in Summaries
    BY <1>1, BundlingFacts DEF Runs
  <2>. QED
    BY <1>4, <2>1, <2>2 DEF Results
<1>7. Whole(run.id, f)
  <2>1. DOMAIN f = Names
    BY <1>2 DEF DirectoryOK
  <2>2. run.request # None => f["packet"] \in PacketDocs
    BY <1>1, <1>4, BundlingFacts DEF PacketOK
  <2>. QED
    BY <1>1, <1>4, <1>5, <1>6, <2>1, <2>2, BundlingFacts DEF Whole
<1>8. DirectoryOK(run.id, [file |-> f, manifest |-> f])
  BY <1>2, <1>7 DEF DirectoryOK
<1>. HIDE DEF f
<1>. QED
  BY <1>1, <1>3, <1>8, LastStep

-----------------------------------------------------------------------------
(* The invariant, and what follows from it. *)

LEMMA InitGood == Init => IInv
<1>. SUFFICES ASSUME Init PROVE IInv
  OBVIOUS
<1>1. TypeOK
  BY DEF Init, TypeOK
<1>2. RunOK
  BY DEF Init, RunOK, ReadingOK, CandidateOK, BindingOK, CaseOK, IdentityOK, RunPacketOK,
     WrittenOK, At
<1>. QED
  BY <1>1, <1>2 DEF Init, IInv, CapturedOK

LEMMA StepGood == IInv /\ [Next]_vars => IInv'
<1>. SUFFICES ASSUME IInv, [Next]_vars PROVE IInv'
  OBVIOUS
<1>1. CASE PullMoves
  BY <1>1, PullMovesStep
<1>2. CASE TreeChanges \/ ProfileChanges
  BY <1>2, OperatorStep
<1>3. CASE Begin
  BY <1>3, BeginStep
<1>4. CASE Stop
  BY <1>4, StopStep
<1>5. CASE View \/ ReadFiles \/ ReadDiff \/ Analyze
  BY <1>5, ViewStep, ReadFilesStep, ReadDiffStep, AnalyzeStep
<1>6. CASE Bind \/ Unbound \/ Identify
  BY <1>6, BindStep, UnboundStep, IdentifyStep
<1>7. CASE Case
  <2>1. CASE LiveView("case view", "case files")
    BY <2>1, LiveViewStep
  <2>2. CASE LiveFiles("case files", "materialize")
    BY <2>2, LiveFilesStep
  <2>. QED
    BY <1>7, <2>1, <2>2, MaterializeStep, IntakeStep DEF Case
<1>8. CASE Review
  <2>1. CASE LiveView("packet view", "packet files")
    BY <2>1, LiveViewStep
  <2>2. CASE LiveFiles("packet files", "prepare")
    BY <2>2, LiveFilesStep
  <2>. QED
    BY <1>8, <2>1, <2>2, PrepareStep DEF Review
<1>9. CASE Bundle
  BY <1>9, BundleStartStep, BundleFileStep, BundleManifestStep DEF Bundle
<1>10. CASE UNCHANGED vars
  <2>1. UNCHANGED <<outside, kept, run, spent>>
    BY <1>10 DEF vars, outside, kept
  <2>2. TypeOK'
    BY <2>1 DEF IInv, TypeOK, outside, kept
  <2>3. RunOK' /\ CapturedOK'
    BY <2>1, RunKept DEF IInv, CapturedOK, outside, kept
  <2>. QED
    BY <2>1, <2>2, <2>3, BundlesSame DEF IInv, outside, kept
<1>. QED
  BY <1>1, <1>2, <1>3, <1>4, <1>5, <1>6, <1>7, <1>8, <1>9, <1>10 DEF Next

(* Pull request, collection, reports, packet and bundles stay as the       *)
(* invariant describes them, whatever moves or stops meanwhile.            *)
THEOREM Invariant == Spec => []IInv
  BY InitGood, StepGood, PTL DEF Spec

(* Whatever is pushed, forced back and rebased between the calls of a run, *)
(* and however often runs die, a packet in a bundle is of a head and base  *)
(* of one moment and has the files of the captured assessment; unless the  *)
(* pull request came to them three times, it has the files they had.       *)
THEOREM PacketsOfOneMoment == Spec => []PacketsAreOfOneMoment
<1>1. IInv => PacketsAreOfOneMoment
  <2>. SUFFICES ASSUME IInv, NEW p \in Packets
                PROVE  /\ visits[Revision(p)] > 0
                       /\ p.report.request.files = p.files
                       /\ visits[Revision(p)] < 3 => p.files = FilesOf[Revision(p)]
    BY DEF PacketsAreOfOneMoment
  <2>1. PICK id \in DOMAIN bundles : p = bundles[id].file["packet"] /\ p # None
    BY DEF Packets
  <2>2. PacketOK(p)
    BY <2>1 DEF IInv, BundleOK, DirectoryOK
  <2>3. visits[Revision(p)] \in Nat
    BY <2>2 DEF IInv, TypeOK, PacketOK, PacketDocs, Revision, Revisions
  <2>. QED
    BY <2>2, <2>3 DEF PacketOK, Found
<1>. QED
  BY <1>1, Invariant, PTL

(* A file of a bundle that verifies is the listed one. *)
LEMMA VerifiedIsListed ==
  ASSUME IInv, NEW id \in DOMAIN bundles, Verifies(bundles[id])
  PROVE  LET b == bundles[id]
         IN /\ Whole(id, b.manifest)
            /\ \A name \in Names : b.manifest[name] # None => b.file[name] = b.manifest[name]
  BY DEF IInv, BundleOK, DirectoryOK, Whole, Verifies

(* The class of a request bound by policy is the one that alone matches in *)
(* the policy at the base of the packet, whatever earlier runs left.       *)
THEOREM ClassOfTheBasePolicy == Spec => []AssessedUnderTheBasePolicy
<1>1. ASSUME IInv, NEW id \in DOMAIN bundles, Verifies(bundles[id]),
             bundles[id].file["packet"] # None, bundles[id].file["summary"].binding # None
      PROVE  LET f == bundles[id].file
                 policy == f["snapshot"]
             IN /\ policy = PolicyAt[f["packet"].base]
                /\ \E c \in DOMAIN policy :
                     /\ f["request"].class = policy[c].task
                     /\ \A d \in DOMAIN policy :
                          (policy[d].paths \cap f["packet"].files # {}) <=> d = c
  <2>. DEFINE f == bundles[id].file
              m == bundles[id].manifest
  <2>1. Whole(id, m) /\ \A name \in Names : m[name] # None => f[name] = m[name]
    BY <1>1, VerifiedIsListed
  <2>2. id.request # None
    BY <1>1 DEF IInv, BundleOK, DirectoryOK
  <2>3. f["summary"] = m["summary"]
    BY <2>1, RunAssumption DEF Whole, Names
  <2>4. /\ m["packet"] \in PacketDocs
        /\ m["snapshot"] \in Policies /\ m["snapshot"] = PolicyAt[m["packet"].base]
        /\ m["request"] # None
        /\ \E c \in Selected(m["snapshot"], m["packet"].files) :
             m["request"].class = m["snapshot"][c].task
    BY <1>1, <2>1, <2>2, <2>3 DEF Whole, BoundByPolicy
  <2>5. f["packet"] = m["packet"] /\ f["snapshot"] = m["snapshot"] /\ f["request"] = m["request"]
    BY <2>1, <2>4, RunAssumption DEF Names, Policies
  <2>6. PICK c \in Selected(f["snapshot"], f["packet"].files) :
          f["request"].class = f["snapshot"][c].task
    BY <2>4, <2>5
  <2>7. c \in DOMAIN f["snapshot"] /\ Matched(f["snapshot"], f["packet"].files) = {c}
    BY DEF Selected, Matched
  <2>8. \A d \in DOMAIN f["snapshot"] :
          (f["snapshot"][d].paths \cap f["packet"].files # {}) <=> d = c
    BY <2>7 DEF Matched
  <2>9. f["snapshot"] = PolicyAt[f["packet"].base]
    BY <2>4, <2>5
  <2>. QED
    BY <2>6, <2>7, <2>8, <2>9
<1>2. IInv => AssessedUnderTheBasePolicy
  BY <1>1 DEF AssessedUnderTheBasePolicy
<1>. QED
  BY <1>2, Invariant, PTL

(* The report of a directory is the one its case was captured with. *)
THEOREM RetriesFindTheReport == Spec => []RetriesFindTheirReport
<1>1. IInv => RetriesFindTheirReport
  <2>. SUFFICES ASSUME IInv, At("intake"), workspace[run.cand.head] # None
                PROVE  report[run.event] = workspace[run.cand.head]
    BY DEF RetriesFindTheirReport
  <2>1. run.event = run.cand.head /\ run.event \in Head
    BY DEF IInv, TypeOK, RunOK, CandidateOK, Runs, At, Reading
  <2>. QED
    BY <2>1 DEF IInv, CapturedOK
<1>. QED
  BY <1>1, Invariant, PTL

(* A bundle that verifies is of one run, though runs die between its files *)
(* and later ones write over what they left.                               *)
THEOREM VerifiedIsWhole == Spec => []VerifiedBundlesAreWhole
<1>1. ASSUME IInv, NEW id \in DOMAIN bundles, Verifies(bundles[id])
      PROVE  LET f == bundles[id].file
             IN /\ f["candidate"] = f["summary"].cand
                /\ f["summary"].status = "READY" => f["packet"] = f["summary"].packet
                /\ f["summary"].status = "WAITING" => f["result"].summary = f["summary"]
  <2>. DEFINE f == bundles[id].file
              m == bundles[id].manifest
  <2>1. Whole(id, m) /\ \A name \in Names : m[name] # None => f[name] = m[name]
    BY <1>1, VerifiedIsListed
  <2>2. m["summary"] \in Summaries /\ m["candidate"] \in Candidates /\ m["candidate"] = m["summary"].cand
    BY <2>1 DEF Whole, Summaries
  <2>3. f["summary"] = m["summary"] /\ f["candidate"] = m["candidate"]
    BY <2>1, <2>2, RunAssumption DEF Names
  <2>4. m["summary"].status = "READY" => f["packet"] = m["summary"].packet
    BY <2>1, RunAssumption DEF Whole, Names
  <2>5. m["summary"].status = "WAITING" => f["result"].summary = m["summary"]
    BY <2>1, RunAssumption DEF Whole, Names
  <2>. QED
    BY <2>2, <2>3, <2>4, <2>5
<1>2. IInv => VerifiedBundlesAreWhole
  BY <1>1 DEF VerifiedBundlesAreWhole
<1>. QED
  BY <1>2, Invariant, PTL
==============================================================================
