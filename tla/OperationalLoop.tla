---------------------------- MODULE OperationalLoop ----------------------------
(***************************************************************************)
(* The operational review loop of one pull request: four workflows of the  *)
(* authority repository that hand each other artifacts.                    *)
(*                                                                         *)
(*   auto2  assesses the pull request and uploads a review packet          *)
(*   orl4   records a person's decision on the packet                      *)
(*   orl5   prepares the context in which an outcome may be declared       *)
(*   orl6   records a person's outcome for the decision                    *)
(*                                                                         *)
(* Runs of one workflow are serial (its concurrency group is the pull      *)
(* request; a new auto2 run cancels the one under way), runs of different  *)
(* workflows interleave, and the pull request moves between any two        *)
(* readings. A runner may die before it uploads. Artifacts have one        *)
(* retention period and the listing reads a bounded number of the newest,  *)
(* so the oldest artifact is the first to be listed no longer.             *)
(***************************************************************************)
EXTENDS Integers, Sequences, FiniteSets

CONSTANTS
  HeadOid, BaseOid,  \* revisions the head and the base of the pull request take
  None,              \* no revision
  MaxMoves,          \* bound: how often the pull request changes
  MaxAuthority,      \* bound: revisions of the authority repository
  MaxArtifacts,      \* bound: artifacts ever uploaded
  MaxDeaths          \* bound: runners that die

ASSUME LoopAssumption ==
  /\ None \notin HeadOid \cup BaseOid
  /\ MaxMoves \in Nat /\ MaxAuthority \in Nat /\ MaxArtifacts \in Nat /\ MaxDeaths \in Nat

VARIABLES
  pull,        \* the pull request as GitHub shows it
  authority,   \* the revision of the authority repository
  store,       \* the artifacts uploaded so far, oldest first
  gone,        \* how many of the oldest are listed no longer
  runs,        \* the run under way in each workflow
  deaths

vars == <<pull, authority, store, gone, runs, deaths>>

Workflow == {"auto2", "orl4", "orl5", "orl6"}
State == {"open", "closed", "merged"}

(* view counts the changes of what else GitHub says of the pull request:   *)
(* its hash enters the packet.                                             *)
Pull == [head : HeadOid, base : BaseOid, state : State, view : 0..MaxMoves, moves : 0..MaxMoves]

(* base is the one the run was dispatched for, seen the one its analysis   *)
(* read; source is the artifact this one was made from, and action the     *)
(* review action an orl4, orl5 or orl6 artifact is about.                  *)
Artifact == [kind : Workflow, head : HeadOid, base : BaseOid, seen : BaseOid,
             authority : 0..MaxAuthority, view : 0..MaxMoves, source : Nat, action : Nat]

Phase == {"idle", "checking", "analyzing", "preparing", "discovering",
          "inspecting", "submitting", "confirming", "uploading"}

(* head and base: the target the run works on; todo, valid: the artifacts  *)
(* found and not yet replayed, and those that replayed; prior: artifacts   *)
(* of its own kind it found; chosen: the source it works from.             *)
Run == [at : Phase, head : HeadOid \cup {None}, base : BaseOid \cup {None},
        seen : BaseOid \cup {None}, authority : 0..MaxAuthority, view : 0..MaxMoves,
        todo : SUBSET Nat, valid : SUBSET Nat, prior : SUBSET Nat, chosen : Nat]

TypeOK ==
  /\ pull \in Pull
  /\ authority \in 0..MaxAuthority
  /\ store \in Seq(Artifact)
  /\ gone \in 0..Len(store)
  /\ runs \in [Workflow -> Run]
  /\ deaths \in 0..MaxDeaths

Idle == [at |-> "idle", head |-> None, base |-> None, seen |-> None, authority |-> 0,
         view |-> 0, todo |-> {}, valid |-> {}, prior |-> {}, chosen |-> 0]

Init ==
  /\ pull \in {p \in Pull : p.state = "open" /\ p.view = 0 /\ p.moves = 0}
  /\ authority = 0
  /\ store = << >>
  /\ gone = 0
  /\ runs = [w \in Workflow |-> Idle]
  /\ deaths = 0

----------------------------------------------------------------------------
(* The pull request, the authority repository and the artifact store. *)

Moves(p) ==
  /\ pull.moves < MaxMoves
  /\ pull' = [p EXCEPT !.moves = pull.moves + 1]
  /\ UNCHANGED <<authority, store, gone, runs, deaths>>

Push == pull.state = "open" /\ \E h \in HeadOid \ {pull.head} : Moves([pull EXCEPT !.head = h])

(* The base branch advances, or the pull request is given another one. *)
MoveBase == pull.state = "open" /\ \E b \in BaseOid \ {pull.base} : Moves([pull EXCEPT !.base = b])

Merge == pull.state = "open" /\ Moves([pull EXCEPT !.state = "merged"])

Close == pull.state = "open" /\ Moves([pull EXCEPT !.state = "closed"])

Reopen == pull.state = "closed" /\ Moves([pull EXCEPT !.state = "open"])

Comment == Moves([pull EXCEPT !.view = pull.view + 1])

AdvanceAuthority ==
  /\ authority < MaxAuthority
  /\ authority' = authority + 1
  /\ UNCHANGED <<pull, store, gone, runs, deaths>>

(* The oldest listed artifact expires or leaves the pages that are read. *)
Expire ==
  /\ gone < Len(store)
  /\ gone' = gone + 1
  /\ UNCHANGED <<pull, authority, store, runs, deaths>>

Listed == (gone + 1)..Len(store)

Find(kind) == {i \in Listed : store[i].kind = kind /\ store[i].head = pull.head}

----------------------------------------------------------------------------
(* Steps the workflows share. *)

Becomes(w, r) ==
  /\ runs' = [v \in Workflow |-> IF v = w THEN r ELSE runs[v]]
  /\ UNCHANGED <<pull, authority, store, gone, deaths>>

At(w, phase) == runs[w].at = phase

Refuse(w) == Becomes(w, Idle)

(* The runner dies; nothing it wrote outlives it. *)
Die(w) ==
  /\ runs[w].at # "idle"
  /\ deaths < MaxDeaths
  /\ deaths' = deaths + 1
  /\ runs' = [v \in Workflow |-> IF v = w THEN Idle ELSE runs[v]]
  /\ UNCHANGED <<pull, authority, store, gone>>

Upload(w, artifact) ==
  /\ At(w, "uploading")
  /\ Len(store) < MaxArtifacts
  /\ store' = Append(store, artifact)
  /\ runs' = [v \in Workflow |-> IF v = w THEN Idle ELSE runs[v]]
  /\ UNCHANGED <<pull, authority, gone, deaths>>

----------------------------------------------------------------------------
(* auto2: the review packet of one head and base. *)

(* A dispatch names the head and base its operator saw, and cancels the    *)
(* run under way.                                                          *)
BridgeDispatch ==
  /\ pull.state = "open"
  /\ Becomes("auto2", [Idle EXCEPT !.at = "checking", !.head = pull.head,
                         !.base = pull.base, !.authority = authority])

CanBridge(r) == pull.state = "open" /\ pull.head = r.head /\ pull.base = r.base

(* run_trusted_github_pr: the live target must be open at the dispatched   *)
(* head and base; the request is read at the authority revision.           *)
BridgeCheck ==
  LET r == runs["auto2"] IN
  /\ At("auto2", "checking")
  /\ \/ CanBridge(r) /\ Becomes("auto2", [r EXCEPT !.at = "analyzing"])
     \/ ~CanBridge(r) /\ Refuse("auto2")

(* run_github_pr: the analysis reads the pull request again, and binds the *)
(* candidate to the base and the view it reads.                            *)
BridgeAnalyze ==
  LET r == runs["auto2"] IN
  /\ At("auto2", "analyzing")
  /\ \/ /\ pull.head = r.head
        /\ Becomes("auto2", [r EXCEPT !.at = "preparing", !.seen = pull.base, !.view = pull.view])
     \/ pull.head # r.head /\ Refuse("auto2")

(* Materialization and packet preparation verify the live head and base    *)
(* against the candidate; the case goes to a workspace of its own.         *)
BridgePrepare ==
  LET r == runs["auto2"] IN
  /\ At("auto2", "preparing")
  /\ \/ pull.head = r.head /\ pull.base = r.seen /\ Becomes("auto2", [r EXCEPT !.at = "uploading"])
     \/ (pull.head # r.head \/ pull.base # r.seen) /\ Refuse("auto2")

PacketArtifact(r) ==
  [kind |-> "auto2", head |-> r.head, base |-> r.base, seen |-> r.seen,
   authority |-> r.authority, view |-> r.view, source |-> 0, action |-> 0]

BridgeUpload == Upload("auto2", PacketArtifact(runs["auto2"]))

(* What tells packets apart, and the assessment a packet is for: it is     *)
(* computed from the head and the authority's request and time alone.      *)
Packet(a) == [head |-> a.head, base |-> a.seen, authority |-> a.authority, view |-> a.view]
Assessment(a) == [head |-> a.head, authority |-> a.authority]

----------------------------------------------------------------------------
(* Replay of what was found, one artifact at a time. *)

(* A packet, alone or carried by a decision or a context, replays when the *)
(* target of the run that made it, its candidate and the live pull request *)
(* agree. The pull request need not be open.                               *)
Replays(a) == a.seen = a.base /\ pull.head = a.head /\ pull.base = a.base

Inspect(w, i) ==
  LET r == runs[w] IN
  /\ At(w, "inspecting")
  /\ i \in r.todo
  /\ \/ Replays(store[i]) /\ Becomes(w, [r EXCEPT !.todo = r.todo \ {i}, !.valid = r.valid \cup {i}])
     \/ ~Replays(store[i]) /\ Becomes(w, [r EXCEPT !.todo = r.todo \ {i}])

ReviewInspect(i) == Inspect("orl4", i)
ContextInspect(i) == Inspect("orl5", i)
OutcomeInspect(i) == Inspect("orl6", i)

Inspected(w) == At(w, "inspecting") /\ runs[w].todo = {}

(* Nothing to work from, or sources that disagree. *)
SamePacket(found) == \A i, j \in found : Packet(store[i]) = Packet(store[j])
SameAction(found) == \A i, j \in found : store[i].action = store[j].action

----------------------------------------------------------------------------
(* orl4: a decision on the packet. *)

(* A dispatched workflow first reads the target its upload is named by. *)
ReviewResolve ==
  /\ At("orl4", "idle")
  /\ pull.state = "open"
  /\ Becomes("orl4", [Idle EXCEPT !.at = "discovering", !.head = pull.head, !.base = pull.base])

ReviewDiscover ==
  LET r == runs["orl4"] IN
  /\ At("orl4", "discovering")
  /\ \/ /\ pull.state = "open" /\ Find("auto2") # {}
        /\ Becomes("orl4", [r EXCEPT !.at = "inspecting", !.todo = Find("auto2"),
                              !.prior = Find("orl4")])
     \/ (pull.state # "open" \/ Find("auto2") = {}) /\ Refuse("orl4")

(* A listed decision on this assessment at this head. *)
ReviewAlreadyRecorded(r, i) == \E p \in r.prior : Assessment(store[p]) = Assessment(store[i])

(* Mutant: a repeated dispatch is not refused.                             *)
CanReviewAgain(r, i) == SamePacket(r.valid)

CanReview(r, i) == SamePacket(r.valid) /\ ~ReviewAlreadyRecorded(r, i)

ReviewSelect ==
  LET r == runs["orl4"] IN
  /\ Inspected("orl4")
  /\ \/ \E i \in r.valid :
          CanReview(r, i) /\ Becomes("orl4", [r EXCEPT !.at = "submitting", !.chosen = i])
     \/ (\A i \in r.valid : ~CanReview(r, i)) /\ Refuse("orl4")

(* submit_review_packet on the downloaded workspace: the packet replays    *)
(* once more, and the decision is recorded.                                *)
ReviewSubmit ==
  LET r == runs["orl4"] IN
  /\ At("orl4", "submitting")
  /\ \/ Replays(store[r.chosen]) /\ Becomes("orl4", [r EXCEPT !.at = "confirming"])
     \/ ~Replays(store[r.chosen]) /\ Refuse("orl4")

(* The last reading: still open, and at the head and base decided on,      *)
(* which must be the ones the workflow resolved.                           *)
Confirmed(r) ==
  /\ pull.state = "open"
  /\ pull.head = store[r.chosen].head /\ pull.base = store[r.chosen].base
  /\ r.head = store[r.chosen].head /\ r.base = store[r.chosen].base

ReviewConfirm ==
  LET r == runs["orl4"] IN
  /\ At("orl4", "confirming")
  /\ \/ Confirmed(r) /\ Becomes("orl4", [r EXCEPT !.at = "uploading"])
     \/ ~Confirmed(r) /\ Refuse("orl4")

(* The decision, with the packet it is on; it is an action of its own.     *)
DecisionArtifact(i) ==
  [store[i] EXCEPT !.kind = "orl4", !.source = i, !.action = Len(store) + 1]

ReviewUpload == Upload("orl4", DecisionArtifact(runs["orl4"].chosen))

----------------------------------------------------------------------------
(* orl5: the context of a decision. The pull request may be merged by now. *)

ContextDiscover ==
  /\ At("orl5", "idle")
  /\ Find("orl4") # {}
  /\ Becomes("orl5", [Idle EXCEPT !.at = "inspecting", !.todo = Find("orl4"),
                         !.head = pull.head, !.base = pull.base])

(* The observation of the pull request read at discovery and the one read  *)
(* now both have the head and base the decision was made at.               *)
Observes(r, i) ==
  /\ r.head = store[i].head /\ r.base = store[i].base
  /\ pull.head = store[i].head /\ pull.base = store[i].base

CanPrepare(r, i) == SameAction(r.valid) /\ Observes(r, i)

ContextSelect ==
  LET r == runs["orl5"] IN
  /\ Inspected("orl5")
  /\ \/ \E i \in r.valid :
          CanPrepare(r, i) /\ Becomes("orl5", [r EXCEPT !.at = "uploading", !.chosen = i])
     \/ (\A i \in r.valid : ~CanPrepare(r, i)) /\ Refuse("orl5")

ContextArtifact(i) == [store[i] EXCEPT !.kind = "orl5", !.source = i]

ContextUpload == Upload("orl5", ContextArtifact(runs["orl5"].chosen))

----------------------------------------------------------------------------
(* orl6: the outcome of a decision. *)

(* Mutant: earlier outcomes are listed under the prefix of the contexts.   *)
OutcomeDiscoverOtherPrefix ==
  /\ At("orl6", "idle")
  /\ Find("orl5") # {}
  /\ Becomes("orl6", [Idle EXCEPT !.at = "inspecting", !.todo = Find("orl5"),
                         !.prior = Find("auto2")])

OutcomeDiscover ==
  /\ At("orl6", "idle")
  /\ Find("orl5") # {}
  /\ Becomes("orl6", [Idle EXCEPT !.at = "inspecting", !.todo = Find("orl5"),
                         !.prior = Find("orl6")])

(* A listed outcome for this assessment and this review action. *)
OutcomeAlreadyRecorded(r, i) ==
  \E p \in r.prior :
    Assessment(store[p]) = Assessment(store[i]) /\ store[p].action = store[i].action

CanDeclare(r, i) == SameAction(r.valid) /\ ~OutcomeAlreadyRecorded(r, i)

(* The newest of the contexts that replayed. *)
OutcomeSelect ==
  LET r == runs["orl6"] IN
  /\ Inspected("orl6")
  /\ \/ \E i \in r.valid :
          /\ \A j \in r.valid : j <= i
          /\ CanDeclare(r, i)
          /\ Becomes("orl6", [r EXCEPT !.at = "submitting", !.chosen = i])
     \/ (\A i \in r.valid : ~CanDeclare(r, i)) /\ Refuse("orl6")

(* The outcome is transported into a copy of the workspace the decision    *)
(* is recorded in, or its authority source does not support it. There is   *)
(* no further reading of the pull request.                                 *)
OutcomeTransport ==
  /\ At("orl6", "submitting")
  /\ \/ Becomes("orl6", [runs["orl6"] EXCEPT !.at = "uploading"])
     \/ Refuse("orl6")

OutcomeArtifact(i) == [store[i] EXCEPT !.kind = "orl6", !.source = i]

OutcomeUpload == Upload("orl6", OutcomeArtifact(runs["orl6"].chosen))

----------------------------------------------------------------------------

Bridge == BridgeDispatch \/ BridgeCheck \/ BridgeAnalyze \/ BridgePrepare \/ BridgeUpload

Review ==
  \/ ReviewResolve \/ ReviewDiscover \/ ReviewSelect
  \/ ReviewSubmit \/ ReviewConfirm \/ ReviewUpload

Context == ContextDiscover \/ ContextSelect \/ ContextUpload

Outcome == OutcomeDiscover \/ OutcomeSelect \/ OutcomeTransport \/ OutcomeUpload

Elsewhere ==
  Push \/ MoveBase \/ Merge \/ Close \/ Reopen \/ Comment \/ AdvanceAuthority \/ Expire

Next ==
  \/ Bridge \/ Review \/ Context \/ Outcome \/ Elsewhere
  \/ \E i \in 1..Len(store) : ReviewInspect(i) \/ ContextInspect(i) \/ OutcomeInspect(i)
  \/ \E w \in Workflow : Die(w)

Spec == Init /\ [][Next]_vars

----------------------------------------------------------------------------
(* Properties. *)

Made(kind) == {i \in 1..Len(store) : store[i].kind = kind}

(* An uploaded packet is decided on at most once and a context declared   *)
(* on at most once, also when the answer is listed no longer: what it      *)
(* answers is older and is gone before it. (The repeated dispatch          *)
(* protection of ORL-4 and ORL-6.)                                         *)
EachArtifactAnsweredOnce ==
  \A kind \in {"orl4", "orl6"} :
    \A i, j \in Made(kind) : store[i].source = store[j].source => i = j

(* As long as they are listed, an assessment has one decision and a review *)
(* action one outcome: a person is never asked to reconcile two of them,   *)
(* however the pull request, repeated packets and contexts, and expiry     *)
(* move.                                                                   *)
OneListedAnswer ==
  /\ \A i, j \in Made("orl4") \cap Listed : Assessment(store[i]) = Assessment(store[j]) => i = j
  /\ \A i, j \in Made("orl6") \cap Listed : store[i].action = store[j].action => i = j
=============================================================================
