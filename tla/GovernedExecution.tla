-------------------------- MODULE GovernedExecution --------------------------
(* The execution boundary: the governed adapter that marks one bound pull request ready and        *)
(* converts it back (trust_execution_governed_github_pr_adapter.py), and the artifacts kept about   *)
(* such executions, each with its builder and its verifier: the shadow request and its dry run, the *)
(* isolation boundary, the controlled calibration and the production authorization review.          *)
(*                                                                                                  *)
(* Several operators drive adapters bound to the same pull request, which its authors push to,      *)
(* close, merge, and take in and out of draft between any two calls.  Calls fail before or after    *)
(* they took effect, or return without one.                                                         *)
(*                                                                                                  *)
(* An artifact is a file: whoever holds it may edit it and recompute its hashes and everything it   *)
(* derives.  Formats, identities and timestamps are left out; a hash is the content it is of.       *)
EXTENDS Integers, FiniteSets

CONSTANTS Operator,     \* those who hold an adapter
          Revision,     \* revisions the pull request may be pushed to
          Bound,        \* the revision the adapters are bound to
          Dossiers,     \* sets of production evidence a review may be asked with
          Nothing,      \* nothing
          MaxChanges,   \* pushes, state changes and failing calls
          MaxEdits      \* edits of an artifact

ASSUME BoundAssumption == Bound \in Revision

VARIABLES pr,        \* the pull request at GitHub
          op,        \* [Operator -> the operation it is in]
          answer,    \* [Operator -> how its last operation ended]
          artifact,  \* the artifact in hand
          resets,    \* how often a push put the branch back to the bound revision
          moves, edits

governedVars == <<pr, op, answer, artifact, resets, moves, edits>>

Operation == {"mark ready", "rollback"}
NoOperation == [stage |-> "idle"]
NoAnswer == [kind |-> "none"]

----------------------------------------------------------------------------
(* The adapter. *)

(* The state an operation needs the pull request in, and the one it leaves it in. *)
DraftBefore(o) == o = "mark ready"
DraftAfter(o) == ~DraftBefore(o)

(* A plausible slip: a reading is taken for one of the bound head. *)
IdentifiedByNumber(snapshot) == snapshot.head \in Revision

Identified(snapshot) == snapshot.head = Bound

InState(snapshot, draft) == snapshot.open /\ ~snapshot.merged /\ snapshot.draft = draft

Ends(p, a) == answer' = [answer EXCEPT ![p] = a] /\ op' = [op EXCEPT ![p] = NoOperation]

Fault == moves < MaxChanges /\ moves' = moves + 1

Begin(p, o) ==
  /\ op[p] = NoOperation /\ artifact = Nothing
  /\ op' = [op EXCEPT ![p] = [stage |-> "before", of |-> o]]
  /\ answer' = [answer EXCEPT ![p] = NoAnswer]
  /\ UNCHANGED <<pr, artifact, resets, moves, edits>>

Transport(p) ==
  /\ op[p].stage \in {"before", "after"}
  /\ Fault
  /\ Ends(p, [kind |-> "transport error", of |-> op[p].of, called |-> op[p].stage = "after"])
  /\ UNCHANGED <<pr, artifact, resets, edits>>

(* The reading before the call.  A head that moved is an error of the class the adapter uses after *)
(* a call; a state it does not expect is a precondition error.                                      *)
ReadBefore(p) ==
  /\ op[p].stage = "before"
  /\ LET o == op[p].of IN
     IF ~Identified(pr)
     THEN Ends(p, [kind |-> "postcondition error", of |-> o, called |-> FALSE])
     ELSE IF ~InState(pr, DraftBefore(o))
          THEN Ends(p, [kind |-> "precondition error", of |-> o, called |-> FALSE])
          ELSE op' = [op EXCEPT ![p] = [stage |-> "call", of |-> o, before |-> pr]] /\ UNCHANGED answer
  /\ UNCHANGED <<pr, artifact, resets, moves, edits>>

(* The call names the pull request, not its head; a closed one is left as it is. *)
Effect(o) == IF pr.open THEN [pr EXCEPT !.draft = DraftAfter(o)] ELSE pr

Call(p) ==
  /\ op[p].stage = "call"
  /\ pr' = Effect(op[p].of)
  /\ op' = [op EXCEPT ![p] = [stage |-> "after", of |-> op[p].of, before |-> op[p].before,
                            hit |-> pr.head, since |-> resets]]
  /\ UNCHANGED <<answer, artifact, resets, moves, edits>>

(* The call returns without having had an effect. *)
CallWithoutEffect(p) ==
  /\ op[p].stage = "call"
  /\ Fault
  /\ op' = [op EXCEPT ![p] = [stage |-> "after", of |-> op[p].of, before |-> op[p].before,
                            hit |-> pr.head, since |-> resets]]
  /\ UNCHANGED <<pr, answer, artifact, resets, edits>>

(* The call fails, with or without its effect. *)
CallFails(p) ==
  /\ op[p].stage = "call"
  /\ Fault
  /\ pr' \in {pr, Effect(op[p].of)}
  /\ Ends(p, [kind |-> "transport error", of |-> op[p].of, called |-> TRUE])
  /\ UNCHANGED <<artifact, resets, edits>>

ReadAfter(p) ==
  /\ op[p].stage = "after"
  /\ IF Identified(pr) /\ InState(pr, DraftAfter(op[p].of))
     THEN Ends(p, [kind |-> "receipt", of |-> op[p].of, before |-> op[p].before, after |-> pr,
                   hit |-> op[p].hit, reset |-> resets > op[p].since])
     ELSE Ends(p, [kind |-> "postcondition error", of |-> op[p].of, called |-> TRUE])
  /\ UNCHANGED <<pr, artifact, resets, moves, edits>>

(* Its authors.  A push may put the branch back to a revision it has left. *)
MoveHead ==
  /\ Fault /\ artifact = Nothing
  /\ pr.open
  /\ \E h \in Revision \ {pr.head} :
       /\ pr' = [pr EXCEPT !.head = h]
       /\ resets' = IF h = Bound THEN resets + 1 ELSE resets
  /\ UNCHANGED <<op, answer, artifact, edits>>

Move ==
  /\ Fault /\ artifact = Nothing
  /\ \/ pr.open /\ pr' = [pr EXCEPT !.draft = ~@]
     \/ pr.open /\ pr' = [pr EXCEPT !.open = FALSE]
     \/ pr.open /\ ~pr.draft /\ pr' = [pr EXCEPT !.open = FALSE, !.merged = TRUE]
     \/ ~pr.open /\ ~pr.merged /\ pr' = [pr EXCEPT !.open = TRUE]
  /\ UNCHANGED <<op, answer, artifact, resets, edits>>

----------------------------------------------------------------------------
(* The shadow request, which carries an envelope for an authorization nobody may fill in, and its   *)
(* dry run.                                                                                          *)

Payload == {"ready", "other"}

RequestRaw(payload) == [granted |-> FALSE, evaluated |-> FALSE, state |-> "PREPARED", payload |-> payload, hash |-> payload]

RequestDerived(r) == [identity |-> r, passed |-> TRUE]

RequestVerifies(a) ==
  /\ ~a.raw.granted /\ ~a.raw.evaluated /\ a.raw.state = "PREPARED"
  /\ a.raw.hash = a.raw.payload
  /\ a.derived = RequestDerived(a.raw)

Defect == {"capability not allowlisted", "arbitrary command", "no target binding", "no receipt",
           "no postcondition", "no rollback", "effects enabled"}

Check == {"source", "target", "authorization", "kill switch", "rollback evidence", "adapter", "capability"}

DryRunDerived(r) ==
  LET failed == {c \in Check : ~r.checks[c]} IN
  [blockers |-> failed,
   trace |-> {"PREPARED"} \cup (IF r.checks["authorization"] THEN {"SHADOW_AUTHORIZED"} ELSE {})
               \cup (IF failed = {} THEN {"PRECONDITIONS_VERIFIED", "DISPATCH_SUPPRESSED"} ELSE {"BLOCKED"}),
   passed |-> failed = {}]

DryRunRaw(req, passed, defects) ==
  [request |-> req, checks |-> [c \in Check |-> IF c = "adapter" THEN defects = {} ELSE c \in passed],
   defects |-> defects, reported |-> defects]

(* reported: what the artifact says is wrong with the adapter it describes. *)
(* A plausible slip: the check of the adapter is not compared with what is wrong with it. *)
DryRunVerifiesByChecks(a) == a.derived = DryRunDerived(a.raw) /\ a.raw.reported = a.raw.defects

DryRunVerifies(a) ==
  /\ a.derived = DryRunDerived(a.raw)
  /\ a.raw.reported = a.raw.defects
  /\ a.raw.checks["adapter"] = (a.raw.reported = {})

----------------------------------------------------------------------------
(* The isolation boundary: groups of facts about the repository, the credential and the adapter. *)

Fact == {"repository", "installation", "token", "surfaces", "readback"}

BoundaryDerived(r) ==
  LET blockers == {f \in Fact : f \notin r.facts}
                  \cup (IF r.reach # {r.repository} \/ r.repository = Nothing THEN {"installation"} ELSE {})
                  \cup (IF r.adapter # r.repository \/ r.repository = Nothing THEN {"surfaces"} ELSE {})
  IN [blockers |-> blockers, passed |-> blockers = {}]

BoundaryVerifies(a) == a.derived = BoundaryDerived(a.raw)

----------------------------------------------------------------------------
(* The controlled calibration: dispatch and rollback as the report tells them. *)

PreDispatch == {"source", "target", "kill switch", "rollback"}
Seen(draft, head) == [draft |-> draft, head |-> head]

PreDispatchBlockers(r) ==
  (PreDispatch \ r.pre) \cup (IF {"scoped", "proven"} \subseteq r.credential THEN {} ELSE {"credential"})

CalibrationDerived(r) ==
  LET pre == PreDispatchBlockers(r)
      blockers ==
        IF pre # {}
        THEN pre \cup {b \in {"attempted", "rollback attempted"} : b \in r.did}
                 \cup {b \in {"suppressed", "restored"} : b \notin r.did}
        ELSE {b \in {"attempted", "verified", "rollback attempted", "rollback verified", "restored"} : b \notin r.did}
             \cup {b \in {"suppressed"} : b \in r.did}
  IN [blockers |-> blockers, passed |-> blockers = {}]

(* The builder is told that the credential is scoped, and when dispatch and rollback were. *)
CalibrationRaw(scoped) ==
  [head |-> Bound, pre |-> PreDispatch, credential |-> IF scoped THEN {"scoped", "proven"} ELSE {},
   did |-> IF scoped THEN {"attempted", "verified", "rollback attempted", "rollback verified", "restored"}
           ELSE {"suppressed", "restored"},
   response |-> IF scoped THEN Seen(FALSE, Bound) ELSE Nothing,
   readback |-> IF scoped THEN Seen(FALSE, Bound) ELSE Nothing,
   undone |-> IF scoped THEN Seen(TRUE, Bound) ELSE Nothing,
   final |-> Seen(TRUE, Bound),
   restoration |-> IF scoped THEN "ROLLBACK_VERIFIED" ELSE "NO_DISPATCH_STATE_PRESERVED"]

CalibrationVerifies(a) ==
  LET r == a.raw IN
  /\ a.derived = CalibrationDerived(r)
  /\ r.final = Seen(TRUE, r.head) /\ "restored" \in r.did
  /\ IF PreDispatchBlockers(r) # {}
     THEN /\ r.did \cap {"attempted", "verified", "rollback attempted"} = {} /\ "suppressed" \in r.did
          /\ r.response = Nothing /\ r.readback = Nothing /\ r.undone = Nothing
          /\ r.restoration = "NO_DISPATCH_STATE_PRESERVED"
     ELSE /\ {"attempted", "rollback attempted"} \subseteq r.did /\ "suppressed" \notin r.did
          /\ r.response = Seen(FALSE, r.head) /\ r.readback = Seen(FALSE, r.head)
          /\ r.undone = Seen(TRUE, r.head)
          /\ r.restoration = "ROLLBACK_VERIFIED"

----------------------------------------------------------------------------
(* The production authorization review: what is said to be proven, and the evidence referred to. *)

Evidence == {"trust decision", "target", "operation", "payload", "target precondition", "credential scope",
             "rollback", "postcondition verifier", "blast radius", "kill switch", "recovery window"}

ASSUME DossierAssumption == Dossiers \subseteq SUBSET Evidence

ReviewDerived(r) ==
  LET blockers == {<<e, "not proven">> : e \in Evidence \ r.proven}
                  \cup {<<e, "incomplete">> : e \in (Evidence \cap r.proven) \ r.references}
                  \cup (IF r.boundary THEN {} ELSE {<<"boundary", "not authorized">>})
  IN [blockers |-> blockers, passed |-> blockers = {},
      request |-> IF blockers = {} THEN <<r.proven, r.references>> ELSE Nothing]

ReviewRaw(boundary, dossier) ==
  [boundary |-> boundary, authorization |-> boundary, proven |-> {"source head"} \cup dossier, references |-> dossier]

ReviewVerifies(a) == a.derived = ReviewDerived(a.raw) /\ a.raw.boundary = a.raw.authorization

----------------------------------------------------------------------------
(* Building, editing and deriving again. *)

Derived(kind, r) ==
  CASE kind = "request" -> RequestDerived(r)
    [] kind = "dry run" -> DryRunDerived(r)
    [] kind = "boundary" -> BoundaryDerived(r)
    [] kind = "calibration" -> CalibrationDerived(r)
    [] kind = "review" -> ReviewDerived(r)

Verifies(a) ==
  CASE a.kind = "request" -> RequestVerifies(a)
    [] a.kind = "dry run" -> DryRunVerifies(a)
    [] a.kind = "boundary" -> BoundaryVerifies(a)
    [] a.kind = "calibration" -> CalibrationVerifies(a)
    [] a.kind = "review" -> ReviewVerifies(a)

Document(kind, r) == [kind |-> kind, raw |-> r, derived |-> Derived(kind, r)]

(* What the builders are told comes from their callers, and nothing relates an artifact to the      *)
(* operations of an adapter: an artifact is worked on in a behaviour of its own.                     *)
Keep(a) ==
  /\ artifact = Nothing /\ moves = 0
  /\ \A p \in Operator : op[p] = NoOperation /\ answer[p] = NoAnswer
  /\ artifact' = a
  /\ UNCHANGED <<pr, op, answer, resets, moves, edits>>

PrepareRequest == \E payload \in Payload : Keep(Document("request", RequestRaw(payload)))

(* A request that verifies is dry-run against the revision, the target, the authorization, the kill  *)
(* switch and the rollback evidence the caller observed, and the adapter it describes.               *)
DryRun ==
  /\ artifact # Nothing
  /\ artifact.kind = "request" /\ Verifies(artifact)
  /\ \E failed \in {{}} \cup {{c} : c \in Check}, defects \in {{}} \cup {{d} : d \in Defect} :
       artifact' = Document("dry run", DryRunRaw(artifact.raw, Check \ failed, defects))
  /\ UNCHANGED <<pr, op, answer, resets, moves, edits>>

AssessBoundary ==
  \E missing \in {{}} \cup {{f} : f \in Fact}, adapter \in {"calibration", "production"},
     reach \in SUBSET {"calibration", "production"} :
    Keep(Document("boundary", [facts |-> Fact \ missing, repository |-> "calibration", adapter |-> adapter, reach |-> reach]))

ReportCalibration == \E scoped \in BOOLEAN : Keep(Document("calibration", CalibrationRaw(scoped)))

ReviewProduction == \E boundary \in BOOLEAN, dossier \in Dossiers : Keep(Document("review", ReviewRaw(boundary, dossier)))

Toggled(S, x) == IF x \in S THEN S \ {x} ELSE S \cup {x}
Flipped(f, x) == [f EXCEPT ![x] = ~@]

(* One edit of what the artifact says; the builder's own derivation is redone over it. *)
EditedRequest(r) ==
  {[r EXCEPT !.granted = ~@], [r EXCEPT !.evaluated = ~@]} \cup {[r EXCEPT !.state = x] : x \in {"PREPARED", "DISPATCHED"}}
  \cup {[r EXCEPT ![f] = x] : f \in {"payload", "hash"}, x \in Payload}

EditedDryRun(r) ==
  {[r EXCEPT !.checks = Flipped(@, c)] : c \in Check} \cup {[r EXCEPT !.defects = Toggled(@, d)] : d \in Defect}
  \cup {[r EXCEPT !.reported = Toggled(@, d)] : d \in Defect}

EditedBoundary(r) ==
  {[r EXCEPT !.facts = Toggled(@, f)] : f \in Fact} \cup {[r EXCEPT !.reach = Toggled(@, x)] : x \in {"calibration", "production"}}
  \cup {[r EXCEPT !.repository = x] : x \in {"production", Nothing}}

EditedCalibration(r) ==
  {[r EXCEPT !.pre = Toggled(@, c)] : c \in PreDispatch} \cup {[r EXCEPT !.credential = Toggled(@, c)] : c \in {"scoped", "proven"}}
  \cup {[r EXCEPT !.did = Toggled(@, b)] : b \in {"attempted", "suppressed", "verified", "rollback attempted", "rollback verified", "restored"}}
  \cup {[r EXCEPT ![f] = s] : f \in {"response", "readback", "undone"}, s \in {Nothing} \cup {Seen(d, h) : d \in BOOLEAN, h \in Revision}}
  \cup {[r EXCEPT !.final = Seen(d, h)] : d \in BOOLEAN, h \in Revision} \cup {[r EXCEPT !.head = h] : h \in Revision}
  \cup {[r EXCEPT !.restoration = m] : m \in {"ROLLBACK_VERIFIED", "NO_DISPATCH_STATE_PRESERVED"}}

EditedReview(r) ==
  {[r EXCEPT !.proven = Toggled(@, e)] : e \in Evidence \cup {"source head"}} \cup {[r EXCEPT !.references = Toggled(@, e)] : e \in Evidence}
  \cup {[r EXCEPT !.boundary = ~@], [r EXCEPT !.authorization = ~@]}

Edited(r, k) ==
  CASE k = "request" -> EditedRequest(r)
    [] k = "dry run" -> EditedDryRun(r)
    [] k = "boundary" -> EditedBoundary(r)
    [] k = "calibration" -> EditedCalibration(r)
    [] k = "review" -> EditedReview(r)

EditArtifact ==
  /\ artifact # Nothing /\ edits < MaxEdits
  /\ \E r \in Edited(artifact.raw, artifact.kind) : artifact' = Document(artifact.kind, r)
  /\ edits' = edits + 1
  /\ UNCHANGED <<pr, op, answer, resets, moves>>

(* An edit of what the artifact derives alone: it is said to have passed, or not. *)
Claim ==
  /\ artifact # Nothing /\ edits < MaxEdits
  /\ artifact' = [artifact EXCEPT !.derived = [@ EXCEPT !.passed = ~@]]
  /\ edits' = edits + 1
  /\ UNCHANGED <<pr, op, answer, resets, moves>>

----------------------------------------------------------------------------
GovernedInit ==
  /\ pr = [open |-> TRUE, merged |-> FALSE, draft |-> TRUE, head |-> Bound]
  /\ op = [p \in Operator |-> NoOperation]
  /\ answer = [p \in Operator |-> NoAnswer]
  /\ artifact = Nothing /\ resets = 0 /\ moves = 0 /\ edits = 0

GovernedNext ==
  \/ \E p \in Operator :
       \/ \E o \in Operation : Begin(p, o)
       \/ ReadBefore(p) \/ Call(p) \/ ReadAfter(p) \/ Transport(p) \/ CallWithoutEffect(p) \/ CallFails(p)
  \/ MoveHead \/ Move
  \/ PrepareRequest \/ DryRun \/ AssessBoundary \/ ReportCalibration \/ ReviewProduction \/ EditArtifact \/ Claim

GovernedSpec == GovernedInit /\ [][GovernedNext]_governedVars

----------------------------------------------------------------------------
(* Properties. *)

(* The call does not name the head it is meant for, so it may hit a head the adapter is not bound   *)
(* to, and both readings compare the head alone.  Such a call gets a receipt only if the branch was *)
(* reset to the bound head between the call and the reading after it; and none is given for a call  *)
(* that began on a pull request closed, merged, or already as the operation would leave it.         *)
StrayReceiptsTakeAReset ==
  \A p \in Operator :
    answer[p].kind = "receipt" => /\ answer[p].hit # Bound => answer[p].reset
                                  /\ InState(answer[p].before, DraftBefore(answer[p].of))

(* Whatever an artifact was edited into, a verifier that accepts it as passed accepts only what its *)
(* builder would have let pass: a request nobody authorized, an adapter without defects and every   *)
(* check; a token that reaches the adapter's repository and no other; an effect read back and       *)
(* undone at the bound head with a scoped credential; production evidence that is all referred to,  *)
(* under an authorized boundary.                                                                    *)
PassesAreEarned ==
  artifact # Nothing /\ Verifies(artifact) /\ artifact.derived.passed =>
    LET r == artifact.raw IN
    CASE artifact.kind = "request" -> ~r.granted /\ r.state = "PREPARED"
      [] artifact.kind = "dry run" -> r.defects = {} /\ (\A c \in Check : r.checks[c]) /\ ~r.request.granted
      [] artifact.kind = "boundary" -> r.reach = {r.adapter} /\ r.facts = Fact
      [] artifact.kind = "calibration" ->
           /\ {"scoped", "proven"} \subseteq r.credential /\ PreDispatch \subseteq r.pre
           /\ r.readback = Seen(FALSE, r.head) /\ r.final = Seen(TRUE, r.head)
      [] artifact.kind = "review" -> r.references = Evidence /\ r.authorization
=============================================================================
