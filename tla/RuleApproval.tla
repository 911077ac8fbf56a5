----------------------------- MODULE RuleApproval -----------------------------
(***************************************************************************)
(* The candidate and the approved rule file, the approvals that replace    *)
(* both under a lock file (application/approve_rule.py, io.py), and the    *)
(* commands that rewrite the candidate file without the lock: rediscovery, *)
(* in place, and the attachment of an evaluation, by a replacement.        *)
(*                                                                         *)
(* An approval computes its two files before it takes the lock; what it    *)
(* would restore it reads inside. A rule is its identity; its trigger, its *)
(* evidence and its evaluation are left out.                               *)
(***************************************************************************)
EXTENDS Naturals

CONSTANTS
  Rule,      \* rule identities
  Approver,  \* processes that approve
  Editor,    \* processes that rediscover or attach evaluations
  Torn,      \* the content of a file that cannot be loaded
  None

Process == Approver \cup Editor

(* approved by a command, rejected (or retired) by hand                    *)
Status == {"absent", "candidate", "approved", "rejected"}

Candidates == [Rule -> Status]

Approved == [rules : SUBSET Rule]

ASSUME RuleAssumption ==
  /\ Approver \cap Editor = {}
  /\ None \notin Rule /\ None \notin Candidates /\ None \notin Approved
  /\ Torn \notin Candidates /\ Torn \notin Approved /\ Torn # None

VARIABLES
  candidates,  \* the candidate file
  approved,    \* the approved file; None when there is none
  lock,        \* whether the lock file is there
  pc,          \* where each command is
  job,         \* what it has read and computed
  acked,       \* history: the rules whose approval was reported
  committed,   \* history: the approved file of the last approval that left one
  overlapped   \* history: whether two approvals were ever under way at once

vars == <<candidates, approved, lock, pc, job, acked, committed, overlapped>>

Phase == {"idle", "reading", "locking", "staging", "replacing_approved",
          "replacing_candidates", "restoring", "unlocking",
          "editing", "truncating", "writing", "attaching"}

(* open: whether the file an editor writes to is still the candidate file. *)
Job == [rule : Rule \cup {None}, candidates : Candidates \cup {None},
        approved : Approved \cup {None}, original : Approved \cup {None, Torn},
        open : BOOLEAN]

NoJob == [rule |-> None, candidates |-> None, approved |-> None, original |-> None,
          open |-> FALSE]

TypeOK ==
  /\ candidates \in Candidates \cup {Torn}
  /\ approved \in Approved \cup {None, Torn}
  /\ lock \in BOOLEAN
  /\ pc \in [Process -> Phase]
  /\ job \in [Process -> Job]
  /\ acked \subseteq Rule
  /\ committed \in Approved \cup {None}
  /\ overlapped \in BOOLEAN

(* No rule has been approved yet. *)
Init ==
  /\ candidates \in [Rule -> Status \ {"approved"}]
  /\ approved = None
  /\ lock = FALSE
  /\ pc = [p \in Process |-> "idle"]
  /\ job = [p \in Process |-> NoJob]
  /\ acked = {}
  /\ committed = None
  /\ overlapped = FALSE

Goto(p, phase) == pc' = [pc EXCEPT ![p] = phase]

Quit(p) == Goto(p, "idle") /\ job' = [job EXCEPT ![p] = NoJob]

(* load_rules: a missing file holds no rules. *)
Rules(file) == IF file = None THEN {} ELSE file.rules

-----------------------------------------------------------------------------
(* Approval.                                                               *)

ReadCandidates(p) ==
  /\ pc[p] = "idle"
  /\ candidates # Torn
  /\ job' = [job EXCEPT ![p].candidates = candidates]
  /\ overlapped' = (overlapped \/ \E q \in Approver : pc[q] # "idle")
  /\ Goto(p, "reading")
  /\ UNCHANGED <<candidates, approved, lock, acked, committed>>

Promoted(c, r) == [c EXCEPT ![r] = "approved"]

Approve(p, r) ==
  /\ pc[p] = "reading"
  /\ approved # Torn
  /\ job[p].candidates[r] = "candidate"
  /\ r \notin Rules(approved)
  /\ job' = [job EXCEPT ![p] =
       [job[p] EXCEPT !.rule = r, !.candidates = Promoted(@, r),
                      !.approved = [rules |-> Rules(approved) \cup {r}]]]
  /\ Goto(p, "locking")
  /\ UNCHANGED <<candidates, approved, lock, acked, committed, overlapped>>

(* A slip that keeps what it read when it decided as its originals. *)
TakeLockStaged(p) ==
  /\ pc[p] = "locking"
  /\ ~lock
  /\ lock' = TRUE
  /\ job' = [job EXCEPT ![p].original =
       IF job[p].approved.rules = {job[p].rule} THEN None
       ELSE [rules |-> job[p].approved.rules \ {job[p].rule}]]
  /\ Goto(p, "replacing_approved")
  /\ UNCHANGED <<candidates, approved, acked, committed, overlapped>>

(* The lock file is created exclusively. *)
TakeLock(p) ==
  /\ pc[p] = "locking"
  /\ ~lock
  /\ lock' = TRUE
  /\ Goto(p, "staging")
  /\ UNCHANGED <<candidates, approved, job, acked, committed, overlapped>>

Stage(p) ==
  /\ pc[p] = "staging"
  /\ job' = [job EXCEPT ![p].original = approved]
  /\ Goto(p, "replacing_approved")
  /\ UNCHANGED <<candidates, approved, lock, acked, committed, overlapped>>

ReplaceApproved(p) ==
  /\ pc[p] = "replacing_approved"
  /\ approved' = job[p].approved
  /\ Goto(p, "replacing_candidates")
  /\ UNCHANGED <<candidates, lock, job, acked, committed, overlapped>>

(* A candidate file that an editor has open is replaced under its hands.   *)
Closed(jobs) == [q \in Process |-> [jobs[q] EXCEPT !.open = FALSE]]

ReplaceCandidates(p) ==
  /\ pc[p] = "replacing_candidates"
  /\ candidates' = job[p].candidates
  /\ committed' = job[p].approved
  /\ job' = Closed(job)
  /\ Goto(p, "unlocking")
  /\ UNCHANGED <<approved, lock, acked, overlapped>>

(* The approval is reported when the lock file is gone. *)
Unlock(p) ==
  /\ pc[p] = "unlocking"
  /\ lock' = FALSE
  /\ acked' = acked \cup ({job[p].rule} \ {None})
  /\ Quit(p)
  /\ UNCHANGED <<candidates, approved, committed, overlapped>>

-----------------------------------------------------------------------------
(* Errors of an approval.                                                  *)

(* A refusal, also by somebody else's lock file; or an error while the     *)
(* originals are read, which is not covered by the cleanup.                *)
GiveUp(p) ==
  /\ pc[p] \in {"reading", "locking", "staging"}
  /\ Quit(p)
  /\ UNCHANGED <<candidates, approved, lock, acked, committed, overlapped>>

(* An error before anything was replaced. *)
Unwind(p) ==
  /\ pc[p] = "replacing_approved"
  /\ lock' = FALSE
  /\ Quit(p)
  /\ UNCHANGED <<candidates, approved, acked, committed, overlapped>>

(* A slip that does not report the error. *)
RollBackSilently(p) ==
  /\ pc[p] = "replacing_candidates"
  /\ approved' = IF job[p].original = None THEN None ELSE Torn
  /\ Goto(p, IF job[p].original = None THEN "unlocking" ELSE "restoring")
  /\ UNCHANGED <<candidates, lock, job, acked, committed, overlapped>>

(* A slip that removes the file whatever it was. *)
RollBackByUnlink(p) ==
  /\ pc[p] = "replacing_candidates"
  /\ job' = [job EXCEPT ![p].rule = None]
  /\ approved' = None
  /\ Goto(p, "unlocking")
  /\ UNCHANGED <<candidates, lock, acked, committed, overlapped>>

(* The candidate file cannot be replaced: the approved file is put back,   *)
(* by removing it or by rewriting it in place; see also LeaveInPlace.      *)
RollBack(p) ==
  /\ pc[p] = "replacing_candidates"
  /\ job' = [job EXCEPT ![p].rule = None]
  /\ approved' = IF job[p].original = None THEN None ELSE Torn
  /\ Goto(p, IF job[p].original = None THEN "unlocking" ELSE "restoring")
  /\ UNCHANGED <<candidates, lock, acked, committed, overlapped>>

(* The rewriting may fail too; the lock file is removed all the same. *)
Restore(p) ==
  /\ pc[p] = "restoring"
  /\ approved' \in {job[p].original, Torn}
  /\ Goto(p, "unlocking")
  /\ UNCHANGED <<candidates, lock, job, acked, committed, overlapped>>

(* An interrupt between the replacements is no error to roll back, and the *)
(* approved file that has to be put back may not open or not be removed:   *)
(* the lock file is removed all the same, and the rule is approved and     *)
(* still a candidate.                                                      *)
LeaveInPlace(p) ==
  /\ pc[p] = "replacing_candidates"
  /\ lock' = FALSE
  /\ committed' = job[p].approved
  /\ Quit(p)
  /\ UNCHANGED <<candidates, approved, acked, overlapped>>

-----------------------------------------------------------------------------
(* Editors of the candidate file, which look at no lock.                   *)

LoadForEdit(p) ==
  /\ pc[p] = "idle"
  /\ candidates # Torn
  /\ job' = [job EXCEPT ![p].candidates = candidates]
  /\ Goto(p, "editing")
  /\ UNCHANGED <<candidates, approved, lock, acked, committed, overlapped>>

(* merge_rule_candidates: what is known keeps its status. *)
Merged(c, discovered) ==
  [r \in Rule |-> IF c[r] = "absent" /\ r \in discovered THEN "candidate" ELSE c[r]]

Discover(p, discovered) ==
  /\ pc[p] = "editing"
  /\ job' = [job EXCEPT ![p].candidates = Merged(@, discovered)]
  /\ Goto(p, "truncating")
  /\ UNCHANGED <<candidates, approved, lock, acked, committed, overlapped>>

(* A file written to its half cannot be loaded, or loads with fewer rules. *)
HalfWritten(c) ==
  {Torn} \cup {[r \in Rule |-> IF r \in kept THEN c[r] ELSE "absent"] : kept \in SUBSET Rule}

Truncate(p) ==
  /\ pc[p] = "truncating"
  /\ candidates' \in HalfWritten(job[p].candidates)
  /\ job' = [job EXCEPT ![p].open = TRUE]
  /\ Goto(p, "writing")
  /\ UNCHANGED <<approved, lock, acked, committed, overlapped>>

(* Over what another editor wrote in the meantime, a mixture may result.   *)
WriteRules(p) ==
  /\ pc[p] = "writing"
  /\ candidates' \in
       IF ~job[p].open THEN {candidates}
       ELSE IF candidates \in HalfWritten(job[p].candidates) THEN {job[p].candidates}
       ELSE {job[p].candidates, Torn}
  /\ Quit(p)
  /\ UNCHANGED <<approved, lock, acked, committed, overlapped>>

(* attach_evaluation_to_candidate *)
Attach(p, r) ==
  /\ pc[p] = "editing"
  /\ job[p].candidates[r] = "candidate"
  /\ Goto(p, "attaching")
  /\ UNCHANGED <<candidates, approved, lock, job, acked, committed, overlapped>>

ReplaceEvaluated(p) ==
  /\ pc[p] = "attaching"
  /\ candidates' = job[p].candidates
  /\ job' = [Closed(job) EXCEPT ![p] = NoJob]
  /\ Goto(p, "idle")
  /\ UNCHANGED <<approved, lock, acked, committed, overlapped>>

-----------------------------------------------------------------------------
(* The death of a process leaves everything as it is, the lock file too;   *)
(* so does an error of an editor.                                          *)
Die(p) ==
  /\ pc[p] # "idle"
  /\ Quit(p)
  /\ UNCHANGED <<candidates, approved, lock, acked, committed, overlapped>>

Approval(p) ==
  \/ ReadCandidates(p)
  \/ \E r \in Rule : Approve(p, r)
  \/ TakeLock(p)
  \/ Stage(p)
  \/ ReplaceApproved(p)
  \/ ReplaceCandidates(p)
  \/ Unlock(p)
  \/ GiveUp(p)
  \/ Unwind(p)
  \/ RollBack(p)
  \/ Restore(p)
  \/ LeaveInPlace(p)
  \/ Die(p)

Edit(p) ==
  \/ LoadForEdit(p)
  \/ \E discovered \in SUBSET Rule : Discover(p, discovered)
  \/ Truncate(p)
  \/ WriteRules(p)
  \/ \E r \in Rule : Attach(p, r)
  \/ ReplaceEvaluated(p)
  \/ Die(p)

Next ==
  \/ \E p \in Approver : Approval(p)
  \/ \E p \in Editor : Edit(p)

Spec == Init /\ [][Next]_vars

-----------------------------------------------------------------------------
(* Properties.                                                             *)

(* The lock and the originals read under it: whoever fails, and however    *)
(* approvals overlap, when the lock file is gone the approved file is that *)
(* of the last approval that was whole, was interrupted between its files  *)
(* or could not begin to put its file back, or it was destroyed while it   *)
(* was put back.                                                           *)
FailedApprovalsLeaveNoTrace == ~lock => approved \in {committed, Torn}

(* The approved file is replaced first, so approvals that do not overlap   *)
(* never leave a rule that counts as approved among the candidates and is  *)
(* not in force, whatever dies and whatever rewrites the candidates.       *)
PromotedAreApproved ==
  ~overlapped /\ candidates # Torn /\ approved # Torn =>
    \A r \in Rule : candidates[r] = "approved" => r \in Rules(approved)

(* A reported approval stays in force as long as approvals do not overlap; *)
(* rediscovery may make the rule a candidate again, but cannot withdraw    *)
(* it.                                                                     *)
ReportedApprovalsStay == ~overlapped /\ approved # Torn => acked \subseteq Rules(approved)
=============================================================================
