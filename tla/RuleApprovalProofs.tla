-------------------------- MODULE RuleApprovalProofs --------------------------
(***************************************************************************)
(* Proofs about RuleApproval, for any number of rules, approvers, editors  *)
(* of the candidate file, errors and deaths.                               *)
(*                                                                         *)
(* The first part is about the lock: at most one approval is inside, and   *)
(* what it would restore is the approved file it found. The second is      *)
(* about approvals that do not overlap: whatever any copy of the candidate *)
(* file calls approved, and whatever was reported, is in the approved file *)
(* and in everything that may still be put in its place.                   *)
(*                                                                         *)
(* The last part is about TrustAssessment, which shares nothing with the   *)
(* approval of rules: what an assessment has read so far fits the request  *)
(* and the model it is made for, whatever is put in the place of its files *)
(* meanwhile, and a greater change selects no fewer reasons for a band.    *)
(***************************************************************************)
EXTENDS RuleApproval, TrustAssessment, TLAPS

-----------------------------------------------------------------------------
(* The lock.                                                               *)

Inside == {"staging", "replacing_approved", "replacing_candidates", "restoring", "unlocking"}

Section(p) ==
  LET Settled(file) == file \in {committed, Torn}
  IN  /\ pc[p] \in {"staging", "replacing_approved", "unlocking"} => Settled(approved)
      /\ pc[p] \in {"replacing_approved", "replacing_candidates", "restoring"} =>
           Settled(job[p].original)
      /\ pc[p] = "replacing_candidates" => approved = job[p].approved
      /\ pc[p] = "restoring" => job[p].rule = None
      /\ pc[p] \in {"locking", "staging", "replacing_approved", "replacing_candidates"} =>
           job[p].approved # None /\ job[p].candidates # None /\ job[p].rule # None
      /\ pc[p] \in {"reading", "editing", "truncating", "writing", "attaching"} =>
           job[p].candidates # None

LockInv ==
  /\ TypeOK
  /\ \A p \in Approver : pc[p] \in Inside => lock
  /\ \A p, q \in Approver : pc[p] \in Inside /\ pc[q] \in Inside => p = q
  /\ \A p \in Editor : pc[p] \notin Inside
  /\ FailedApprovalsLeaveNoTrace
  /\ \A p \in Process : Section(p)

LEMMA InitLockInv == Init => LockInv
<1>. SUFFICES ASSUME Init PROVE LockInv
  OBVIOUS
<1>1. NoJob \in Job
  BY DEF NoJob, Job
<1>2. TypeOK
  BY <1>1 DEF Init, TypeOK, Phase, Candidates
<1>. QED
  BY <1>2 DEF Init, LockInv, Inside, Section, FailedApprovalsLeaveNoTrace, Process

LEMMA NoJobTyped == NoJob \in Job
BY DEF NoJob, Job

(* Types. *)
LEMMA TypeKept == TypeOK /\ (\A p \in Process : Section(p)) /\ [Next]_vars => TypeOK'
<1>. SUFFICES ASSUME TypeOK, \A p \in Process : Section(p), [Next]_vars PROVE TypeOK'
  OBVIOUS
<1>. Approver \subseteq Process /\ Editor \subseteq Process
  BY DEF Process
<1>0. \A p \in Process : job[p] \in Job /\ pc[p] \in Phase
  BY DEF TypeOK
<1>1. ASSUME NEW p \in Approver, ReadCandidates(p) PROVE TypeOK'
  <2>1. [job[p] EXCEPT !.candidates = candidates] \in Job
    BY <1>0, <1>1 DEF ReadCandidates, TypeOK, Job
  <2>. QED
    BY <1>1, <2>1 DEF ReadCandidates, Goto, TypeOK, Phase
<1>2. ASSUME NEW p \in Approver, NEW r \in Rule, Approve(p, r) PROVE TypeOK'
  <2>1. job[p].candidates \in Candidates
    BY <1>0, <1>2 DEF Approve, Section, Job
  <2>2. Promoted(job[p].candidates, r) \in Candidates
    BY <2>1 DEF Promoted, Candidates, Status
  <2>3. [rules |-> Rules(approved) \cup {r}] \in Approved
    BY <1>2 DEF Approve, Rules, TypeOK, Approved
  <2>4. [job[p] EXCEPT !.rule = r, !.candidates = Promoted(@, r),
                       !.approved = [rules |-> Rules(approved) \cup {r}]] \in Job
    BY <1>0, <2>2, <2>3 DEF Job
  <2>. QED
    BY <1>2, <2>4 DEF Approve, Goto, TypeOK, Phase
<1>3. ASSUME NEW p \in Approver, TakeLock(p) PROVE TypeOK'
  BY <1>3 DEF TakeLock, Goto, TypeOK, Phase
<1>4. ASSUME NEW p \in Approver, Stage(p) PROVE TypeOK'
  <2>1. [job[p] EXCEPT !.original = approved] \in Job
    BY <1>0 DEF TypeOK, Job
  <2>. QED
    BY <1>4, <2>1 DEF Stage, Goto, TypeOK, Phase
<1>5. ASSUME NEW p \in Approver, ReplaceApproved(p) PROVE TypeOK'
  BY <1>0, <1>5 DEF ReplaceApproved, Goto, TypeOK, Phase, Job
<1>6. Closed(job) \in [Process -> Job]
  <2>1. \A q \in Process : [job[q] EXCEPT !.open = FALSE] \in Job
    BY <1>0 DEF Job
  <2>. QED
    BY <2>1 DEF Closed
<1>7. ASSUME NEW p \in Approver, ReplaceCandidates(p) PROVE TypeOK'
  <2>1. job[p].candidates \in Candidates /\ job[p].approved \in Approved
    BY <1>0, <1>7 DEF ReplaceCandidates, Section, Job
  <2>. QED
    BY <1>6, <1>7, <2>1 DEF ReplaceCandidates, Goto, TypeOK, Phase
<1>8. ASSUME NEW p \in Approver, Unlock(p) PROVE TypeOK'
  <2>1. job[p].rule \in Rule \cup {None}
    BY <1>0 DEF Job
  <2>. QED
    BY <1>8, <2>1, NoJobTyped DEF Unlock, Quit, Goto, TypeOK, Phase
<1>9. ASSUME NEW p \in Approver, GiveUp(p) \/ Unwind(p) PROVE TypeOK'
  BY <1>9, NoJobTyped DEF GiveUp, Unwind, Quit, Goto, TypeOK, Phase
<1>10. ASSUME NEW p \in Approver, RollBack(p) PROVE TypeOK'
  <2>1. [job[p] EXCEPT !.rule = None] \in Job
    BY <1>0 DEF Job
  <2>. QED
    BY <1>10, <2>1 DEF RollBack, Goto, TypeOK, Phase
<1>11. ASSUME NEW p \in Approver, Restore(p) PROVE TypeOK'
  <2>1. job[p].original \in Approved \cup {None, Torn}
    BY <1>0 DEF Job
  <2>. QED
    BY <1>11, <2>1 DEF Restore, Goto, TypeOK, Phase
<1>12. ASSUME NEW p \in Approver, LeaveInPlace(p) PROVE TypeOK'
  <2>1. job[p].approved \in Approved \cup {None}
    BY <1>0 DEF Job
  <2>. QED
    BY <1>12, <2>1, NoJobTyped DEF LeaveInPlace, Quit, Goto, TypeOK, Phase
<1>13. ASSUME NEW p \in Process, Die(p) PROVE TypeOK'
  BY <1>13, NoJobTyped DEF Die, Quit, Goto, TypeOK, Phase
<1>14. ASSUME NEW p \in Editor, LoadForEdit(p) PROVE TypeOK'
  <2>1. [job[p] EXCEPT !.candidates = candidates] \in Job
    BY <1>0, <1>14 DEF LoadForEdit, TypeOK, Job
  <2>. QED
    BY <1>14, <2>1 DEF LoadForEdit, Goto, TypeOK, Phase
<1>15. ASSUME NEW p \in Editor, NEW d \in SUBSET Rule, Discover(p, d) PROVE TypeOK'
  <2>1. job[p].candidates \in Candidates
    BY <1>0, <1>15 DEF Discover, Section, Job
  <2>2. Merged(job[p].candidates, d) \in Candidates
    BY <2>1 DEF Merged, Candidates, Status
  <2>3. [job[p] EXCEPT !.candidates = Merged(job[p].candidates, d)] \in Job
    BY <1>0, <2>2 DEF Job
  <2>. QED
    BY <1>15, <2>3 DEF Discover, Goto, TypeOK, Phase
<1>16. ASSUME NEW p \in Editor, Truncate(p) PROVE TypeOK'
  <2>1. job[p].candidates \in Candidates
    BY <1>0, <1>16 DEF Truncate, Section, Job
  <2>2. HalfWritten(job[p].candidates) \subseteq Candidates \cup {Torn}
    BY <2>1 DEF HalfWritten, Candidates, Status
  <2>3. [job[p] EXCEPT !.open = TRUE] \in Job
    BY <1>0 DEF Job
  <2>. QED
    BY <1>16, <2>2, <2>3 DEF Truncate, Goto, TypeOK, Phase
<1>17. ASSUME NEW p \in Editor, WriteRules(p) PROVE TypeOK'
  <2>1. job[p].candidates \in Candidates
    BY <1>0, <1>17 DEF WriteRules, Section, Job
  <2>. QED
    BY <1>17, <2>1, NoJobTyped DEF WriteRules, Quit, Goto, TypeOK, Phase
<1>18. ASSUME NEW p \in Editor, NEW r \in Rule, Attach(p, r) PROVE TypeOK'
  BY <1>18 DEF Attach, Goto, TypeOK, Phase
<1>19. ASSUME NEW p \in Editor, ReplaceEvaluated(p) PROVE TypeOK'
  <2>1. job[p].candidates \in Candidates
    BY <1>0, <1>19 DEF ReplaceEvaluated, Section, Job
  <2>. QED
    BY <1>6, <1>19, <2>1, NoJobTyped DEF ReplaceEvaluated, Goto, TypeOK, Phase
<1>20. CASE UNCHANGED vars
  BY <1>20 DEF vars, TypeOK
<1>. QED
  BY <1>1, <1>2, <1>3, <1>4, <1>5, <1>7, <1>8, <1>9, <1>10, <1>11, <1>12, <1>13, <1>14,
     <1>15, <1>16, <1>17, <1>18, <1>19, <1>20 DEF Next, Approval, Edit

(* A step that leaves a process what it has computed. *)
Same(q) ==
  /\ pc'[q] = pc[q]
  /\ job'[q].rule = job[q].rule /\ job'[q].candidates = job[q].candidates
  /\ job'[q].approved = job[q].approved /\ job'[q].original = job[q].original

(* A process steps outside of the section or on its way out, takes the     *)
(* lock, or writes while it is inside.                                     *)
LEMMA LockStep ==
  ASSUME LockInv, TypeOK', NEW p \in Process, \A q \in Process \ {p} : Same(q), Section(p)',
         p \in Editor => pc'[p] \notin Inside,
         \/ /\ UNCHANGED <<approved, committed, lock>>
            /\ pc'[p] \in Inside => pc[p] \in Inside
         \/ UNCHANGED <<approved, committed>> /\ ~lock /\ lock'
         \/ /\ p \in Approver /\ pc[p] \in Inside
            /\ lock' <=> pc'[p] \in Inside
            /\ FailedApprovalsLeaveNoTrace'
  PROVE  LockInv'
<1>1. \A q \in Process : q # p => pc'[q] = pc[q]
  BY DEF Same
<1>2. ASSUME NEW q \in Approver, pc'[q] \in Inside PROVE lock'
  <2>1. CASE q = p
    BY <1>2, <2>1 DEF LockInv
  <2>2. CASE q # p
    BY <1>1, <1>2, <2>2 DEF LockInv, Process
  <2>. QED
    BY <2>1, <2>2
<1>3. ASSUME NEW q \in Approver, NEW r \in Approver, pc'[q] \in Inside, pc'[r] \in Inside
      PROVE  q = r
  BY <1>1, <1>3 DEF LockInv, Process
<1>4. \A q \in Editor : pc'[q] \notin Inside
  BY <1>1 DEF LockInv, Process
<1>5. FailedApprovalsLeaveNoTrace'
  BY DEF LockInv, FailedApprovalsLeaveNoTrace
<1>6. ASSUME NEW q \in Process PROVE Section(q)'
  <2>1. CASE q = p
    BY <2>1
  <2>2. CASE q # p
    <3>1. Same(q) /\ Section(q)
      BY <2>2 DEF LockInv
    <3>2. UNCHANGED <<approved, committed>> \/ pc[q] \notin Inside
      BY <2>2 DEF LockInv, Process
    <3>. QED
      BY <3>1, <3>2 DEF Same, Section, Inside
  <2>. QED
    BY <2>1, <2>2
<1>. QED
  BY <1>2, <1>3, <1>4, <1>5, <1>6 DEF LockInv

(* The processes other than the one that steps. *)
LEMMA OthersSame ==
  ASSUME TypeOK, NEW p \in Process, NEW phase, NEW j, pc' = [pc EXCEPT ![p] = phase],
         job' = [job EXCEPT ![p] = j] \/ job' = [Closed(job) EXCEPT ![p] = j]
         \/ job' = Closed(job) \/ job' = job
  PROVE  \A q \in Process \ {p} : Same(q)
<1>. SUFFICES ASSUME NEW q \in Process, q # p PROVE Same(q)
  OBVIOUS
<1>1. job[q] \in Job
  BY DEF TypeOK
<1>2. job'[q] = job[q] \/ job'[q] = [job[q] EXCEPT !.open = FALSE]
  BY DEF TypeOK, Closed
<1>. QED
  BY <1>1, <1>2 DEF TypeOK, Same, Job

LEMMA QuitSection == \A p \in Process : TypeOK /\ Quit(p) => Section(p)'
BY DEF TypeOK, Quit, Goto, Section

LEMMA ApprovalLocks ==
  ASSUME LockInv, TypeOK', NEW p \in Approver, Approval(p) PROVE LockInv'
<1>. p \in Process /\ p \notin Editor
  BY RuleAssumption DEF Process
<1>0. /\ TypeOK /\ job[p] \in Job /\ pc \in [Process -> Phase] /\ job \in [Process -> Job]
      /\ Section(p)
  BY DEF LockInv, TypeOK
<1>1. CASE ReadCandidates(p)
  <2>1. \A q \in Process \ {p} : Same(q)
    BY <1>0, <1>1, OthersSame DEF ReadCandidates, Goto
  <2>2. Section(p)'
    BY <1>0, <1>1, RuleAssumption DEF ReadCandidates, Goto, Section, TypeOK, Job
  <2>. QED
    BY <1>0, <1>1, <2>1, <2>2, LockStep DEF ReadCandidates, Goto, Inside
<1>2. ASSUME NEW r \in Rule, Approve(p, r) PROVE LockInv'
  <2>1. \A q \in Process \ {p} : Same(q)
    BY <1>0, <1>2, OthersSame DEF Approve, Goto
  <2>2. job[p].candidates \in Candidates
    BY <1>0, <1>2 DEF Approve, Section, Job
  <2>3. /\ job'[p].rule = r /\ job'[p].candidates = Promoted(job[p].candidates, r)
        /\ job'[p].approved = [rules |-> Rules(approved) \cup {r}]
    BY <1>0, <1>2 DEF Approve, Job
  <2>4. job'[p].candidates # None /\ job'[p].approved # None /\ job'[p].rule # None
    <3>1. Promoted(job[p].candidates, r) \in Candidates
      BY <2>2 DEF Promoted, Candidates, Status
    <3>2. [rules |-> Rules(approved) \cup {r}] \in Approved
      BY <1>0, <1>2 DEF Approve, Rules, TypeOK, Approved
    <3>. QED
      BY <2>3, <3>1, <3>2, RuleAssumption
  <2>5. Section(p)'
    BY <1>0, <1>2, <2>4 DEF Approve, Goto, Section
  <2>. QED
    BY <1>0, <1>2, <2>1, <2>5, LockStep DEF Approve, Goto, Inside
<1>3. CASE TakeLock(p)
  <2>1. \A q \in Process \ {p} : Same(q)
    BY <1>0, <1>3, OthersSame DEF TakeLock, Goto
  <2>2. Section(p)'
    BY <1>0, <1>3 DEF TakeLock, Goto, Section, LockInv, FailedApprovalsLeaveNoTrace
  <2>. QED
    BY <1>0, <1>3, <2>1, <2>2, LockStep DEF TakeLock, Goto
<1>4. CASE Stage(p)
  <2>1. \A q \in Process \ {p} : Same(q)
    BY <1>0, <1>4, OthersSame DEF Stage, Goto
  <2>2. Section(p)'
    BY <1>0, <1>4 DEF Stage, Goto, Section, Job
  <2>. QED
    BY <1>0, <1>4, <2>1, <2>2, LockStep DEF Stage, Goto, Inside
<1>5. CASE ReplaceApproved(p)
  <2>1. \A q \in Process \ {p} : Same(q)
    BY <1>0, <1>5, OthersSame DEF ReplaceApproved, Goto
  <2>2. Section(p)'
    BY <1>0, <1>5 DEF ReplaceApproved, Goto, Section
  <2>3. lock /\ lock' /\ pc'[p] \in Inside /\ pc[p] \in Inside
    BY <1>0, <1>5 DEF ReplaceApproved, Goto, Inside, LockInv
  <2>. QED
    BY <2>1, <2>2, <2>3, LockStep DEF FailedApprovalsLeaveNoTrace
<1>6. CASE ReplaceCandidates(p)
  <2>1. \A q \in Process \ {p} : Same(q)
    BY <1>0, <1>6, OthersSame DEF ReplaceCandidates, Goto
  <2>2. approved = job[p].approved /\ committed' = approved /\ approved' = approved
    BY <1>0, <1>6 DEF ReplaceCandidates, Section
  <2>3. Section(p)'
    BY <1>0, <1>6, <2>2 DEF ReplaceCandidates, Goto, Section
  <2>4. lock /\ lock' /\ pc'[p] \in Inside /\ pc[p] \in Inside
    BY <1>0, <1>6 DEF ReplaceCandidates, Goto, Inside, LockInv
  <2>. QED
    BY <2>1, <2>3, <2>4, LockStep DEF FailedApprovalsLeaveNoTrace
<1>7. CASE Unlock(p)
  <2>1. \A q \in Process \ {p} : Same(q)
    BY <1>0, <1>7, OthersSame DEF Unlock, Quit, Goto
  <2>2. Section(p)'
    BY <1>0, <1>7, QuitSection DEF Unlock
  <2>3. pc[p] \in Inside /\ pc'[p] \notin Inside /\ lock' = FALSE
    BY <1>0, <1>7 DEF Unlock, Quit, Goto, Inside
  <2>4. FailedApprovalsLeaveNoTrace'
    BY <1>0, <1>7 DEF Unlock, Section, FailedApprovalsLeaveNoTrace
  <2>. QED
    BY <2>1, <2>2, <2>3, <2>4, LockStep
<1>8. CASE GiveUp(p) \/ Die(p)
  <2>1. \A q \in Process \ {p} : Same(q)
    BY <1>0, <1>8, OthersSame DEF GiveUp, Die, Quit, Goto
  <2>2. Section(p)'
    BY <1>0, <1>8, QuitSection DEF GiveUp, Die
  <2>. QED
    BY <1>0, <1>8, <2>1, <2>2, LockStep DEF GiveUp, Die, Quit, Goto, Inside
<1>9. CASE Unwind(p)
  <2>1. \A q \in Process \ {p} : Same(q)
    BY <1>0, <1>9, OthersSame DEF Unwind, Quit, Goto
  <2>2. Section(p)'
    BY <1>0, <1>9, QuitSection DEF Unwind
  <2>3. pc[p] \in Inside /\ pc'[p] \notin Inside /\ lock' = FALSE
    BY <1>0, <1>9 DEF Unwind, Quit, Goto, Inside
  <2>4. FailedApprovalsLeaveNoTrace'
    BY <1>0, <1>9 DEF Unwind, Section, FailedApprovalsLeaveNoTrace
  <2>. QED
    BY <2>1, <2>2, <2>3, <2>4, LockStep
<1>10. CASE RollBack(p)
  <2>1. \A q \in Process \ {p} : Same(q)
    BY <1>0, <1>10, OthersSame DEF RollBack, Goto
  <2>2. /\ job'[p].original = job[p].original
        /\ pc'[p] = IF job[p].original = None THEN "unlocking" ELSE "restoring"
    BY <1>0, <1>10 DEF RollBack, Goto, Job
  <2>3. Section(p)'
    BY <1>0, <1>10, <2>2 DEF RollBack, Section
  <2>4. lock /\ lock' /\ pc'[p] \in Inside /\ pc[p] \in Inside
    BY <1>0, <1>10, <2>2 DEF RollBack, Inside, LockInv
  <2>. QED
    BY <2>1, <2>3, <2>4, LockStep DEF FailedApprovalsLeaveNoTrace
<1>11. CASE Restore(p)
  <2>1. \A q \in Process \ {p} : Same(q)
    BY <1>0, <1>11, OthersSame DEF Restore, Goto
  <2>2. Section(p)'
    BY <1>0, <1>11 DEF Restore, Goto, Section
  <2>3. lock /\ lock' /\ pc'[p] \in Inside /\ pc[p] \in Inside
    BY <1>0, <1>11 DEF Restore, Goto, Inside, LockInv
  <2>. QED
    BY <2>1, <2>2, <2>3, LockStep DEF FailedApprovalsLeaveNoTrace
<1>12. CASE LeaveInPlace(p)
  <2>1. \A q \in Process \ {p} : Same(q)
    BY <1>0, <1>12, OthersSame DEF LeaveInPlace, Quit, Goto
  <2>2. Section(p)'
    BY <1>0, <1>12, QuitSection DEF LeaveInPlace
  <2>3. pc[p] \in Inside /\ pc'[p] \notin Inside /\ lock' = FALSE
    BY <1>0, <1>12 DEF LeaveInPlace, Quit, Goto, Inside
  <2>4. FailedApprovalsLeaveNoTrace'
    BY <1>0, <1>12 DEF LeaveInPlace, Section, FailedApprovalsLeaveNoTrace
  <2>. QED
    BY <2>1, <2>2, <2>3, <2>4, LockStep
<1>. QED
  BY <1>1, <1>2, <1>3, <1>4, <1>5, <1>6, <1>7, <1>8, <1>9, <1>10, <1>11, <1>12 DEF Approval

LEMMA EditLocks ==
  ASSUME LockInv, TypeOK', NEW p \in Editor, Edit(p) PROVE LockInv'
<1>. p \in Process /\ p \notin Approver
  BY RuleAssumption DEF Process
<1>0. /\ TypeOK /\ job[p] \in Job /\ pc \in [Process -> Phase] /\ job \in [Process -> Job]
      /\ Section(p) /\ pc[p] \notin Inside
  BY DEF LockInv, TypeOK
<1>1. CASE LoadForEdit(p)
  <2>1. \A q \in Process \ {p} : Same(q)
    BY <1>0, <1>1, OthersSame DEF LoadForEdit, Goto
  <2>2. Section(p)'
    BY <1>0, <1>1, RuleAssumption DEF LoadForEdit, Goto, Section, TypeOK, Job
  <2>. QED
    BY <1>0, <1>1, <2>1, <2>2, LockStep DEF LoadForEdit, Goto, Inside
<1>2. ASSUME NEW d \in SUBSET Rule, Discover(p, d) PROVE LockInv'
  <2>1. \A q \in Process \ {p} : Same(q)
    BY <1>0, <1>2, OthersSame DEF Discover, Goto
  <2>2. job[p].candidates \in Candidates
    BY <1>0, <1>2 DEF Discover, Section, Job
  <2>3. Merged(job[p].candidates, d) \in Candidates
    BY <2>2 DEF Merged, Candidates, Status
  <2>4. job'[p].candidates # None
    BY <1>0, <1>2, <2>3, RuleAssumption DEF Discover, Job
  <2>5. Section(p)'
    BY <1>0, <1>2, <2>4 DEF Discover, Goto, Section
  <2>. QED
    BY <1>0, <1>2, <2>1, <2>5, LockStep DEF Discover, Goto, Inside
<1>3. CASE Truncate(p)
  <2>1. \A q \in Process \ {p} : Same(q)
    BY <1>0, <1>3, OthersSame DEF Truncate, Goto
  <2>2. Section(p)'
    BY <1>0, <1>3 DEF Truncate, Goto, Section, Job
  <2>. QED
    BY <1>0, <1>3, <2>1, <2>2, LockStep DEF Truncate, Goto, Inside
<1>4. CASE WriteRules(p) \/ Die(p)
  <2>1. \A q \in Process \ {p} : Same(q)
    BY <1>0, <1>4, OthersSame DEF WriteRules, Die, Quit, Goto
  <2>2. Section(p)'
    BY <1>0, <1>4, QuitSection DEF WriteRules, Die
  <2>. QED
    BY <1>0, <1>4, <2>1, <2>2, LockStep DEF WriteRules, Die, Quit, Goto, Inside
<1>5. ASSUME NEW r \in Rule, Attach(p, r) PROVE LockInv'
  <2>1. \A q \in Process \ {p} : Same(q)
    BY <1>0, <1>5, OthersSame DEF Attach, Goto
  <2>2. Section(p)'
    BY <1>0, <1>5 DEF Attach, Goto, Section
  <2>. QED
    BY <1>0, <1>5, <2>1, <2>2, LockStep DEF Attach, Goto, Inside
<1>6. CASE ReplaceEvaluated(p)
  <2>1. \A q \in Process \ {p} : Same(q)
    BY <1>0, <1>6, OthersSame DEF ReplaceEvaluated, Goto
  <2>2. Section(p)'
    BY <1>0, <1>6 DEF ReplaceEvaluated, Goto, Section
  <2>. QED
    BY <1>0, <1>6, <2>1, <2>2, LockStep DEF ReplaceEvaluated, Goto, Inside
<1>. QED
  BY <1>1, <1>2, <1>3, <1>4, <1>5, <1>6 DEF Edit

LEMMA LockKept == LockInv /\ [Next]_vars => LockInv'
<1>1. LockInv /\ [Next]_vars => TypeOK'
  BY TypeKept DEF LockInv
<1>2. LockInv /\ Next => LockInv'
  BY <1>1, ApprovalLocks, EditLocks DEF Next
<1>3. LockInv /\ UNCHANGED vars => LockInv'
  BY DEF vars, LockInv, TypeOK, FailedApprovalsLeaveNoTrace, Section
<1>. QED
  BY <1>2, <1>3

LEMMA LockInvHolds == Spec => []LockInv
BY InitLockInv, LockKept, PTL DEF Spec

(* The variables keep their types.                                         *)
THEOREM TypeCorrect == Spec => []TypeOK
<1>1. LockInv => TypeOK
  BY DEF LockInv
<1>. QED
  BY <1>1, LockInvHolds, PTL

(* However many approvals overlap and fail, when the lock file is gone the *)
(* approved file is that of the last one that was whole, interrupted or    *)
(* unable to begin putting it back, or it was destroyed by a rollback.     *)
THEOREM LockProtectsRollback == Spec => []FailedApprovalsLeaveNoTrace
<1>1. LockInv => FailedApprovalsLeaveNoTrace
  BY DEF LockInv
<1>. QED
  BY <1>1, LockInvHolds, PTL

-----------------------------------------------------------------------------
(* Approvals that do not overlap.                                          *)

CountsAs(c, r) == c # None /\ c # Torn /\ c[r] = "approved"

(* The rules some copy of the candidate file calls approved, and those     *)
(* whose approval was reported.                                            *)
Known ==
  {r \in Rule : \/ r \in acked
                \/ CountsAs(candidates, r)
                \/ \E q \in Process : /\ q \in Editor \/ pc[q] = "reading"
                                      /\ CountsAs(job[q].candidates, r)}

Deciding == {"locking", "staging", "replacing_approved", "replacing_candidates"}

(* What an approval may put in place of the approved file holds all that.  *)
Covers(p) ==
  LET j == job[p]
  IN  /\ pc[p] \in Deciding =>
           /\ j.rule \in j.approved.rules
           /\ Known \subseteq j.approved.rules
           /\ \A r \in Rule : CountsAs(j.candidates, r) => r \in j.approved.rules
      /\ pc[p] \in {"replacing_approved", "replacing_candidates", "restoring"}
            /\ j.original # Torn => Known \subseteq Rules(j.original)
      /\ pc[p] = "unlocking" /\ j.rule # None => approved # Torn /\ j.rule \in Rules(approved)

CalmInv ==
  ~overlapped =>
    /\ \A p, q \in Approver : pc[p] # "idle" /\ pc[q] # "idle" => p = q
    /\ approved # Torn => Known \subseteq Rules(approved)
    /\ \A p \in Approver : Covers(p)

LEMMA InitCalm == Init => CalmInv
<1>. SUFFICES ASSUME Init PROVE CalmInv
  OBVIOUS
<1>1. Known = {}
  <2>1. \A r \in Rule : ~CountsAs(candidates, r)
    BY DEF Init, CountsAs, Status
  <2>2. \A q \in Process : job[q].candidates = None
    BY DEF Init, NoJob
  <2>. QED
    BY <2>1, <2>2 DEF Init, Known, CountsAs
<1>2. \A p \in Approver : pc[p] = "idle"
  BY DEF Init, Process
<1>. QED
  BY <1>1, <1>2 DEF CalmInv, Covers, Deciding, Rules, Init

(* Nothing becomes known when a step only copies or drops contents.        *)
LEMMA KnownShrinks ==
  ASSUME acked' = acked, NEW p \in Process, \A q \in Process \ {p} : Same(q),
         \A r \in Rule : CountsAs(candidates', r) => r \in Known,
         p \in Editor \/ pc'[p] = "reading" =>
           \A r \in Rule : CountsAs(job'[p].candidates, r) => r \in Known
  PROVE  Known' \subseteq Known
<1>. SUFFICES ASSUME NEW r \in Known' PROVE r \in Known
  OBVIOUS
<1>0. r \in Rule
  BY DEF Known
<1>1. CASE r \in acked'
  BY <1>0, <1>1 DEF Known
<1>2. CASE CountsAs(candidates', r)
  BY <1>0, <1>2
<1>3. ASSUME NEW q \in Process, q \in Editor \/ pc'[q] = "reading",
             CountsAs(job'[q].candidates, r)
      PROVE  r \in Known
  <2>1. CASE q = p
    BY <1>0, <1>3, <2>1
  <2>2. CASE q # p
    <3>1. pc'[q] = pc[q] /\ job'[q].candidates = job[q].candidates
      BY <2>2 DEF Same
    <3>. QED
      BY <1>0, <1>3, <3>1 DEF Known
  <2>. QED
    BY <2>1, <2>2
<1>4. r \in acked' \/ CountsAs(candidates', r)
        \/ \E q \in Process : (q \in Editor \/ pc'[q] = "reading") /\ CountsAs(job'[q].candidates, r)
  BY DEF Known
<1>. QED
  BY <1>1, <1>2, <1>3, <1>4

(* An editor's step.                                                       *)
LEMMA EditorCalm ==
  ASSUME TypeOK, CalmInv, NEW p \in Editor, \A q \in Process \ {p} : Same(q),
         UNCHANGED <<approved, overlapped>>, Known' \subseteq Known
  PROVE  CalmInv'
<1>. SUFFICES ASSUME ~overlapped PROVE CalmInv'
  BY DEF CalmInv
<1>1. ASSUME NEW q \in Approver PROVE Same(q)
  BY RuleAssumption DEF Process
<1>2. ASSUME NEW q \in Approver PROVE Covers(q)'
  <2>1. Covers(q) /\ Same(q)
    BY <1>1 DEF CalmInv
  <2>. QED
    BY <2>1 DEF Covers, Same
<1>3. \A a, q \in Approver : pc'[a] # "idle" /\ pc'[q] # "idle" => a = q
  BY <1>1 DEF CalmInv, Same
<1>. QED
  BY <1>2, <1>3 DEF CalmInv

(* An approver's step, while no other approval is under way.               *)
LEMMA ApproverCalm ==
  ASSUME TypeOK, CalmInv, NEW p \in Approver, pc[p] # "idle",
         \A q \in Process \ {p} : Same(q), overlapped' = overlapped,
         ~overlapped => (approved' # Torn => Known' \subseteq Rules(approved')) /\ Covers(p)'
  PROVE  CalmInv'
<1>. SUFFICES ASSUME ~overlapped PROVE CalmInv'
  BY DEF CalmInv
<1>1. ASSUME NEW q \in Approver, q # p PROVE pc'[q] = "idle"
  BY <1>1 DEF CalmInv, Same, Process
<1>2. \A q \in Approver : q # p => Covers(q)'
  BY <1>1 DEF Covers, Deciding
<1>. QED
  BY <1>1, <1>2 DEF CalmInv

LEMMA ReadCalm ==
  ASSUME TypeOK, CalmInv, NEW p \in Approver, ReadCandidates(p) PROVE CalmInv'
<1>. p \in Process /\ job[p] \in Job
  BY DEF Process, TypeOK
<1>. SUFFICES ASSUME ~overlapped' PROVE CalmInv'
  BY DEF CalmInv
<1>0. ~overlapped /\ \A q \in Approver : pc[q] = "idle"
  BY DEF ReadCandidates
<1>1. \A q \in Process \ {p} : Same(q)
  BY OthersSame DEF ReadCandidates, Goto
<1>2. job'[p].candidates = candidates
  BY DEF ReadCandidates, TypeOK, Job
<1>3. Known' \subseteq Known
  <2>1. \A r \in Rule : CountsAs(candidates, r) => r \in Known
    BY DEF Known
  <2>. QED
    BY <1>1, <1>2, <2>1, KnownShrinks DEF ReadCandidates
<1>4. \A q \in Approver : q # p => pc'[q] = "idle"
  BY <1>0, <1>1 DEF Same, Process
<1>5. pc'[p] = "reading"
  BY DEF ReadCandidates, Goto, TypeOK
<1>6. \A q \in Approver : Covers(q)'
  BY <1>4, <1>5 DEF Covers, Deciding
<1>7. approved' # Torn => Known' \subseteq Rules(approved')
  BY <1>0, <1>3 DEF CalmInv, ReadCandidates
<1>. QED
  BY <1>4, <1>6, <1>7 DEF CalmInv

(* Every other step of an approval but the last two.                       *)
LEMMA QuietCalm ==
  ASSUME TypeOK, CalmInv, NEW p \in Approver, pc[p] # "idle", pc'[p] # "reading",
         \A q \in Process \ {p} : Same(q),
         UNCHANGED <<candidates, acked, overlapped>>,
         ~overlapped /\ Known' \subseteq Known =>
           /\ approved' # Torn => Known \subseteq Rules(approved')
           /\ Covers(p)'
  PROVE  CalmInv'
<1>. p \in Process /\ p \notin Editor
  BY RuleAssumption DEF Process
<1>1. \A r \in Rule : CountsAs(candidates, r) => r \in Known
  BY DEF Known
<1>2. Known' \subseteq Known
  BY <1>1, KnownShrinks
<1>. QED
  BY <1>2, ApproverCalm

LEMMA QuitCovers == \A p \in Approver : TypeOK /\ Quit(p) => Covers(p)'
BY DEF TypeOK, Quit, Goto, Covers, Deciding, Process

LEMMA ApprovalCalm ==
  ASSUME LockInv, CalmInv, NEW p \in Approver, Approval(p) PROVE CalmInv'
<1>. p \in Process /\ p \notin Editor
  BY RuleAssumption DEF Process
<1>0. /\ TypeOK /\ job[p] \in Job /\ pc \in [Process -> Phase] /\ job \in [Process -> Job]
      /\ Section(p)
      /\ ~overlapped => Covers(p) /\ (approved # Torn => Known \subseteq Rules(approved))
  BY DEF LockInv, TypeOK, CalmInv
<1>1. CASE ReadCandidates(p)
  BY <1>0, <1>1, ReadCalm
<1>2. ASSUME NEW r \in Rule, Approve(p, r) PROVE CalmInv'
  <2>1. \A q \in Process \ {p} : Same(q)
    BY <1>0, <1>2, OthersSame DEF Approve, Goto
  <2>2. job[p].candidates \in Candidates
    BY <1>0, <1>2 DEF Approve, Section, Job
  <2>3. /\ job'[p].rule = r /\ job'[p].candidates = Promoted(job[p].candidates, r)
        /\ job'[p].approved = [rules |-> Rules(approved) \cup {r}]
    BY <1>0, <1>2 DEF Approve, Job
  <2>4. \A x \in Rule : CountsAs(job'[p].candidates, x) => x = r \/ x \in Known
    <3>1. \A x \in Rule : x # r => job'[p].candidates[x] = job[p].candidates[x]
      BY <2>2, <2>3 DEF Promoted, Candidates
    <3>2. \A x \in Rule : job[p].candidates[x] = "approved" => x \in Known
      BY <1>2, <2>2, RuleAssumption DEF Known, CountsAs, Approve
    <3>. QED
      BY <3>1, <3>2 DEF CountsAs
  <2>5. pc'[p] = "locking" /\ pc[p] = "reading" /\ approved # Torn /\ approved' = approved
    BY <1>0, <1>2 DEF Approve, Goto
  <2>6. ASSUME ~overlapped, Known' \subseteq Known PROVE Covers(p)'
    <3>1. job'[p].rule \in job'[p].approved.rules
      BY <2>3
    <3>2. Known' \subseteq job'[p].approved.rules
      BY <1>0, <2>3, <2>5, <2>6
    <3>3. \A x \in Rule : CountsAs(job'[p].candidates, x) => x \in job'[p].approved.rules
      BY <1>0, <2>3, <2>4, <2>5, <2>6
    <3>. QED
      BY <2>5, <3>1, <3>2, <3>3 DEF Covers
  <2>. QED
    BY <1>0, <1>2, <2>1, <2>5, <2>6, QuietCalm DEF Approve
<1>3. CASE TakeLock(p)
  <2>1. \A q \in Process \ {p} : Same(q)
    BY <1>0, <1>3, OthersSame DEF TakeLock, Goto
  <2>2. pc[p] = "locking" /\ pc'[p] = "staging" /\ job' = job /\ approved' = approved
    BY <1>0, <1>3 DEF TakeLock, Goto
  <2>3. ~overlapped /\ Known' \subseteq Known => Covers(p)'
    BY <1>0, <2>2 DEF Covers, Deciding
  <2>. QED
    BY <1>0, <1>3, <2>1, <2>2, <2>3, QuietCalm DEF TakeLock
<1>4. CASE Stage(p)
  <2>1. \A q \in Process \ {p} : Same(q)
    BY <1>0, <1>4, OthersSame DEF Stage, Goto
  <2>2. /\ pc[p] = "staging" /\ pc'[p] = "replacing_approved" /\ approved' = approved
        /\ job'[p].rule = job[p].rule /\ job'[p].candidates = job[p].candidates
        /\ job'[p].approved = job[p].approved /\ job'[p].original = approved
    BY <1>0, <1>4 DEF Stage, Goto, Job
  <2>3. ~overlapped /\ Known' \subseteq Known => Covers(p)'
    BY <1>0, <2>2 DEF Covers, Deciding
  <2>. QED
    BY <1>0, <1>4, <2>1, <2>2, <2>3, QuietCalm DEF Stage
<1>5. CASE ReplaceApproved(p)
  <2>1. \A q \in Process \ {p} : Same(q)
    BY <1>0, <1>5, OthersSame DEF ReplaceApproved, Goto
  <2>2. /\ pc[p] = "replacing_approved" /\ pc'[p] = "replacing_candidates" /\ job' = job
        /\ approved' = job[p].approved
    BY <1>0, <1>5 DEF ReplaceApproved, Goto
  <2>3. Rules(approved') = job[p].approved.rules
    BY <1>0, <2>2 DEF Section, Rules
  <2>4. ~overlapped /\ Known' \subseteq Known =>
          Covers(p)' /\ Known \subseteq Rules(approved')
    BY <1>0, <2>2, <2>3 DEF Covers, Deciding
  <2>. QED
    BY <1>0, <1>5, <2>1, <2>2, <2>4, QuietCalm DEF ReplaceApproved
<1>6. CASE ReplaceCandidates(p)
  <2>1. \A q \in Process \ {p} : Same(q)
    BY <1>0, <1>6, OthersSame DEF ReplaceCandidates, Goto
  <2>2. /\ pc[p] = "replacing_candidates" /\ pc'[p] = "unlocking" /\ approved' = approved
        /\ candidates' = job[p].candidates /\ acked' = acked /\ overlapped' = overlapped
        /\ approved = job[p].approved /\ job'[p].rule = job[p].rule
    BY <1>0, <1>6 DEF ReplaceCandidates, Goto, Section, Closed, Job
  <2>3. Rules(approved) = job[p].approved.rules /\ approved # Torn
    BY <1>0, <2>2, RuleAssumption DEF Section, Rules, Job
  <2>4. \A x \in Known' : x \in Known \/ CountsAs(job[p].candidates, x)
    BY <2>1, <2>2 DEF Known, Same
  <2>5. ~overlapped => Known' \subseteq Rules(approved)
    <3>1. Known' \subseteq Rule
      BY DEF Known
    <3>. QED
      BY <1>0, <2>2, <2>3, <2>4, <3>1 DEF Covers, Deciding
  <2>6. ~overlapped => Covers(p)'
    BY <1>0, <2>2, <2>3 DEF Covers, Deciding
  <2>. QED
    BY <1>0, <2>1, <2>2, <2>5, <2>6, ApproverCalm
<1>7. CASE Unlock(p)
  <2>1. \A q \in Process \ {p} : Same(q)
    BY <1>0, <1>7, OthersSame DEF Unlock, Quit, Goto
  <2>2. /\ pc[p] = "unlocking" /\ pc'[p] = "idle" /\ approved' = approved
        /\ candidates' = candidates /\ overlapped' = overlapped
        /\ acked' = acked \cup ({job[p].rule} \ {None})
    BY <1>0, <1>7 DEF Unlock, Quit, Goto
  <2>3. \A x \in Known' : x \in Known \/ (x = job[p].rule /\ x # None)
    BY <2>1, <2>2 DEF Known, Same
  <2>4. ~overlapped /\ approved # Torn => Known' \subseteq Rules(approved)
    BY <1>0, <2>2, <2>3 DEF Covers
  <2>5. Covers(p)'
    BY <2>2 DEF Covers, Deciding
  <2>. QED
    BY <1>0, <2>1, <2>2, <2>4, <2>5, ApproverCalm
<1>8. CASE GiveUp(p) \/ Unwind(p) \/ Die(p)
  <2>1. \A q \in Process \ {p} : Same(q)
    BY <1>0, <1>8, OthersSame DEF GiveUp, Unwind, Die, Quit, Goto
  <2>2. /\ pc[p] # "idle" /\ pc'[p] = "idle" /\ approved' = approved
        /\ UNCHANGED <<candidates, acked, overlapped>>
    BY <1>0, <1>8 DEF GiveUp, Unwind, Die, Quit, Goto
  <2>3. Covers(p)'
    BY <2>2 DEF Covers, Deciding
  <2>. QED
    BY <1>0, <2>1, <2>2, <2>3, QuietCalm
<1>9. CASE RollBack(p)
  <2>1. \A q \in Process \ {p} : Same(q)
    BY <1>0, <1>9, OthersSame DEF RollBack, Goto
  <2>2. /\ pc[p] = "replacing_candidates" /\ UNCHANGED <<candidates, acked, overlapped>>
        /\ pc'[p] = IF job[p].original = None THEN "unlocking" ELSE "restoring"
        /\ approved' = IF job[p].original = None THEN None ELSE Torn
        /\ job'[p].rule = None /\ job'[p].original = job[p].original
    BY <1>0, <1>9 DEF RollBack, Goto, Job
  <2>3. ~overlapped /\ Known' \subseteq Known => Covers(p)'
    BY <1>0, <2>2 DEF Covers, Deciding
  <2>4. ~overlapped /\ approved' # Torn => Known \subseteq Rules(approved')
    BY <1>0, <2>2, RuleAssumption DEF Covers
  <2>. QED
    BY <1>0, <2>1, <2>2, <2>3, <2>4, QuietCalm
<1>10. CASE Restore(p)
  <2>1. \A q \in Process \ {p} : Same(q)
    BY <1>0, <1>10, OthersSame DEF Restore, Goto
  <2>2. /\ pc[p] = "restoring" /\ pc'[p] = "unlocking" /\ job' = job
        /\ UNCHANGED <<candidates, acked, overlapped>>
        /\ approved' \in {job[p].original, Torn}
    BY <1>0, <1>10 DEF Restore, Goto
  <2>3. job[p].rule = None
    BY <1>0, <2>2 DEF Section
  <2>4. Covers(p)'
    BY <2>2, <2>3 DEF Covers, Deciding
  <2>5. ~overlapped /\ approved' # Torn => Known \subseteq Rules(approved')
    BY <1>0, <2>2 DEF Covers
  <2>. QED
    BY <1>0, <2>1, <2>2, <2>4, <2>5, QuietCalm
<1>11. CASE LeaveInPlace(p)
  <2>1. \A q \in Process \ {p} : Same(q)
    BY <1>0, <1>11, OthersSame DEF LeaveInPlace, Quit, Goto
  <2>2. /\ pc[p] # "idle" /\ pc'[p] = "idle" /\ approved' = approved
        /\ UNCHANGED <<candidates, acked, overlapped>>
    BY <1>0, <1>11 DEF LeaveInPlace, Quit, Goto
  <2>3. Covers(p)'
    BY <2>2 DEF Covers, Deciding
  <2>. QED
    BY <1>0, <2>1, <2>2, <2>3, QuietCalm
<1>. QED
  BY <1>1, <1>2, <1>3, <1>4, <1>5, <1>6, <1>7, <1>8, <1>9, <1>10, <1>11 DEF Approval

LEMMA EditCalm ==
  ASSUME LockInv, CalmInv, NEW p \in Editor, Edit(p) PROVE CalmInv'
<1>. p \in Process /\ p \notin Approver
  BY RuleAssumption DEF Process
<1>0. /\ TypeOK /\ job[p] \in Job /\ pc \in [Process -> Phase] /\ job \in [Process -> Job]
      /\ Section(p)
  BY DEF LockInv, TypeOK
<1>1. /\ \A r \in Rule : CountsAs(candidates, r) => r \in Known
      /\ \A r \in Rule : CountsAs(job[p].candidates, r) => r \in Known
      /\ \A r \in Rule : ~CountsAs(None, r) /\ ~CountsAs(Torn, r)
  BY DEF Known, CountsAs
<1>2. UNCHANGED <<approved, acked, overlapped>>
  BY DEF Edit, LoadForEdit, Discover, Truncate, WriteRules, Attach, ReplaceEvaluated, Die
<1>3. /\ \A q \in Process \ {p} : Same(q)
      /\ \A r \in Rule : CountsAs(candidates', r) => r \in Known
      /\ \A r \in Rule : CountsAs(job'[p].candidates, r) => r \in Known
  <2>1. CASE LoadForEdit(p)
    <3>1. job'[p].candidates = candidates /\ candidates' = candidates
      BY <1>0, <2>1 DEF LoadForEdit, Job
    <3>. QED
      BY <1>0, <1>1, <2>1, <3>1, OthersSame DEF LoadForEdit, Goto
  <2>2. ASSUME NEW d \in SUBSET Rule, Discover(p, d)
        PROVE  /\ \A q \in Process \ {p} : Same(q)
               /\ \A r \in Rule : CountsAs(candidates', r) => r \in Known
               /\ \A r \in Rule : CountsAs(job'[p].candidates, r) => r \in Known
    <3>1. job'[p].candidates = Merged(job[p].candidates, d) /\ candidates' = candidates
      BY <1>0, <2>2 DEF Discover, Job
    <3>2. job[p].candidates # None /\ job[p].candidates # Torn
      BY <1>0, <2>2, RuleAssumption DEF Discover, Section, Job
    <3>3. \A r \in Rule : CountsAs(job'[p].candidates, r) => CountsAs(job[p].candidates, r)
      BY <3>1, <3>2 DEF Merged, CountsAs
    <3>. QED
      BY <1>0, <1>1, <2>2, <3>1, <3>3, OthersSame DEF Discover, Goto
  <2>3. CASE Truncate(p)
    <3>1. job'[p].candidates = job[p].candidates
      BY <1>0, <2>3 DEF Truncate, Job
    <3>2. job[p].candidates # None /\ job[p].candidates # Torn
      BY <1>0, <2>3, RuleAssumption DEF Truncate, Section, Job
    <3>3. \A r \in Rule : CountsAs(candidates', r) => CountsAs(job[p].candidates, r)
      BY <2>3, <3>2 DEF Truncate, HalfWritten, CountsAs
    <3>. QED
      BY <1>0, <1>1, <2>3, <3>1, <3>3, OthersSame DEF Truncate, Goto
  <2>4. CASE WriteRules(p)
    <3>1. job'[p].candidates = None
      BY <1>0, <2>4 DEF WriteRules, Quit, NoJob
    <3>2. candidates' \in {candidates, job[p].candidates, Torn}
      BY <2>4 DEF WriteRules
    <3>. QED
      BY <1>0, <1>1, <2>4, <3>1, <3>2, OthersSame DEF WriteRules, Quit, Goto
  <2>5. ASSUME NEW r \in Rule, Attach(p, r)
        PROVE  /\ \A q \in Process \ {p} : Same(q)
               /\ \A x \in Rule : CountsAs(candidates', x) => x \in Known
               /\ \A x \in Rule : CountsAs(job'[p].candidates, x) => x \in Known
    BY <1>0, <1>1, <2>5, OthersSame DEF Attach, Goto
  <2>6. CASE ReplaceEvaluated(p)
    <3>1. job'[p].candidates = None /\ candidates' = job[p].candidates
      BY <1>0, <2>6 DEF ReplaceEvaluated, NoJob, Closed
    <3>. QED
      BY <1>0, <1>1, <2>6, <3>1, OthersSame DEF ReplaceEvaluated, Goto
  <2>7. CASE Die(p)
    <3>1. job'[p].candidates = None /\ candidates' = candidates
      BY <1>0, <2>7 DEF Die, Quit, NoJob
    <3>. QED
      BY <1>0, <1>1, <2>7, <3>1, OthersSame DEF Die, Quit, Goto
  <2>. QED
    BY <2>1, <2>2, <2>3, <2>4, <2>5, <2>6, <2>7 DEF Edit
<1>4. Known' \subseteq Known
  BY <1>2, <1>3, KnownShrinks
<1>. QED
  BY <1>0, <1>2, <1>3, <1>4, EditorCalm

LEMMA CalmInvHolds == Spec => []CalmInv
<1>1. LockInv /\ CalmInv /\ Next => CalmInv'
  BY ApprovalCalm, EditCalm DEF Next
<1>2. CalmInv /\ UNCHANGED vars => CalmInv'
  BY DEF vars, CalmInv, Covers, Known, CountsAs
<1>3. LockInv /\ CalmInv /\ [Next]_vars => CalmInv'
  BY <1>1, <1>2
<1>. QED
  BY <1>3, InitCalm, LockInvHolds, PTL DEF Spec

(* As long as approvals do not overlap, a rule that counts as approved     *)
(* among the candidates is in the approved file, whatever else happens.    *)
THEOREM PromotedInForce == Spec => []PromotedAreApproved
<1>1. LockInv /\ CalmInv => PromotedAreApproved
  BY RuleAssumption DEF LockInv, TypeOK, CalmInv, PromotedAreApproved, Known, CountsAs
<1>. QED
  BY <1>1, LockInvHolds, CalmInvHolds, PTL

(* As long as approvals do not overlap, a reported approval stays.         *)
THEOREM ReportedInForce == Spec => []ReportedApprovalsStay
<1>1. LockInv /\ CalmInv => ReportedApprovalsStay
  BY DEF LockInv, TypeOK, CalmInv, ReportedApprovalsStay, Known
<1>. QED
  BY <1>1, LockInvHolds, CalmInvHolds, PTL

-----------------------------------------------------------------------------
(* The Trust assessment of a change (TrustAssessment).                     *)

(* A band is the greatest of a set of bands.                               *)
LEMMA GreatestBand ==
  ASSUME NEW S \in SUBSET (0..4), S # {}
  PROVE  Max(S) \in S /\ \A y \in S : y <= Max(S)
<1>1. \E x \in S : \A y \in S : x >= y
  <2>1. CASE 4 \in S
    BY <2>1
  <2>2. CASE 4 \notin S /\ 3 \in S
    BY <2>2
  <2>3. CASE S \subseteq 0..2 /\ 2 \in S
    BY <2>3
  <2>4. CASE S \subseteq 0..1 /\ 1 \in S
    BY <2>4
  <2>5. CASE S \subseteq {0}
    <3>1. S = {0}
      BY <2>5
    <3>. QED BY <3>1
  <2>. QED BY <2>1, <2>2, <2>3, <2>4, <2>5
<1>2. Max(S) \in S /\ \A y \in S : Max(S) >= y
  BY <1>1 DEF Max
<1>. QED BY <1>2

LEMMA PathBand ==
  ASSUME NEW m, NEW e, NEW p
  PROVE  PathRisk(m, e, p)[1] \in 0..4
<1>1. \A class : WorkflowRisk(class)[1] \in 0..4
  BY DEF WorkflowRisk
<1>2. PathClassification(p)[1] \in 0..4
  BY DEF PathClassification
<1>3. AuthoritativeClassification(p)[1] \in 0..4
  BY <1>2 DEF AuthoritativeClassification
<1>. QED
  BY <1>1, <1>2, <1>3 DEF PathRisk

(* The bands a request is assessed by, and what they come to.              *)
PathClasses(m, r, e) == {PathRisk(m, e, p) : p \in r.files}
PathBands(m, r, pf, e) ==
  {c[1] : c \in PathClasses(m, r, e)} \cup (IF r.files \cap pf.protected # {} THEN {3} ELSE {})
Together(B, corroborated, base) ==
  Max({base, Max({Max(B)} \cup (IF corroborated THEN {3} ELSE {}))})

LEMMA RiskIs ==
  ASSUME NEW m, NEW r, NEW pf, NEW e
  PROVE  /\ Risk(m, r, pf, e).effective
              = Together(PathBands(m, r, pf, e), Corroborations(m, pf, r.files) # {}, TaskClassBand[r.class])
         /\ Risk(m, r, pf, e).protected = r.files \cap pf.protected
         /\ Risk(m, r, pf, e).reasons = {c[2] : c \in PathClasses(m, r, e)}
         /\ Risk(m, r, pf, e).corroborated = {c.id : c \in Corroborations(m, pf, r.files)}
BY DEF Risk, PathBands, Together, PathClasses

LEMMA BandsAre ==
  ASSUME NEW m, NEW r, NEW pf, NEW e
  PROVE  /\ PathBands(m, r, pf, e) \subseteq 0..4
         /\ r.files # {} => PathBands(m, r, pf, e) # {}
         /\ r.class \in DOMAIN TaskClassBand => TaskClassBand[r.class] \in 0..4
<1>1. PathBands(m, r, pf, e) \subseteq 0..4
  BY PathBand DEF PathBands, PathClasses
<1>2. r.files # {} => PathBands(m, r, pf, e) # {}
  BY DEF PathBands, PathClasses
<1>3. r.class \in DOMAIN TaskClassBand => TaskClassBand[r.class] \in 0..4
  BY DEF TaskClassBand
<1>. QED BY <1>1, <1>2, <1>3

(* It grows with the bands and with what is corroborated.                  *)
LEMMA TogetherGrows ==
  ASSUME NEW B \in SUBSET (0..4), B # {}, NEW B2 \in SUBSET (0..4), B \subseteq B2,
         NEW c \in BOOLEAN, NEW c2 \in BOOLEAN, c => c2, NEW base \in 0..4
  PROVE  Together(B, c, base) \in 0..4 /\ Together(B, c, base) <= Together(B2, c2, base)
<1>. DEFINE floor == Max(B)  floor2 == Max(B2)
            S == {floor} \cup (IF c THEN {3} ELSE {})
            S2 == {floor2} \cup (IF c2 THEN {3} ELSE {})
            top == Max(S)  top2 == Max(S2)
<1>1. floor \in 0..4 /\ floor2 \in 0..4 /\ floor <= floor2
  BY GreatestBand
<1>2. top \in S /\ (\A y \in S : y <= top) /\ top2 \in S2 /\ (\A y \in S2 : y <= top2)
  <2>. HIDE DEF floor, floor2
  <2>1. S \in SUBSET (0..4) /\ S # {} /\ S2 \in SUBSET (0..4) /\ S2 # {}
    BY <1>1
  <2>. HIDE DEF S, S2
  <2>. QED BY <2>1, GreatestBand
<1>3. top \in 0..4 /\ top2 \in 0..4 /\ top <= top2
  <2>. HIDE DEF floor, floor2, top, top2
  <2>. QED BY <1>1, <1>2
<1>4. Max({base, top}) \in 0..4 /\ Max({base, top}) <= Max({base, top2})
  <2>. HIDE DEF top, top2
  <2>1. /\ Max({base, top}) \in {base, top}
        /\ Max({base, top2}) \in {base, top2} /\ \A y \in {base, top2} : y <= Max({base, top2})
    BY <1>3, GreatestBand
  <2>. QED BY <2>1, <1>3
<1>. QED BY <1>4 DEF Together

-----------------------------------------------------------------------------
(* What the analysers promised before they were given authority.           *)

LEMMA NoEvidenceHoldsNothing == \A p : ~Holds(NoEvidence, p)
BY DEF Holds, NoEvidence

LEMMA R4Holds ==
  ASSUME NEW m, NEW r, NEW d, NEW p \in r.files
  PROVE  Holds(R4Evidence(m, r, d), p) <=> R4Authority(m, p, Signals[d][p])
BY DEF Holds, R4Evidence

(* Without triggered paths both assess every path alike.                   *)
LEMMA SameClasses ==
  ASSUME NEW m \in {3, 4}, NEW r, NEW d, \A p \in r.files : ~R4Authority(m, p, Signals[d][p])
  PROVE  PathClasses(m, r, Evidence(m, r, d)) = PathClasses(5, r, WithoutSemantics(r, d))
<1>. DEFINE e == Evidence(m, r, d)
            f == WithoutSemantics(r, d)
<1>1. /\ e.workflow = WorkflowEvidence(r, d) /\ e.r4 = R4Evidence(m, r, d) /\ e.signing = NoEvidence
  BY DEF Evidence, WithR4, WithSigning
<1>2. /\ f.workflow = WorkflowEvidence(r, d) /\ f.r4 = NoEvidence /\ f.signing = NoEvidence
  BY DEF Evidence, WithoutSemantics
<1>3. ASSUME NEW p \in r.files PROVE PathRisk(m, e, p) = PathRisk(5, f, p)
  <2>. HIDE DEF e, f
  <2>1. ~Holds(e.r4, p) /\ ~Holds(e.signing, p) /\ ~Holds(f.r4, p) /\ ~Holds(f.signing, p)
    BY <1>1, <1>2, R4Holds, NoEvidenceHoldsNothing
  <2>. QED BY <1>1, <1>2, <2>1 DEF PathRisk
<1>. QED BY <1>3 DEF PathClasses

LEMMA TopBand ==
  ASSUME NEW B \in SUBSET (0..4), 4 \in B, NEW c \in BOOLEAN, NEW base \in 0..4
  PROVE  Together(B, c, base) = 4
<1>1. Max({4}) = 4 /\ Max({4} \cup {}) = 4
  BY GreatestBand
<1>2. Max({base, 4}) = 4
  BY GreatestBand
<1>3. Together({4}, FALSE, base) = 4
  BY <1>1, <1>2 DEF Together
<1>4. {4} \subseteq B /\ {4} \in SUBSET (0..4) /\ {4} # {} /\ B # {}
  OBVIOUS
<1>5. Together({4}, FALSE, base) <= Together(B, c, base)
  BY <1>4, TogetherGrows
<1>6. Together(B, c, base) \in 0..4
  BY <1>4, TogetherGrows
<1>7. \A x \in 0..4 : 4 <= x => x = 4
  OBVIOUS
<1>8. 4 <= Together(B, c, base)
  BY <1>3, <1>5, Zenon
<1>. QED BY <1>6, <1>7, <1>8, Zenon

LEMMA ShadowKept ==
  ASSUME NEW m \in {3, 4}, NEW r, NEW pf, NEW d, r.class \in DOMAIN TaskClassBand
  PROVE  Risk(m, r, pf, Evidence(m, r, d)).effective = R4Candidate(m, r, pf, d)
<1>. DEFINE e == Evidence(m, r, d)
            f == WithoutSemantics(r, d)
            triggered == {p \in r.files : R4Authority(m, p, Signals[d][p])}
            base == TaskClassBand[r.class]
<1>1. CASE triggered = {}
  <2>1. PathClasses(m, r, e) = PathClasses(5, r, f)
    BY <1>1, SameClasses
  <2>2. Corroborations(m, pf, r.files) = Corroborations(5, pf, r.files)
    BY SMTT(30) DEF Corroborations, AuthorizationRls
  <2>3. Risk(m, r, pf, e).effective = Risk(5, r, pf, f).effective
    <3>1. PathBands(m, r, pf, e) = PathBands(5, r, pf, f)
      BY <2>1 DEF PathBands
    <3>. HIDE DEF e, f
    <3>. QED BY <2>2, <3>1, RiskIs
  <2>. QED BY <1>1, <2>3 DEF R4Candidate
<1>2. CASE triggered # {}
  <2>1. PICK p \in r.files : R4Authority(m, p, Signals[d][p])
    BY <1>2
  <2>2. e.r4 = R4Evidence(m, r, d)
    BY DEF Evidence, WithR4
  <2>3. PathRisk(m, e, p) = <<4, "SEMANTIC_R4_AUTHORITY">>
    BY <2>1, <2>2, R4Holds DEF PathRisk
  <2>4. 4 \in PathBands(m, r, pf, e)
    BY <2>3 DEF PathBands, PathClasses
  <2>5. PathBands(m, r, pf, e) \in SUBSET (0..4) /\ base \in 0..4
    BY BandsAre
  <2>7. Together(PathBands(m, r, pf, e), Corroborations(m, pf, r.files) # {}, base) = 4
    BY <2>4, <2>5, TopBand
  <2>. QED BY <1>2, <2>7, RiskIs DEF R4Candidate
<1>. QED BY <1>1, <1>2

-----------------------------------------------------------------------------
(* More paths, more protection and more packs.                             *)

LEMMA SelectedGrows ==
  ASSUME NEW pf, NEW pf2, NEW fs, NEW fs2, NEW pack,
         fs \subseteq fs2, pf.packs \subseteq pf2.packs
  PROVE  Selected(pf, fs, pack) \subseteq Selected(pf2, fs2, pack)
BY DEF Selected

(* A path that only says "policy" proves neither authorization nor RLS,    *)
(* whatever else is configured: both packs were when both were selected.   *)
LEMMA AuthorizationRlsGrows ==
  ASSUME NEW m, NEW pf, NEW pf2, NEW fs, NEW fs2,
         fs \subseteq fs2, pf.packs \subseteq pf2.packs, AuthorizationRls(m, pf, fs) # {}
  PROVE  AuthorizationRls(m, pf2, fs2) # {}
<1>. DEFINE au(q, gs) == Selected(q, gs, "application.authorization")
            rl(q, gs) == Selected(q, gs, "data.rls")
            co(q, gs) == IF m > 1 THEN {p \in au(q, gs) \cap rl(q, gs) : GenericPolicyOnly(p)} ELSE {}
<1>1. au(pf, fs) \ co(pf, fs) # {} /\ rl(pf, fs) \ co(pf, fs) # {}
  BY DEF AuthorizationRls
<1>2. "application.authorization" \in pf.packs /\ "data.rls" \in pf.packs
  BY <1>1 DEF Selected
<1>3. PICK p, q : p \in au(pf, fs) \ co(pf, fs) /\ q \in rl(pf, fs) \ co(pf, fs)
  BY <1>1
<1>4. p \in au(pf2, fs2) /\ q \in rl(pf2, fs2)
  BY <1>3, SelectedGrows
<1>5. p \notin co(pf2, fs2) /\ q \notin co(pf2, fs2)
  BY <1>2, <1>3 DEF Selected
<1>6. au(pf2, fs2) \ co(pf2, fs2) # {} /\ rl(pf2, fs2) \ co(pf2, fs2) # {}
  BY <1>4, <1>5
<1>. QED BY <1>4, <1>6 DEF AuthorizationRls

LEMMA CorroborationsGrow ==
  ASSUME NEW m, NEW pf, NEW pf2, NEW fs, NEW fs2,
         fs \subseteq fs2, pf.packs \subseteq pf2.packs, pf2.packs # Absent,
         Corroborations(m, pf, fs) # {}
  PROVE  Corroborations(m, pf2, fs2) # {}
<1>. DEFINE an(q, gs) == Selected(q, gs, "application.authentication")
            mi(q, gs) == Selected(q, gs, "data.migration-safety")
            ar(q, gs) == AuthorizationRls(m, q, gs)
            all(q, gs) == {[id |-> "AUTHENTICATION", paths |-> an(q, gs)],
                           [id |-> "MIGRATION_SAFETY", paths |-> mi(q, gs)],
                           [id |-> "AUTHORIZATION_RLS", paths |-> ar(q, gs)]}
<1>1. {c \in all(pf, fs) : c.paths # {}} # {}
  BY DEF Corroborations
<1>2. an(pf, fs) # {} \/ mi(pf, fs) # {} \/ ar(pf, fs) # {}
  BY <1>1
<1>3. an(pf2, fs2) # {} \/ mi(pf2, fs2) # {} \/ ar(pf2, fs2) # {}
  BY <1>2, SelectedGrows, AuthorizationRlsGrows
<1>4. {c \in all(pf2, fs2) : c.paths # {}} # {}
  <2>1. \E c \in all(pf2, fs2) : c.paths # {}
    BY <1>3
  <2>. QED BY <2>1
<1>. QED BY <1>4 DEF Corroborations

(* What the analysers say of a path does not depend on the other paths.    *)
LEMMA PathsKeepTheirClass ==
  ASSUME NEW m \in Model, NEW r, NEW r2, NEW d, r.files \subseteq r2.files, NEW p \in r.files
  PROVE  PathRisk(m, Evidence(m, r, d), p) = PathRisk(m, Evidence(m, r2, d), p)
<1>. DEFINE e == Evidence(m, r, d)
            f == Evidence(m, r2, d)
<1>1. Holds(e.r4, p) <=> Holds(f.r4, p)
  BY R4Holds, NoEvidenceHoldsNothing DEF Evidence
<1>2. Holds(e.signing, p) <=> Holds(f.signing, p)
  BY NoEvidenceHoldsNothing DEF Evidence, Holds, SigningEvidence
<1>3. p \in DOMAIN e.workflow.by <=> p \in DOMAIN f.workflow.by
  BY DEF Evidence, WorkflowEvidence, WorkflowsIn, NoEvidence
<1>4. p \in DOMAIN e.workflow.by => e.workflow.by[p] = f.workflow.by[p]
  BY DEF Evidence, WorkflowEvidence, WorkflowsIn, NoEvidence
<1>5. PathRisk(m, e, p) = PathRisk(m, f, p)
  <2>. HIDE DEF e, f
  <2>. QED BY <1>1, <1>2, <1>3, <1>4 DEF PathRisk
<1>. QED BY <1>5

(* The gates that only name the request, its classes and what is           *)
(* corroborated.                                                           *)
LEMMA GatesKept ==
  ASSUME NEW r, NEW r2, NEW a, NEW b, NEW ev,
         r.files \subseteq r2.files, r2.class = r.class, r2.scenarioMissing = r.scenarioMissing,
         r2.repositoryMatch = r.repositoryMatch, r2.headMatch = r.headMatch,
         r2.rollback = r.rollback, r2.replay = r.replay,
         a.protected \subseteq b.protected, a.reasons \subseteq b.reasons,
         a.corroborated # {} => b.corroborated # {}
  PROVE  Triggered(r, a, ev) \subseteq Triggered(r2, b, ev)
<1>. DEFINE
      high(q, k) == q.class \in HighRiskTask \/ k.reasons \cap HighRiskReason # {} \/ k.corroborated # {}
      verifier(q, k) == q.class = "verifier" \/ "VERIFIER_OR_POLICY_PATH" \in k.reasons
      all(q, k) == {<<"PROTECTED_PATH_CHANGED", k.protected # {}>>,
          <<"REQUIRED_SCENARIO_MISSING", q.scenarioMissing>>,
          <<"REPOSITORY_MISMATCH", ~q.repositoryMatch>>,
          <<"HEAD_MISMATCH", ~q.headMatch>>,
          <<"AUTHORIZATION_OR_MIGRATION_CHANGE", high(q, k)>>,
          <<"VERIFIER_CHANGED", verifier(q, k)>>,
          <<"POLICY_EVALUATION_MISSING", ~PolicyReady(ev)>>,
          <<"ROLLBACK_OR_REPLAY_EVIDENCE_MISSING", RollbackMissing(q)>>}
      open(q, k) == {g \in all(q, k) : g[2]}
<1>1. HardGates(r, a, ev) = open(r, a) /\ HardGates(r2, b, ev) = open(r2, b)
  BY DEF HardGates
<1>2. high(r, a) => high(r2, b)
  OBVIOUS
<1>3. verifier(r, a) => verifier(r2, b)
  OBVIOUS
<1>4. RollbackMissing(r) => RollbackMissing(r2)
  BY DEF RollbackMissing
<1>5. a.protected # {} => b.protected # {}
  OBVIOUS
<1>6. ASSUME NEW g \in open(r, a) PROVE \E h \in open(r2, b) : h[1] = g[1]
  <2>. HIDE DEF high, verifier
  <2>1. CASE g = <<"PROTECTED_PATH_CHANGED", a.protected # {}>>
    BY <2>1, <1>5, <1>6
  <2>2. CASE g = <<"REQUIRED_SCENARIO_MISSING", r.scenarioMissing>>
    BY <2>2, <1>6
  <2>3. CASE g = <<"REPOSITORY_MISMATCH", ~r.repositoryMatch>>
    BY <2>3, <1>6
  <2>4. CASE g = <<"HEAD_MISMATCH", ~r.headMatch>>
    BY <2>4, <1>6
  <2>5. CASE g = <<"AUTHORIZATION_OR_MIGRATION_CHANGE", high(r, a)>>
    BY <2>5, <1>2, <1>6
  <2>6. CASE g = <<"VERIFIER_CHANGED", verifier(r, a)>>
    BY <2>6, <1>3, <1>6
  <2>7. CASE g = <<"POLICY_EVALUATION_MISSING", ~PolicyReady(ev)>>
    BY <2>7, <1>6
  <2>8. CASE g = <<"ROLLBACK_OR_REPLAY_EVIDENCE_MISSING", RollbackMissing(r)>>
    BY <2>8, <1>4, <1>6
  <2>. QED BY <1>6, <2>1, <2>2, <2>3, <2>4, <2>5, <2>6, <2>7, <2>8
<1>. QED BY <1>1, <1>6 DEF Triggered

Milder(m, r, pf, d, r2, pf2, d2) ==
  LET before == Risk(m, r, pf, Evidence(m, r, d))
      after == Risk(m, r2, pf2, Evidence(m, r2, d2))
      ev == [match |-> FALSE, decision |-> Absent]
  IN ~(after.effective >= before.effective /\ Triggered(r, before, ev) \subseteq Triggered(r2, after, ev))

PacksAreSets == \A packs \in SUBSET Packs : packs # Absent

LEMMA NeverMilder ==
  ASSUME NEW m \in Model, NEW r \in Request, NEW r2 \in Request,
         NEW pf \in Profile, NEW pf2 \in Profile, NEW d,
         r.files # {}, r.files \subseteq r2.files,
         r2.class = r.class, r2.scenarioMissing = r.scenarioMissing, r2.repositoryMatch = r.repositoryMatch,
         r2.headMatch = r.headMatch, r2.rollback = r.rollback, r2.replay = r.replay,
         pf.protected \subseteq pf2.protected, pf.packs \subseteq pf2.packs, PacksAreSets
  PROVE  ~Milder(m, r, pf, d, r2, pf2, d)
<1>. DEFINE e == Evidence(m, r, d)
            e2 == Evidence(m, r2, d)
            cor == Corroborations(m, pf, r.files)
            cor2 == Corroborations(m, pf2, r2.files)
            base == TaskClassBand[r.class]
            B == PathBands(m, r, pf, e)
            B2 == PathBands(m, r2, pf2, e2)
            before == Risk(m, r, pf, e)
            after == Risk(m, r2, pf2, e2)
<1>1. PathClasses(m, r, e) \subseteq PathClasses(m, r2, e2)
  <2>1. \A p \in r.files : PathRisk(m, e, p) = PathRisk(m, e2, p)
    BY PathsKeepTheirClass
  <2>. HIDE DEF e, e2
  <2>. QED BY <2>1 DEF PathClasses
<1>2. cor # {} => cor2 # {}
  <2>1. pf2.packs # Absent
    BY DEF Profile, PacksAreSets
  <2>. QED BY <2>1, CorroborationsGrow
<1>. HIDE DEF e, e2
<1>3. /\ before.effective = Together(B, cor # {}, base) /\ after.effective = Together(B2, cor2 # {}, base)
      /\ before.protected = r.files \cap pf.protected /\ after.protected = r2.files \cap pf2.protected
      /\ before.reasons = {c[2] : c \in PathClasses(m, r, e)} /\ after.reasons = {c[2] : c \in PathClasses(m, r2, e2)}
      /\ before.corroborated = {c.id : c \in cor} /\ after.corroborated = {c.id : c \in cor2}
  <2>1. /\ before.effective = Together(B, cor # {}, base) /\ before.protected = r.files \cap pf.protected
        /\ before.reasons = {c[2] : c \in PathClasses(m, r, e)} /\ before.corroborated = {c.id : c \in cor}
    BY RiskIs
  <2>2. /\ after.effective = Together(B2, cor2 # {}, TaskClassBand[r2.class])
        /\ after.protected = r2.files \cap pf2.protected
        /\ after.reasons = {c[2] : c \in PathClasses(m, r2, e2)} /\ after.corroborated = {c.id : c \in cor2}
    BY RiskIs
  <2>. QED BY <2>1, <2>2
<1>4. B \subseteq B2
  BY <1>1 DEF PathBands
<1>5. B \in SUBSET (0..4) /\ B2 \in SUBSET (0..4) /\ B # {}
  BY BandsAre
<1>6. base \in 0..4
  BY BandsAre DEF Request
<1>7. Together(B, cor # {}, base) <= Together(B2, cor2 # {}, base)
      /\ Together(B, cor # {}, base) \in 0..4 /\ Together(B2, cor2 # {}, base) \in 0..4
  <2>. HIDE DEF B, B2, cor, cor2, base
  <2>. B2 # {}
    BY <1>4, <1>5
  <2>. QED BY <1>2, <1>4, <1>5, <1>6, TogetherGrows
<1>8. before.protected \subseteq after.protected /\ before.reasons \subseteq after.reasons
      /\ (before.corroborated # {} => after.corroborated # {})
  <2>. HIDE DEF before, after, cor, cor2
  <2>. QED BY <1>1, <1>2, <1>3
<1>9. after.effective >= before.effective
  <2>. HIDE DEF before, after, B, B2, cor, cor2, base
  <2>. QED BY <1>3, <1>7
<1>10. \A ev : Triggered(r, before, ev) \subseteq Triggered(r2, after, ev)
  <2>. HIDE DEF before, after
  <2>. QED BY <1>8, GatesKept
<1>. QED BY <1>9, <1>10 DEF Milder, e, e2

-----------------------------------------------------------------------------
(* The files, and the assessment that is under way.                        *)

FilesInv ==
  /\ request \in Request /\ request.files # {}
  /\ profile \in Profile

(* Evidence is for the paths of the request, and only models that read it  *)
(* have any.                                                               *)
WorkflowFits(m, r, w) == w.of # Absent => m # 0 /\ DOMAIN w.by = WorkflowsIn(r.files)
R4Fits(m, r, x) == x.of # Absent => m \in WithR4 /\ DOMAIN x.by = r.files
SigningFits(m, r, x) == x.of # Absent => m \in WithSigning /\ DOMAIN x.by = r.files

AfterWorkflow == {"r4", "signing", "registry", "evaluation", "reground", "observations"}
AfterR4 == AfterWorkflow \ {"r4"}
AfterSigning == AfterR4 \ {"signing"}

JobInv ==
  /\ "stage" \in DOMAIN assessment
  /\ assessment.stage # "idle" => {"model", "pair", "request", "replay"} \subseteq DOMAIN assessment /\ (assessment.pair => assessment.model # 0)
  /\ assessment.stage \in AfterWorkflow => "workflow" \in DOMAIN assessment /\ WorkflowFits(assessment.model, assessment.request, assessment.workflow)
  /\ assessment.stage \in AfterR4 => "r4" \in DOMAIN assessment /\ R4Fits(assessment.model, assessment.request, assessment.r4)
  /\ assessment.stage \in AfterSigning => "signing" \in DOMAIN assessment /\ SigningFits(assessment.model, assessment.request, assessment.signing)

(* A replay has read its evidence from captures that were there while it   *)
(* ran, as the one is that it may read next.                               *)
WasThere(x) == x.of \in {Absent} \cup seen

ReplayInv ==
  assessment.stage # "idle" /\ assessment.replay =>
    /\ diff \in seen
    /\ assessment.stage \in AfterWorkflow => WasThere(assessment.workflow)
    /\ assessment.stage \in AfterR4 => WasThere(assessment.r4)
    /\ assessment.stage \in AfterSigning => WasThere(assessment.signing)

ReportInv == JobInv /\ ReportsVerify /\ ReplayInv /\ AcceptedEvidenceWasThere

LEMMA FilesInit == TrustInit => FilesInv
BY TrustAssumption DEF TrustInit, FilesInv

LEMMA RequestWritten ==
  ASSUME FilesInv, NEW p \in Path, request' = [request EXCEPT !.files = @ \cup {p}]
  PROVE  /\ request' \in Request /\ request.files \subseteq request'.files
         /\ request'.class = request.class /\ request'.scenarioMissing = request.scenarioMissing
         /\ request'.repositoryMatch = request.repositoryMatch /\ request'.headMatch = request.headMatch
         /\ request'.rollback = request.rollback /\ request'.replay = request.replay
<1>. DEFINE fs == request.files \cup {p}
<1>1. fs \in SUBSET Path
  BY DEF FilesInv, Request
<1>2. request' = [request EXCEPT !.files = fs]
  OBVIOUS
<1>3. request \in Request
  BY DEF FilesInv
<1>4. request.files \subseteq fs
  OBVIOUS
<1>. HIDE DEF fs
<1>. QED BY <1>1, <1>2, <1>3, <1>4 DEF Request

LEMMA ProfileWritten ==
  ASSUME FilesInv, WriteProfile
  PROVE  /\ profile' \in Profile
         /\ profile.protected \subseteq profile'.protected
         /\ profile.packs \subseteq profile'.packs
<1>1. profile \in Profile
  BY DEF FilesInv
<1>2. CASE \E p \in Path \ profile.protected :
             profile' = [profile EXCEPT !.protected = @ \cup {p}]
  BY <1>1, <1>2 DEF Profile
<1>3. CASE \E k \in Packs \ profile.packs : profile' = [profile EXCEPT !.packs = @ \cup {k}]
  BY <1>1, <1>3 DEF Profile
<1>. QED BY <1>2, <1>3 DEF WriteProfile

(* Only these two change what is assessed; the rest of Next.               *)
Otherwise ==
  \/ \E m \in Model, pair \in BOOLEAN, corroborate \in BOOLEAN : Begin(m, pair, corroborate)
  \/ \E pair \in BOOLEAN : BeginReplay(pair)
  \/ ReadProfile \/ ReadWorkflow \/ ReadR4 \/ ReadSigning
  \/ ReadRegistry \/ ReadEvaluation \/ ReadReground \/ ReadObservationsAndEmit
  \/ CaptureSource \/ CaptureDiff \/ WriteDocs

LEMMA OtherwiseUnchanged == Otherwise => UNCHANGED <<request, profile>>
BY DEF Otherwise, Begin, BeginReplay, ReadProfile, ReadWorkflow, ReadR4, ReadSigning,
   ReadRegistry, ReadEvaluation, ReadReground, ReadObservationsAndEmit,
   CaptureSource, CaptureDiff, WriteDocs, files

LEMMA WritesStep ==
  ASSUME FilesInv, WriteRequest \/ WriteProfile
  PROVE  /\ FilesInv' /\ diff' = diff
         /\ PacksAreSets =>
              \A m \in Model : ~Milder(m, request, profile, diff, request', profile', diff)
<1>1. CASE WriteRequest
  <2>1. PICK p \in Path : request' = [request EXCEPT !.files = @ \cup {p}]
    BY <1>1 DEF WriteRequest
  <2>2. profile' = profile /\ diff' = diff
    BY <1>1 DEF WriteRequest
  <2>3. FilesInv'
    BY <2>1, <2>2, RequestWritten DEF FilesInv
  <2>4. ASSUME PacksAreSets, NEW m \in Model
        PROVE  ~Milder(m, request, profile, diff, request', profile', diff)
    BY <2>1, <2>2, <2>3, <2>4, RequestWritten, NeverMilder DEF FilesInv
  <2>. QED BY <2>2, <2>3, <2>4
<1>2. CASE WriteProfile
  <2>1. request' = request /\ diff' = diff
    BY <1>2 DEF WriteProfile
  <2>2. FilesInv'
    BY <1>2, <2>1, ProfileWritten DEF FilesInv
  <2>3. ASSUME PacksAreSets, NEW m \in Model
        PROVE  ~Milder(m, request, profile, diff, request', profile', diff)
    BY <1>2, <2>1, <2>2, <2>3, ProfileWritten, NeverMilder DEF FilesInv
  <2>. QED BY <2>1, <2>2, <2>3
<1>. QED BY <1>1, <1>2

LEMMA FilesNext == FilesInv /\ [TrustNext]_trustVars => FilesInv'
<1>. SUFFICES ASSUME FilesInv, [TrustNext]_trustVars PROVE FilesInv'
  OBVIOUS
<1>1. CASE WriteRequest \/ WriteProfile
  BY <1>1, WritesStep
<1>2. CASE UNCHANGED <<request, profile>>
  BY <1>2 DEF FilesInv
<1>. QED
  BY <1>1, <1>2, OtherwiseUnchanged DEF TrustNext, trustVars, Otherwise

LEMMA GrowthStep ==
  ASSUME FilesInv, [TrustNext]_trustVars
  PROVE  [assessment = Idle /\ (request' # request \/ profile' # profile) =>
            \A m \in Model : ~Milder(m, request, profile, diff, request', profile', diff)]_trustVars
<1>1. CASE WriteRequest \/ WriteProfile
  BY <1>1, WritesStep, TrustAssumption DEF PacksAreSets
<1>2. CASE UNCHANGED <<request, profile>>
  BY <1>2
<1>. QED
  BY <1>1, <1>2, OtherwiseUnchanged DEF TrustNext, trustVars, Otherwise

LEMMA ComputedVerifies ==
  ASSUME NEW m, NEW r, NEW pf, NEW e, WorkflowFits(m, r, e.workflow), R4Fits(m, r, e.r4), SigningFits(m, r, e.signing)
  PROVE  ReportVerifies(Compute(m, r, pf, e))
<1>. DEFINE rp == Compute(m, r, pf, e)
<1>1. rp.model = m /\ rp.request = r /\ rp.profile = pf /\ rp.evidence = e
  BY DEF Compute
<1>. HIDE DEF rp
<1>2. rp = Compute(rp.model, rp.request, rp.profile, rp.evidence)
  BY <1>1 DEF rp
<1>3. ReportVerifies(rp)
  BY <1>1, <1>2 DEF ReportVerifies, WorkflowFits, R4Fits, SigningFits
<1>. QED BY <1>3 DEF rp

LEMMA FieldsContinue ==
  ASSUME NEW stage, NEW fields, Continue(stage, fields)
  PROVE  /\ DOMAIN assessment' = DOMAIN assessment \cup DOMAIN fields
         /\ "stage" \in DOMAIN assessment => assessment'.stage = stage
         /\ \A f \in DOMAIN assessment \ (DOMAIN fields \cup {"stage"}) : assessment'[f] = assessment[f]
         /\ \A f \in DOMAIN fields \ {"stage"} : assessment'[f] = fields[f]
BY DEF Continue

LEMMA ReportInit == TrustInit => ReportInv
BY DEF TrustInit, ReportInv, JobInv, Idle, ReportsVerify, AfterWorkflow, AfterR4, AfterSigning,
   ReplayInv, AcceptedEvidenceWasThere

LEMMA ReportsKept ==
  ASSUME ReportInv, report' = report, answer' # "self-refused"
  PROVE  ReportsVerify'
BY DEF ReportInv, ReportsVerify, ReportVerifies

LEMMA AcceptedKept ==
  ASSUME ReportInv, answer' = "accepted" => answer = "accepted" /\ report' = report /\ seen \subseteq seen'
  PROVE  AcceptedEvidenceWasThere'
BY DEF ReportInv, AcceptedEvidenceWasThere

LEMMA RefuseKept ==
  ASSUME ReportInv, Refuse, report' = report
  PROVE  ReportInv'
<1>1. JobInv'
  BY DEF Refuse, Idle, JobInv, AfterWorkflow, AfterR4, AfterSigning
<1>2. answer' = "refused"
  BY DEF Refuse
<1>3. ReplayInv'
  BY DEF Refuse, Idle, ReplayInv
<1>. QED BY <1>1, <1>2, <1>3, ReportsKept, AcceptedKept DEF ReportInv

LEMMA EvidenceFits ==
  ASSUME NEW m, NEW r, NEW d
  PROVE  /\ m # 0 => WorkflowFits(m, r, WorkflowEvidence(r, d))
         /\ m \in WithR4 => R4Fits(m, r, R4Evidence(m, r, d))
         /\ m \in WithSigning => SigningFits(m, r, SigningEvidence(r, d))
         /\ WorkflowFits(m, r, NoEvidence) /\ R4Fits(m, r, NoEvidence) /\ SigningFits(m, r, NoEvidence)
         /\ d \in seen => WasThere(WorkflowEvidence(r, d)) /\ WasThere(R4Evidence(m, r, d)) /\ WasThere(SigningEvidence(r, d))
         /\ WasThere(NoEvidence)
BY DEF WorkflowFits, R4Fits, SigningFits, WorkflowEvidence, R4Evidence, SigningEvidence, NoEvidence, WasThere

(* A reading keeps what was read before it and adds what it read.          *)
LEMMA ContinueKept ==
  ASSUME ReportInv, NEW stage, NEW fields, Continue(stage, fields),
         assessment.stage # "idle", report' = report, answer' = answer, seen' = seen, diff' = diff,
         DOMAIN fields \cap {"stage", "model", "pair", "request", "replay"} = {},
         stage \in AfterWorkflow =>
           \/ /\ "workflow" \in DOMAIN fields /\ WorkflowFits(assessment.model, assessment.request, fields["workflow"])
              /\ assessment.replay => WasThere(fields["workflow"])
           \/ assessment.stage \in AfterWorkflow /\ "workflow" \notin DOMAIN fields,
         stage \in AfterR4 =>
           \/ /\ "r4" \in DOMAIN fields /\ R4Fits(assessment.model, assessment.request, fields["r4"])
              /\ assessment.replay => WasThere(fields["r4"])
           \/ assessment.stage \in AfterR4 /\ "r4" \notin DOMAIN fields,
         stage \in AfterSigning =>
           \/ /\ "signing" \in DOMAIN fields /\ SigningFits(assessment.model, assessment.request, fields["signing"])
              /\ assessment.replay => WasThere(fields["signing"])
           \/ assessment.stage \in AfterSigning /\ "signing" \notin DOMAIN fields
  PROVE  ReportInv'
<1>0. JobInv
  BY DEF ReportInv
<1>1. /\ DOMAIN assessment' = DOMAIN assessment \cup DOMAIN fields /\ assessment'.stage = stage
      /\ \A f \in DOMAIN assessment \ (DOMAIN fields \cup {"stage"}) : assessment'[f] = assessment[f]
      /\ \A f \in DOMAIN fields \ {"stage"} : assessment'[f] = fields[f]
  BY <1>0, FieldsContinue DEF JobInv
<1>2. /\ {"stage", "model", "pair", "request", "replay"} \subseteq DOMAIN assessment'
      /\ assessment'["replay"] = assessment["replay"]
      /\ assessment'["model"] = assessment["model"] /\ assessment'["pair"] = assessment["pair"] /\ assessment'["request"] = assessment["request"]
  BY <1>0, <1>1 DEF JobInv
<1>3. stage \in AfterWorkflow => "workflow" \in DOMAIN assessment' /\ WorkflowFits(assessment'["model"], assessment'["request"], assessment'["workflow"])
  BY <1>0, <1>1, <1>2 DEF JobInv
<1>4. stage \in AfterR4 => "r4" \in DOMAIN assessment' /\ R4Fits(assessment'["model"], assessment'["request"], assessment'["r4"])
  BY <1>0, <1>1, <1>2 DEF JobInv
<1>5. stage \in AfterSigning => "signing" \in DOMAIN assessment' /\ SigningFits(assessment'["model"], assessment'["request"], assessment'["signing"])
  BY <1>0, <1>1, <1>2 DEF JobInv
<1>6. JobInv'
  BY <1>0, <1>1, <1>2, <1>3, <1>4, <1>5 DEF JobInv, WorkflowFits, R4Fits, SigningFits
<1>7. answer # "self-refused"
  BY DEF ReportInv, ReportsVerify
<1>8. ReplayInv'
  <2>. SUFFICES ASSUME assessment.replay PROVE ReplayInv'
    BY <1>2 DEF ReplayInv
  <2>1. ReplayInv
    BY DEF ReportInv
  <2>2. diff' \in seen'
    BY <2>1 DEF ReplayInv
  <2>3. /\ stage \in AfterWorkflow => assessment'["workflow"].of \in {Absent} \cup seen
        /\ stage \in AfterR4 => assessment'["r4"].of \in {Absent} \cup seen
        /\ stage \in AfterSigning => assessment'["signing"].of \in {Absent} \cup seen
    BY <1>0, <1>1, <2>1 DEF JobInv, ReplayInv, WasThere
  <2>. QED BY <1>1, <2>2, <2>3 DEF ReplayInv, WasThere
<1>. QED BY <1>6, <1>7, <1>8, ReportsKept, AcceptedKept DEF ReportInv

LEMMA ReportNext ==
  ASSUME ReportInv, [TrustNext]_trustVars
  PROVE  ReportInv'
<1>0. JobInv /\ ReplayInv /\ answer # "self-refused"
  BY DEF ReportInv, ReportsVerify
<1>. USE DEF AfterWorkflow, AfterR4, AfterSigning
<1>1. ASSUME NEW m \in Model, NEW pair \in BOOLEAN, NEW corroborate \in BOOLEAN, Begin(m, pair, corroborate)
      PROVE  ReportInv'
  <2>1. report' = report /\ answer' \in {"refused", "none"}
    BY <1>1 DEF Begin
  <2>2. CASE m = 0 /\ pair
    <3>1. assessment' = assessment /\ assessment = Idle
      BY <1>1, <2>2 DEF Begin
    <3>2. JobInv' /\ ReplayInv'
      BY <3>1 DEF JobInv, ReplayInv, Idle
    <3>. QED BY <2>1, <3>2, ReportsKept, AcceptedKept DEF ReportInv
  <2>3. CASE ~(m = 0 /\ pair)
    <3>1. assessment' = [stage |-> "profile", replay |-> FALSE, model |-> m, pair |-> pair,
                         corroborate |-> corroborate, request |-> request]
      BY <1>1, <2>3 DEF Begin
    <3>2. JobInv' /\ ReplayInv'
      BY <2>3, <3>1 DEF JobInv, ReplayInv
    <3>. QED BY <2>1, <3>2, ReportsKept, AcceptedKept DEF ReportInv
  <2>. QED BY <2>2, <2>3
<1>13. ASSUME NEW pair \in BOOLEAN, BeginReplay(pair)
       PROVE  ReportInv'
  <2>1. report' = report /\ answer' \in {"refused", "none"}
    BY <1>13 DEF BeginReplay
  <2>. DEFINE unfit == ~ReportVerifies(report) \/ pair # (report.evidence.workflow.of # Absent)
  <2>2. CASE unfit
    <3>1. assessment' = assessment /\ assessment = Idle
      BY <1>13, <2>2 DEF BeginReplay
    <3>2. JobInv' /\ ReplayInv'
      BY <3>1 DEF JobInv, ReplayInv, Idle
    <3>. QED BY <2>1, <3>2, ReportsKept, AcceptedKept DEF ReportInv
  <2>3. CASE ~unfit
    <3>1. /\ assessment' = [stage |-> "profile", replay |-> TRUE, model |-> report.model, pair |-> pair,
                             corroborate |-> report.profile.packs # Absent, request |-> request]
          /\ seen' = {diff} /\ diff' = diff
      BY <1>13, <2>3 DEF BeginReplay, files
    <3>2. pair => report.model # 0
      BY <2>3 DEF ReportVerifies
    <3>. DEFINE corroborate == report.profile.packs # Absent
                model == report.model
    <3>3. JobInv' /\ ReplayInv'
      <4>1. /\ assessment' = [stage |-> "profile", replay |-> TRUE, model |-> model, pair |-> pair,
                               corroborate |-> corroborate, request |-> request]
            /\ pair => model # 0
        BY <3>1, <3>2
      <4>. HIDE DEF corroborate, model
      <4>. QED BY <3>1, <4>1 DEF JobInv, ReplayInv
    <3>. QED BY <2>1, <3>3, ReportsKept, AcceptedKept DEF ReportInv
  <2>. QED BY <2>2, <2>3
<1>2. CASE ReadProfile
  <2>1. PICK x : Continue("workflow", [profile |-> x])
    BY <1>2 DEF ReadProfile
  <2>. DEFINE fields == [profile |-> x]
  <2>2. DOMAIN fields = {"profile"}
    OBVIOUS
  <2>. HIDE DEF fields
  <2>3. Continue("workflow", fields)
    BY <2>1 DEF fields
  <2>. QED BY <1>2, <2>2, <2>3, ContinueKept DEF ReadProfile, files
<1>3. CASE ReadWorkflow
  <2>1. CASE Refuse
    BY <1>3, <2>1, RefuseKept DEF ReadWorkflow
  <2>2. CASE ~Refuse
    <3>1. PICK x : /\ Continue("r4", [workflow |-> x]) /\ answer' = answer
                   /\ WorkflowFits(assessment.model, assessment.request, x)
                   /\ assessment.replay => WasThere(x)
      <4>1. CASE ~assessment.pair
        BY <1>3, <4>1, EvidenceFits DEF ReadWorkflow
      <4>2. CASE assessment.pair
        <5>1. assessment.model # 0 /\ (assessment.replay => diff \in seen)
          BY <1>0, <1>3, <4>2 DEF ReadWorkflow, JobInv, ReplayInv
        <5>. QED BY <1>3, <2>2, <4>2, <5>1, EvidenceFits DEF ReadWorkflow
      <4>. QED BY <4>1, <4>2
    <3>. DEFINE fields == [workflow |-> x]
    <3>2. DOMAIN fields = {"workflow"} /\ fields["workflow"] = x
      OBVIOUS
    <3>. HIDE DEF fields
    <3>3. Continue("r4", fields)
      BY <3>1 DEF fields
    <3>. QED BY <1>3, <3>1, <3>2, <3>3, ContinueKept DEF ReadWorkflow, files
  <2>. QED BY <2>1, <2>2
<1>4. CASE ReadR4
  <2>1. CASE Refuse
    BY <1>4, <2>1, RefuseKept DEF ReadR4
  <2>2. CASE ~Refuse
    <3>1. PICK x : /\ Continue("signing", [r4 |-> x]) /\ answer' = answer
                   /\ R4Fits(assessment.model, assessment.request, x)
                   /\ assessment.replay => WasThere(x)
      <4>1. CASE ~assessment.pair \/ assessment.model \notin WithR4
        BY <1>4, <4>1, EvidenceFits DEF ReadR4
      <4>2. CASE ~(~assessment.pair \/ assessment.model \notin WithR4)
        <5>1. assessment.replay => diff \in seen
          BY <1>0, <1>4 DEF ReadR4, ReplayInv
        <5>. QED BY <1>4, <2>2, <4>2, <5>1, EvidenceFits DEF ReadR4
      <4>. QED BY <4>1, <4>2
    <3>. DEFINE fields == [r4 |-> x]
    <3>2. DOMAIN fields = {"r4"} /\ fields["r4"] = x
      OBVIOUS
    <3>. HIDE DEF fields
    <3>3. Continue("signing", fields)
      BY <3>1 DEF fields
    <3>. QED BY <1>4, <3>1, <3>2, <3>3, ContinueKept DEF ReadR4, files
  <2>. QED BY <2>1, <2>2
<1>5. CASE ReadSigning
  <2>1. CASE Refuse
    BY <1>5, <2>1, RefuseKept DEF ReadSigning
  <2>2. CASE ~Refuse
    <3>1. PICK x : /\ Continue("registry", [signing |-> x]) /\ answer' = answer
                   /\ SigningFits(assessment.model, assessment.request, x)
                   /\ assessment.replay => WasThere(x)
      <4>1. CASE ~assessment.pair \/ assessment.model \notin WithSigning
        BY <1>5, <4>1, EvidenceFits DEF ReadSigning
      <4>2. CASE ~(~assessment.pair \/ assessment.model \notin WithSigning)
        <5>1. assessment.replay => diff \in seen
          BY <1>0, <1>5 DEF ReadSigning, ReplayInv
        <5>. QED BY <1>5, <2>2, <4>2, <5>1, EvidenceFits DEF ReadSigning
      <4>. QED BY <4>1, <4>2
    <3>. DEFINE fields == [signing |-> x]
    <3>2. DOMAIN fields = {"signing"} /\ fields["signing"] = x
      OBVIOUS
    <3>. HIDE DEF fields
    <3>3. Continue("registry", fields)
      BY <3>1 DEF fields
    <3>. QED BY <1>5, <3>1, <3>2, <3>3, ContinueKept DEF ReadSigning, files
  <2>. QED BY <2>1, <2>2
<1>6. CASE ReadRegistry
  <2>1. PICK x, y : Continue("evaluation", [registry |-> x, ledger |-> y])
    BY <1>6 DEF ReadRegistry
  <2>. DEFINE fields == [registry |-> x, ledger |-> y]
  <2>2. DOMAIN fields = {"registry", "ledger"}
    OBVIOUS
  <2>. HIDE DEF fields
  <2>3. Continue("evaluation", fields)
    BY <2>1 DEF fields
  <2>. QED BY <1>6, <2>2, <2>3, ContinueKept DEF ReadRegistry, files
<1>7. CASE ReadEvaluation
  <2>1. PICK x : Continue("reground", [evaluation |-> x])
    BY <1>7 DEF ReadEvaluation
  <2>. DEFINE fields == [evaluation |-> x]
  <2>2. DOMAIN fields = {"evaluation"}
    OBVIOUS
  <2>. HIDE DEF fields
  <2>3. Continue("reground", fields)
    BY <2>1 DEF fields
  <2>. QED BY <1>7, <2>2, <2>3, ContinueKept DEF ReadEvaluation, files
<1>8. CASE ReadReground
  <2>1. PICK x : Continue("observations", [reground |-> x])
    BY <1>8 DEF ReadReground
  <2>. DEFINE fields == [reground |-> x]
  <2>2. DOMAIN fields = {"reground"}
    OBVIOUS
  <2>. HIDE DEF fields
  <2>3. Continue("observations", fields)
    BY <2>1 DEF fields
  <2>. QED BY <1>8, <2>2, <2>3, ContinueKept DEF ReadReground, files
<1>9. CASE ReadObservationsAndEmit
  <2>1. JobInv' /\ ReplayInv' /\ seen' = seen
    BY <1>9 DEF ReadObservationsAndEmit, Idle, JobInv, ReplayInv
  <2>2. CASE answer' = "refused" /\ report' = report
    BY <2>1, <2>2, ReportsKept, AcceptedKept DEF ReportInv
  <2>3. CASE ~(answer' = "refused" /\ report' = report)
    <3>1. PICK policy :
            LET e == [workflow |-> assessment.workflow, r4 |-> assessment.r4, signing |-> assessment.signing, policy |-> policy]
                rp == Compute(assessment.model, assessment.request, assessment.profile, e)
            IN  IF assessment.replay
                THEN /\ answer' = IF ReportVerifies(rp) /\ Replays(rp, report) THEN "accepted" ELSE "refused"
                     /\ report' = report
                ELSE IF ReportVerifies(rp)
                     THEN answer' = "report" /\ report' = rp
                     ELSE answer' = "self-refused" /\ report' = report
      BY <1>9, <2>3 DEF ReadObservationsAndEmit
    <3>. DEFINE e == [workflow |-> assessment.workflow, r4 |-> assessment.r4, signing |-> assessment.signing, policy |-> policy]
                rp == Compute(assessment.model, assessment.request, assessment.profile, e)
    <3>2. /\ WorkflowFits(assessment.model, assessment.request, e.workflow) /\ R4Fits(assessment.model, assessment.request, e.r4)
          /\ SigningFits(assessment.model, assessment.request, e.signing)
      BY <1>0, <1>9 DEF JobInv, ReadObservationsAndEmit
    <3>3. ReportVerifies(rp) /\ rp.evidence = e
      <4>. HIDE DEF e
      <4>. QED BY <3>2, ComputedVerifies DEF Compute
    <3>4. CASE ~assessment.replay
      <4>1. answer' = "report" /\ report' = rp
        BY <3>1, <3>3, <3>4
      <4>. HIDE DEF rp
      <4>. QED BY <2>1, <3>3, <4>1 DEF ReportInv, ReportsVerify, ReportVerifies, AcceptedEvidenceWasThere
    <3>5. CASE assessment.replay
      <4>1. answer' = "accepted" /\ report' = report /\ report = rp
        BY <2>3, <3>1, <3>5 DEF Replays
      <4>2. e["workflow"] = assessment.workflow /\ e["r4"] = assessment.r4 /\ e["signing"] = assessment.signing
        OBVIOUS
      <4>3. \A n \in {"workflow", "r4", "signing"} : e[n].of \in {Absent} \cup seen
        BY <1>0, <1>9, <3>5, <4>2 DEF ReplayInv, WasThere, ReadObservationsAndEmit
      <4>4. report'.evidence = e
        BY <3>3, <4>1
      <4>. HIDE DEF e, rp
      <4>5. AcceptedEvidenceWasThere'
        BY <2>1, <4>3, <4>4 DEF AcceptedEvidenceWasThere
      <4>. QED BY <2>1, <4>1, <4>5, ReportsKept DEF ReportInv
    <3>. QED BY <3>4, <3>5
  <2>. QED BY <2>2, <2>3
<1>10. ASSUME UNCHANGED <<assessment, report, answer>>, seen \subseteq seen',
              assessment.stage # "idle" /\ assessment.replay => diff' \in seen'
       PROVE  ReportInv'
  <2>1. JobInv'
    BY <1>0, <1>10 DEF JobInv, WorkflowFits, R4Fits, SigningFits
  <2>2. ReplayInv'
    BY <1>0, <1>10 DEF ReplayInv, WasThere
  <2>. QED BY <1>0, <1>10, <2>1, <2>2, ReportsKept, AcceptedKept DEF ReportInv
<1>11. CASE WriteRequest \/ WriteProfile \/ CaptureSource \/ WriteDocs
  <2>1. UNCHANGED <<assessment, report, answer, seen, diff>>
    BY <1>11 DEF WriteRequest, WriteProfile, CaptureSource, WriteDocs, Replacing
  <2>. QED BY <1>0, <1>10, <2>1 DEF ReplayInv
<1>14. CASE CaptureDiff
  <2>1. UNCHANGED <<assessment, report, answer>>
    BY <1>14 DEF CaptureDiff
  <2>2. /\ seen \subseteq seen'
        /\ assessment.stage # "idle" /\ assessment.replay => diff' \in seen'
    BY <1>14 DEF CaptureDiff, Idle
  <2>. QED BY <1>10, <2>1, <2>2
<1>12. CASE UNCHANGED trustVars
  BY <1>0, <1>10, <1>12 DEF trustVars, ReplayInv
<1>. QED
  BY <1>1, <1>2, <1>3, <1>4, <1>5, <1>6, <1>7, <1>8, <1>9, <1>11, <1>12, <1>13, <1>14 DEF TrustNext


-----------------------------------------------------------------------------
(* The theorems.                                                           *)

(* An assessment never ends by refusing the report it has just computed,   *)
(* and the report that is kept verifies, whatever the files and the order  *)
(* they are replaced in: trust.py derives a report again by its own model. *)
THEOREM AssessmentsAcceptThemselves == TrustSpec => []ReportsVerify
<1>1. ReportInv /\ [TrustNext]_trustVars => ReportInv'
  BY ReportNext
<1>2. ReportInv => ReportsVerify
  BY DEF ReportInv
<1>. QED BY ReportInit, <1>1, <1>2, PTL DEF TrustSpec

(* A replay accepts no evidence of a capture that was not there while it   *)
(* ran: verify_trust_report_sources assesses the sources again, one file   *)
(* after the other, and compares the whole report.                         *)
THEOREM ReplayAcceptsWhatWasThere == TrustSpec => []AcceptedEvidenceWasThere
<1>1. ReportInv /\ [TrustNext]_trustVars => ReportInv'
  BY ReportNext
<1>2. ReportInv => AcceptedEvidenceWasThere
  BY DEF ReportInv
<1>. QED BY ReportInit, <1>1, <1>2, PTL DEF TrustSpec

(* Models 1.3 and 1.4 changed no band from what their shadow projections   *)
(* had announced for the same change.                                      *)
THEOREM ShadowsAreKept == TrustSpec => []PromotionKeepsItsShadow
<1>1. TrustInit => FilesInv
  BY FilesInit
<1>2. FilesInv => PromotionKeepsItsShadow
  BY ShadowKept DEF FilesInv, PromotionKeepsItsShadow, Request
<1>. QED BY <1>1, FilesNext, <1>2, PTL DEF TrustSpec

(* A change is never assessed more mildly for touching one more path,      *)
(* protecting one more, or configuring one more review pack.               *)
THEOREM GrowthIsNeverMilder == TrustSpec => GrowthNeverLowers
<1>1. TrustInit => FilesInv
  BY FilesInit
<1>2. FilesInv /\ [TrustNext]_trustVars =>
        [assessment = Idle /\ (request' # request \/ profile' # profile) =>
            \A m \in Model : ~Milder(m, request, profile, diff, request', profile', diff)]_trustVars
  BY GrowthStep
<1>3. FilesInv /\ [TrustNext]_trustVars =>
     [assessment = Idle /\ (request' # request \/ profile' # profile) =>
     \A m \in Model :
       LET before == Risk(m, request, profile, Evidence(m, request, diff))
           after == Risk(m, request', profile', Evidence(m, request', diff))
           gates(r, risk) == Triggered(r, risk, [match |-> FALSE, decision |-> Absent])
       IN after.effective >= before.effective /\ gates(request, before) \subseteq gates(request', after)]_trustVars
  BY <1>2 DEF Milder
<1>. QED BY <1>1, FilesNext, <1>3, PTL DEF TrustSpec, GrowthNeverLowers
==============================================================================
