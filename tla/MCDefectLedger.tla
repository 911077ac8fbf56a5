---------------------------- MODULE MCDefectLedger ----------------------------
(* Small instances of DefectLedger: one run whose directory may lose its   *)
(* finding or get a new artifact, one defect that has come to VERIFIED.    *)
EXTENDS DefectLedger, TLC

CONSTANTS run, crash, trace, fixed, leak, other

MCContents == run :> {[artifacts |-> {trace}, findings |-> {crash}],
                      [artifacts |-> {fixed}, findings |-> {}]}

(* A rebuild is given every run directory and the registry. *)
MCListing == {<<{run}, TRUE>>}

Worked(from, to, t) ==
  [defect |-> leak, type |-> IF from = None THEN "CREATED" ELSE "TRANSITIONED",
   from |-> from, to |-> to, at |-> t, subject |-> "why"]

VerifiedLeak ==
  [EmptyRegistry EXCEPT
     !.status = [@ EXCEPT ![leak] = "VERIFIED"],
     !.events = <<Worked(None, "OBSERVED", 0), Worked("OBSERVED", "REPRODUCED", 1),
                  Worked("REPRODUCED", "CLASSIFIED", 2), Worked("CLASSIFIED", "MITIGATED", 3),
                  Worked("MITIGATED", "VERIFIED", 4)>>]

(* The runs start where one defect has been verified. *)
LateInit ==
  /\ registry = VerifiedLeak
  /\ tmp = None
  /\ ledger = [EmptyLedger EXCEPT !.book = VerifiedLeak]
  /\ dirs = [r \in Run |-> [artifacts |-> {trace}, findings |-> {crash}]]
  /\ pc = [p \in Process |-> "idle"]
  /\ job = [p \in Process |-> NoJob]
  /\ acked = {}

(* A temporary file nobody has open is overwritten before it is read.      *)
OpenFiles ==
  <<registry, IF \E p \in Process : pc[p] \in {"writing", "moving"} THEN tmp ELSE None,
    ledger, dirs, pc, job, acked>>

LateSpec == LateInit /\ [][Next]_vars
=============================================================================
