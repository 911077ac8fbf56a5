------------------------------ MODULE MCReviewRun ------------------------------
(* Two findings, a critical and a moderate one, both of which block, in    *)
(* the states a review takes them through; no validator accepts a critical *)
(* hypothesis or risk. The default policy and one that asks only for       *)
(* passing tests.                                                          *)
EXTENDS ReviewRun

CONSTANTS critical, moderate

MCId == {critical, moderate}

MCSeverity == [id \in MCId |-> IF id = critical THEN "P0" ELSE "P2"]

MCClaim ==
  {[status |-> "OPEN", confidence |-> "HYPOTHESIS", evidence |-> 1],
   [status |-> "OPEN", confidence |-> "CONFIRMED", evidence |-> 3],
   [status |-> "FIXED", confidence |-> "CONFIRMED", evidence |-> 3],
   [status |-> "FIXED", confidence |-> "RESOLVED", evidence |-> 5],
   [status |-> "ACCEPTED", confidence |-> "SUPPORTED", evidence |-> 2]}

MCOutstanding == {"integration_missing"}

MCCheck == {MCOutstanding, {"tests_passed"}}

TestsOnly == [fail |-> {}, hold |-> {}, conditional_pass |-> {}, pass |-> {"tests"}]

MCPolicy == {DefaultPolicy, TestsOnly}

MCBlockOn == {"P0", "P1", "P2"}
================================================================================
