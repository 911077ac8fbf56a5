\* Two approvers, one process that rediscovers and attaches, two rules.
SPECIFICATION Spec
CONSTANTS
  None = None
  Torn = Torn
  Rule = {r1, r2}
  Approver = {a1, a2}
  Editor = {e}
SYMMETRY Symmetry
INVARIANTS
  FailedApprovalsLeaveNoTrace
  PromotedAreApproved
  ReportedApprovalsStay
CHECK_DEADLOCK FALSE
