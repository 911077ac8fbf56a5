\* Two operators, alone or overlapping, with clocks that may step back, errors and crashes.
SPECIFICATION OverlapSpec
CONSTANTS
  None = None
  Torn = Torn
  EmptyRules = "empty"
  root = root
  left = left
  right = right
  Policy = {root, left, right}
  VersionOf <- MCVersionOf
  ParentOf <- MCParentOf
  RulesOf <- MCRulesOf
  Evaluated = {root, left, right}
  Time = {0, 1}
  Operator = {o1, o2}
  MayCrash = TRUE
INVARIANTS
  AloneReportedEventsStay
  AloneOnlyActivatedRulesInForce
  NoForkedLineage
PROPERTY
  AloneLifecycleSpec
CONSTRAINT Instance
VIEW FilesProcessesHistory
SYMMETRY OperatorSymmetry
CHECK_DEADLOCK FALSE
