\* Two processes, alone or overlapping, with errors at every step and a crash.
SPECIFICATION OverlapSpec
CONSTANTS
  None = None
  first = first
  second = second
  third = third
  packet = packet
  later = later
  evaluation = evaluation
  audit = audit
  alice = alice
  bob = bob
  TaskOf <- MCTaskOf
  CaseOf <- MCCaseOf
  IssuerOf <- MCIssuerOf
  Supports <- MCSupports
  Packet = {packet, later}
  Report = {first, second, third}
  Authority = {evaluation, audit}
  Actor = {alice, bob}
  Time = {0, 1}
  Operator = {o1, o2}
  MaxEvents = 2
  MaxCrashes = 1
INVARIANTS
  AloneWholeOrNothing
  AloneReportedStays
  OneReportPerTask
  OneDecisionPerPacket
CONSTRAINT Instance
VIEW FilesProcessesHistory
SYMMETRY OperatorSymmetry
CHECK_DEADLOCK FALSE
