\* An eligible campaign within reach, with revocations, a crash, and a
\* snapshot taken, and repeated, while it is written.
SPECIFICATION Spec
CONSTANTS
  None = None
  routine = routine
  hazard = hazard
  ann = ann
  bob = bob
  audit = audit
  evaluation = evaluation
  second = second
  packet = packet
  Report = {routine, hazard}
  Packet = {packet}
  Authority = {audit, evaluation, second}
  Actor = {ann, bob}
  Time = {0, 1}
  TaskOf <- MCTaskOf
  CaseOf <- MCCaseOf
  IssuerOf <- MCIssuerOf
  R0 <- MCR0
  CapturedAt <- MCCapturedAt
  Artifact <- MCArtifact
  Proves <- MCProves
  Minimum <- MCMinimum
  Roots <- MCRoots
  Grants <- MCGrants
  Revocations <- MCRevocations
  Decisions <- MCDecisions
  Submissions <- MCSubmissions
  MaxEvents = 4
  MaxSnapshots = 1
  MaxCrashes = 1
INVARIANTS
  EligibleIsEarned
  ReadyMeansEligible
PROPERTIES
  EligibleAnswersAreCurrent
  RevocationSparesEarlierAudits
  ReconciledForGood
CHECK_DEADLOCK FALSE
