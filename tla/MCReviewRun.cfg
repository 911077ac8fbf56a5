CONSTANTS
  None = None
  Template = Template
  critical = critical
  moderate = moderate
  Id <- MCId
  SeverityOf <- MCSeverity
  Claim <- MCClaim
  Outstanding <- MCOutstanding
  Check <- MCCheck
  BlockOn <- MCBlockOn
  Policy <- MCPolicy
  Snapshot = TRUE
  MaxEdits = 3
  MaxCommands = 3
  MaxMoves = 5
SPECIFICATION Spec
INVARIANTS
  ArchivesAreGated
  PassMeansClean
  GatedRunsAreArchivable
CHECK_DEADLOCK FALSE
