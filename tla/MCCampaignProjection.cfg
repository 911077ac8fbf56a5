SPECIFICATION FairSpec
CONSTANTS
  Source = {s1, s2}
  Projector = {1, 2}
  Created = {1, 2}
  MaxEvents = 2
  MaxErrors = 1
  MaxFaults = 1
  MaxOverlap = 2
INVARIANTS
  OneChain
  ReportedChainsStay
  ErrorsAreUndone
PROPERTY
  CatchesUp
CHECK_DEADLOCK FALSE
