\* One process that writes the registry and rebuilds, one that imports.
SPECIFICATION LateSpec
CONSTANTS
  None = None
  Torn = Torn
  run = run
  crash = crash
  trace = trace
  fixed = fixed
  leak = leak
  other = other
  Defect = {leak, other}
  Finding = {crash}
  Artifact = {trace, fixed}
  Relation = {"resolution_evidence"}
  Clock = {5}
  Reason = {"why"}
  Run = {run}
  Contents <- MCContents
  Writer = {w}
  Importer = {i}
  Listing <- MCListing
  MaxEvents = 8
INVARIANTS
  ProjectedLinksHold
  ReportedLinksStay
  LaterTransitionsAdmitted
PROPERTY
  HistoryOnlyAppends
VIEW OpenFiles
CHECK_DEADLOCK FALSE
