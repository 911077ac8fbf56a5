SPECIFICATION InstanceSpec
CONSTANTS
  Absent = Absent
  Wiring = Wiring
  Release = Release
  Partial = Partial
  Path <- MCPath
  Name <- MCName
  Diff <- MCDiff
  Sections <- MCSections
  Signals <- MCSignals
  FirstDiffs <- MCFirstDiffs
  Head = {"h1", "h2"}
  Requests <- MCRequests
  Profiles <- MCProfiles
  Packs <- MCPacks
  Docs <- MCDocs
  FirstDocs <- MCFirstDocs
  MaxEdits = 3
  MaxReports = 2
INVARIANT ReportsVerify
INVARIANT AcceptedEvidenceWasThere
INVARIANT PromotionKeepsItsShadow
PROPERTY GrowthNeverLowers
CHECK_DEADLOCK FALSE
