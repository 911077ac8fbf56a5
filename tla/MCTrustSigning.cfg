SPECIFICATION TrustSpec
CONSTANTS
  Absent = Absent
  Wiring = Wiring
  Release = Release
  Partial = Partial
  Path <- MCPath
  Name <- MCName
  Diff <- MCDiff
  Sections <- MCSections
  Signals <- MCSignals
  FirstDiffs <- MCFirstDiffs
  Head = {"h1", "h2"}
  Requests <- MCRequests
  Profiles <- MCProfiles
  Packs <- MCPacks
  Docs <- MCDocs
  FirstDocs <- MCFirstDocs
  MaxEdits = 1
  MaxReports = 1
INVARIANT SigningNeverLowers
CHECK_DEADLOCK FALSE
