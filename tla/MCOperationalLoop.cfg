\* One pull request: two workflows at a time, or one while the pull request
\* moves; any artifact may expire at any moment.
SPECIFICATION Spec
CONSTANTS
  None = None
  HeadOid = {h1, h2}
  BaseOid = {b1, b2}
  MaxMoves = 2
  MaxAuthority = 1
  MaxArtifacts = 5
  MaxDeaths = 1
  MaxLength = 5
INVARIANTS
  EachArtifactAnsweredOnce
  OneListedAnswer
CONSTRAINT Instance
SYMMETRY Revisions
CHECK_DEADLOCK FALSE
