CONSTANTS
  None = None
  h1 = h1
  h2 = h2
  b1 = b1
  b2 = b2
  b3 = b3
  doc = doc
  code = code
  Head <- MCHead
  Base <- MCBase
  FilesOf <- MCFilesOf
  PolicyAt <- MCPolicyAt
  FactsFile <- MCFacts
  RequestFile <- MCRequest
  Budgets <- MCBudgets
SPECIFICATION Spec
INVARIANTS
  PacketsAreOfOneMoment
  AssessedUnderTheBasePolicy
  RetriesFindTheirReport
  VerifiedBundlesAreWhole
CHECK_DEADLOCK FALSE
