SPECIFICATION GovernedSpec
CONSTANTS
  Nothing = Nothing
  Operator = {o1, o2}
  Revision = {"h1", "h2"}
  Bound = "h1"
  Dossiers <- MCDossiers
  MaxChanges = 4
  MaxEdits = 3
INVARIANTS
  StrayReceiptsTakeAReset
  PassesAreEarned
CHECK_DEADLOCK FALSE
