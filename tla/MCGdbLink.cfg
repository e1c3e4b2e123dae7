CONSTANTS
  Requests = 2
  Dashed = {1}
  MaxErrorSize = 3
  MaxTries = 3
  MaxDamage = 1
  MaxDisturb = 2
SPECIFICATION LinkSpec
INVARIANTS LinkTypeOK TablesMatchRules RepetitionsBounded
PROPERTIES LinkKeepsPromise RequestSettled
CHECK_DEADLOCK FALSE
