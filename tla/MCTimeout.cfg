SPECIFICATION FairSpec
CONSTANTS
  Batches = {b1}
  Commissions = {c1}
  Slots = {1}
  Collectors = {col}
  Hooks = {hook}
  Operators = {}
  Floor = 1
  LoseEvents = {"succeeded", "payment_failed", "canceled", "clawback"}
  None = None
  Refused = Refused
CHECK_DEADLOCK FALSE
PROPERTY TimeoutReleases
