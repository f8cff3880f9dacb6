SPECIFICATION FairSpec
CONSTANTS
  Batches = {b1}
  Commissions = {c1}
  Slots = {1}
  Collectors = {col}
  Hooks = {hook}
  Operators = {}
  Floor = 1
  LoseEvents = {"succeeded"}
  None = None
  Refused = Refused
CHECK_DEADLOCK FALSE
PROPERTIES PaymentIsNoticed ReleaseEnds
