SPECIFICATION Spec
CONSTANTS
  c1 = c1
  c2 = c2
  w1 = w1
  w2 = w2
  o1 = o1
  None = None
  Refused = Refused
  Owed = Owed
  Lines = {c1, c2}
  Worth = 2
  MaxPayouts = 2
  Executors = {w1, w2}
  Operators = {o1}
  MaxGeneration = 0
  MaxTransfers = 2
  MaxForeign = 0
  Truthful = TRUE
  DoorRefusals = TRUE
  StaleUpdates = FALSE
  RefundParted = FALSE
INVARIANT PaidOnce
CHECK_DEADLOCK FALSE
