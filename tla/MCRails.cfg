SPECIFICATION RailSpec
CONSTANTS
  Partners = {p1}
  Lines = {x}
  Executors = {e1}
  Operators = {op}
  MaxGeneration = 1
  MaxTransfers = 2
  MaxForeign = 0
  Straggle = FALSE
  Margin = TRUE
  Truthful = TRUE
  Overlap = FALSE
  LoseEvents = FALSE
  None = None
  Refused = Refused
CHECK_DEADLOCK FALSE
INVARIANT PaidByOneRail
