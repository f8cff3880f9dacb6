SPECIFICATION Spec
CONSTANTS
  Partners = {p1}
  Lines = {x, y}
  Executors = {e1}
  Operators = {op}
  MaxGeneration = 1
  MaxTransfers = 2
  MaxForeign = 1
  Straggle = FALSE
  Margin = TRUE
  Truthful = TRUE
  Overlap = FALSE
  LoseEvents = FALSE
  None = None
  Refused = Refused
CHECK_DEADLOCK FALSE
SYMMETRY LineSymmetry
INVARIANTS TypeOK OneLiveTransfer LedgerIsTrue CanceledIsUnpaid SettledIsComplete
PROPERTY ImplementsPayment
