SPECIFICATION Spec
CONSTANTS
  Batches = {b1}
  Commissions = {c1, c2}
  Slots = {1, 2}
  Collectors = {col}
  Hooks = {hook}
  Operators = {op}
  Floor = 1
  LoseEvents = {}
  None = None
  Refused = Refused
CHECK_DEADLOCK FALSE
SYMMETRY CommissionSymmetry
CONSTRAINT Slices
INVARIANTS TypeOK ReleasedIsDead OneDebitPerBatch DebitMatchesLedger ClawbackHolds FundedIsWhole
PROPERTIES FreedOnlyWhenDead ImplementsCharge
