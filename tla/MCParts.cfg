SPECIFICATION PartSpec
CONSTANTS
  Partners = {p1}
  Lines = {x}
  Executors = {e1}
  Operators = {op}
  MaxGeneration = 1
  MaxTransfers = 2
  MaxForeign = 1
  Straggle = FALSE
  Margin = TRUE
  Truthful = FALSE
  AdminChecks = TRUE
  Overlap = FALSE
  LoseEvents = FALSE
  None = None
  Refused = Refused
  Batches = {b1, b2}
  Commissions = {c1}
  Slots = {1}
  Collectors = {col}
  Hooks = {}
  Floor = 1
  Payouts = {m1, m2}
  MaxBatches = 2
  Copies = {1, 2}
  b1 = b1
  b2 = b2
  m1 = m1
  m2 = m2
  s1 = s1
  s2 = s2
  Passes = {s1, s2}
  StaleToken = StaleToken
  Handlers = {h1, h2, h3}
  Appliers = {a1, a2}
  MaxAttempts = 3
  MaxRechecks = 1
  Conversions = {k1, k2}
  Reporters = {r1, r2}
  MaxBasis = 2
  Rates = {0, 2}
  Cent = 3
  MaxReports = 3
  Enclosures = {TRUE, FALSE}
  Contracts = TRUE
  AnswerLost = FALSE
CHECK_DEADLOCK FALSE
CONSTRAINT PartSlices
INVARIANTS LedgerIsTrue ChargedOnce PayPalTypeOK PayPalPaysOnce ReleasedIsUnpaid PaidIsTrue InboxTypeOK AckedIsHandled RequestTypeOK VerdictIsTrue UsageTypeOK MeterIsTrue RefundsNetOut
PROPERTIES AdoptsOwn ResolutionIsFenced ClaimOutlivesGhosts VerdictStands
