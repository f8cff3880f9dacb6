SPECIFICATION UsageSpec
CONSTANTS
  Conversions = {k1}
  Reporters = {r1}
  MaxBasis = 2
  Rates = {3}
  Cent = 3
  MaxReports = 2
  Enclosures = {TRUE}
  Contracts = FALSE
  AnswerLost = TRUE
  None = None
  Refused = Refused
CHECK_DEADLOCK FALSE
INVARIANTS MeterIsTrue
