SPECIFICATION LiveSpec
CONSTANTS
  MaxBatches = 1
  Person = {p1, p2}
  Sender = {s}
  Checker = {c}
  MaxToggles = 0
  MayVanish = TRUE
  RateLimits = FALSE
  SlowAnswers = TRUE
  Parts = {"approval", "sending"}
  Content = {x}
  Approver = {a}
  MaxRequests = 1
  MaxTaps = 1
  MaxChanges = 0
  PageSize = 2
  None = None
INVARIANT CompletionIsTruthful
PROPERTY DisbursementsEnd
CHECK_DEADLOCK FALSE
