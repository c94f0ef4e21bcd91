SPECIFICATION MCSpec
CONSTANTS
  MaxBatches = 2
  Person = {p}
  Sender = {s1, s2}
  Checker = {c}
  MaxToggles = 1
  MayVanish = TRUE
  RateLimits = TRUE
  SlowAnswers = TRUE
  Parts = {"approval", "sending"}
  MaxRequests = 2
  MaxTaps = 1
  MaxChanges = 1
  PageSize = 1
  Content = {x1, x2}
  Approver = {a1, a2}
  None = None
SYMMETRY Symmetry
INVARIANT PartsTypeOK
INVARIANT OneOpenRequest
INVARIANT SentOnce
PROPERTY OnlyAuthorizedIsPaid
PROPERTY ResultIsFinal
PROPERTY OffLeavesTheTurnedAway
CHECK_DEADLOCK FALSE
