SPECIFICATION MCSpec
CONSTANTS
  Worker = {w1, w2}
  Review = {r1}
  MaxAttempts = 2
  MaxRevisions = 1
  None = None
  Reader = {n1, n2}
  Delivery <- Deliveries
  Carries <- Events
  Story <- Stories
  MaxTries = 2
  MaxTroubles = 1
  Intent <- Messages
  To <- Recipients
  Limits = {2}
  Fallback = 1
  Unlimited = 9
  Window = 2
INVARIANT PartsTypeOK
INVARIANT SentOnce
INVARIANT StatesAreTrue
INVARIANT LimitIsKept
INVARIANT NoticesAddUp
PROPERTY MessagingEnds
CHECK_DEADLOCK FALSE
