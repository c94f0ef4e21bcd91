SPECIFICATION Spec
CONSTANTS
  Method = {"PIX", "BOLIX"}
  Payment <- MCPayment
  Gross = 2
  Amount = {1, 2, 3}
  Extra = 1
  PlatformFee <- MCFee
  MaxReturns = 2
  Choice = {"ISSUE_COMPLEMENTARY", "ACCEPT_AS_SETTLEMENT", "REFUND_REGISTERED", "ACCEPT_DIFFERENCE", "REVERSAL_PAID", "REVERSAL_WAIVED"}
  None = None
  e1 = e1
  e2 = e2
SYMMETRY Symmetry
INVARIANT TypeOK
INVARIANT AccountedOnce
INVARIANT BooksBalance
INVARIANT ReconciledIsClear
INVARIANT ComplementIsTheBalance
PROPERTY DecisionsStand
CHECK_DEADLOCK FALSE
