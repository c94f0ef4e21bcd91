SPECIFICATION Spec
CONSTANTS
  Method = {"PIX"}
  Payment <- MCPayment
  Gross = 2
  Amount = {1, 2, 3}
  Extra = 1
  PlatformFee <- MCFee
  MaxReturns = 2
  Choice = {"ISSUE_COMPLEMENTARY", "REFUND_REGISTERED", "ACCEPT_DIFFERENCE", "REVERSAL_PAID"}
  None = None
  e1 = e1
  e2 = e2
SYMMETRY Symmetry
INVARIANT ReversalsWithinFee
CHECK_DEADLOCK FALSE
