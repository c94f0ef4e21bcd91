SPECIFICATION MCSpec
CONSTANTS
  Method = {"PIX", "CARD"}
  Request = {r1, r2}
  MaxTries = 3
  Total = {1}
  MaxReads = 2
  MaxStops = 1
  None = None
  SaleTotal = 3
  SaleFee = 2
  Devolution = {d1, d2}
  ByHand = {k1}
  MaxRefunds = 2
  LastDay = 1
  Notice = {n1}
  Deliverer = {w1, w2}
  Claim = 1
  Delay <- Delays
  Window = 1
  DisableAfter = 1
  PassTime = 2
  SendTime = 1
  MaxAgain = 1
  MaxCrashes = 1
  Offer = {"UPSELL"}
  Click = {c1, c2}
  MaxOrders = 3
INVARIANT PartsTypeOK
INVARIANT OneTryAtATime
INVARIANT NothingPaidIsGivenUp
INVARIANT RefundsAddUp
 
PROPERTY SoldOnceForWhatWasPaid
PROPERTY CheckoutEnds
PROPERTY OneAnswerEach
CHECK_DEADLOCK FALSE
