SPECIFICATION MCSpec
CONSTANTS
  MaxCharges = 2
  Worker = {w1, w2}
  None = None
  EnabledMethods = {"PIX", "BOLIX"}
  LateResume = {TRUE, FALSE}
  MaxTries = 2
  MaxReads = 2
  MaxStops = 1
INVARIANT PartsTypeOK
INVARIANT IssuedOnce
INVARIANT ReleasedInTimeMeansAbsent
INVARIANT InvoiceTellsItsCharge
INVARIANT CardIsDebitedOnce
PROPERTY SettledIsKept
PROPERTY PaymentsAreBooked
CHECK_DEADLOCK FALSE
