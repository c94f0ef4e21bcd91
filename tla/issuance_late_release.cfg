SPECIFICATION Spec
CONSTANTS
  MaxCharges = 2
  Worker = {w1, w2}
  None = None
  EnabledMethods = {"PIX", "BOLIX"}
  LateResume = {TRUE}
INVARIANT ReleasedMeansAbsent
CHECK_DEADLOCK FALSE
