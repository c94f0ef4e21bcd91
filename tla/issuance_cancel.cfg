SPECIFICATION Spec
CONSTANTS
  MaxCharges = 2
  Worker = {w1, w2}
  None = None
  EnabledMethods = {"PIX", "BOLIX"}
  LateResume = {FALSE}
PROPERTY CanceledIsNotPayable
CHECK_DEADLOCK FALSE
