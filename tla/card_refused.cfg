SPECIFICATION Spec
CONSTANTS
  MaxTries = 1
  MaxReads = 1
  MaxStops = 0
PROPERTY RefusalFreesThePayer
CHECK_DEADLOCK FALSE
