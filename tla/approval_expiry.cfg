SPECIFICATION Spec
CONSTANTS
  Batch = {b}
  Content = {x}
  Approver = {a}
  MaxRequests = 1
  MaxTaps = 1
  MaxChanges = 0
  PageSize = 1
  None = None
INVARIANT TapInTime
CHECK_DEADLOCK FALSE
