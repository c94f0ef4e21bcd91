SPECIFICATION LiveSpec
CONSTANTS
  MaxRevisions = 2
  MaxNotices = 2
  MaxProvisions = 2
  MaxHalts = 1
  MaxRetries = 1
  Submitter = {s1, s2}
  Nobody = Nobody
  Parts = {"submitting", "opening", "validating", "replacing", "bridging"}
  MaxVersions = 2
  MaxEdits = 3
  MaxFees = 1
  MaxUploads = 4
  MaxAttempts = 2
  MaxRuns = 2
  MaxOverruns = 1
  Account = {a1}
  Runner = {w1, w2}
  None = None
INVARIANT PartsTypeOK
INVARIANT OpenedOnce
INVARIANT ProfilesStand
PROPERTY OwnersDecide
PROPERTY WorkEnds
CHECK_DEADLOCK FALSE
