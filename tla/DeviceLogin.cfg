SPECIFICATION Spec
CONSTANTS
  MaxAttempts = 2
  Retries = 2
  Interval = 1
  Lifetime = 5
  MaxInterval = 3
  MaxFaults = 3
CHECK_DEADLOCK FALSE
INVARIANT TypeOK
INVARIANT PaceKept
INVARIANT DoneMeansApproved
INVARIANT FailureExplained
INVARIANT NothingWasted
PROPERTY LoginEnds
