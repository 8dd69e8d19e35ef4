SPECIFICATION FairSpec
CONSTANTS
  FailureThreshold = 5
  RecoveryTimeout = 3
  MaxAttempts = 5
INVARIANTS
  BreakerInv
PROPERTIES
  FailFast
  OpenIsRetried
