SPECIFICATION Spec
CONSTANTS
  Accounts = {a1, a2}
  ApiAccounts = {}
  Senders = {w1, w2}
  LastStage = 1
  Target <- FlatRamp
  InitialLimit <- AboveRamp
  WarmupEnabled = TRUE
  MinSample = 2
  BounceRate <- Half
  ComplaintRate <- Third
  Budget <- OneEach
CONSTRAINT TwoKinds
SYMMETRY Symmetry
CHECK_DEADLOCK FALSE
INVARIANTS
  PoolInv
  NoAccountStarves
  VolumeIsExplained
