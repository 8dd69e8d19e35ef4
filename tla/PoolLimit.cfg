SPECIFICATION Spec
CONSTANTS
  Accounts = {a1}
  ApiAccounts = {}
  Senders = {w1, w2}
  LastStage = 1
  Target <- ShortRamp
  InitialLimit <- FirstStage
  WarmupEnabled = TRUE
  MinSample = 2
  BounceRate <- Half
  ComplaintRate <- Third
  Budget <- Quiet
CHECK_DEADLOCK FALSE
INVARIANTS
  WithinDailyLimit
