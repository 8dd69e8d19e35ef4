SPECIFICATION FairSpec
CONSTANTS
  Approvals = {a1}
  Handlers = {h1, h2}
  Workers = {w1, w2}
  MaxRetries = 2
  MaxAttempts = 2
  Budget <- Refusals
CHECK_DEADLOCK FALSE
PROPERTIES
  ApprovedIsAnswered
