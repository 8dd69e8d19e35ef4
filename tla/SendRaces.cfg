SPECIFICATION Spec
CONSTANTS
  Leads = {l1, l2}
  Messages = {m1, m2}
  LeadOf <- OneEach
  WithVariant <- OnlyOneLead
  Workers = {w1, w2}
  Unsubscribers = {u1}
  MaxRetries = 1
  MaxAttempts = 2
  MaxRequests = 2
  MaxReviewers = 2
  Budget <- EveryFault
CONSTRAINTS
  FewFaults
  OneLeadWorked
  OneSide
SYMMETRY Symmetry
CHECK_DEADLOCK FALSE
INVARIANTS
  GateInv
  ReviewBeforeSend
  OneMailPerRequest
  StatusTellsTheTruth
  SentLeadIsArmed
  QueuedIsUnderWay
