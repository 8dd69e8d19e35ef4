SPECIFICATION FairSpec
CONSTANTS
  Leads = {l1}
  Messages = {m1}
  LeadOf <- AllOneLead
  WithVariant = {}
  Workers = {w1}
  Unsubscribers = {}
  MaxRetries = 1
  MaxAttempts = 1
  MaxRequests = 1
  MaxReviewers = 1
  Budget <- OneRefusal
CHECK_DEADLOCK FALSE
PROPERTIES
  RefusedIsRetried
