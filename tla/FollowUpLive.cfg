SPECIFICATION FairSpec
CONSTANTS
  Leads = {l1, l2}
  Runs = {r1}
  MaxStep = 1
  Plans <- OnlyLegacy
  FirstPlan <- None
  LegacySteps = 1
  MaxRetries = 0
  Budget <- Troubles
CHECK_DEADLOCK FALSE
PROPERTIES
  DueIsServed
