SPECIFICATION Spec
CONSTANTS
  Leads = {l1}
  Runs = {r1, r2}
  MaxStep = 3
  Plans <- Blueprints
  FirstPlan <- Mixed
  LegacySteps = 2
  MaxRetries = 1
  Budget <- EveryEvent
CONSTRAINT FewEvents
SYMMETRY Symmetry
CHECK_DEADLOCK FALSE
INVARIANTS
  SequenceInv
  GivenOnce
  PaceKept
  LeavesWhenDone
PROPERTIES
  ReplyEndsSequence
