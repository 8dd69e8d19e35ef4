SPECIFICATION Spec
CONSTANTS
  Approvals = {a1}
  Handlers = {h1, h2}
  Workers = {w1, w2}
  MaxRetries = 1
  MaxAttempts = 2
  Budget <- EveryFault
CONSTRAINT FewFaults
SYMMETRY Symmetry
CHECK_DEADLOCK FALSE
INVARIANTS
  FlowInv
  SentIsBacked
  DuplicatesNeedAFault
  RecordsAgree
  LeftoversAreExplained
PROPERTIES
  RejectionIsFinal
  ImplementsGate
