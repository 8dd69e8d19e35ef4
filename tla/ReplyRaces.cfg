SPECIFICATION FairSpec
CONSTANTS
  Leads = {l1}
  Mails = {m1, m2}
  SenderOf <- FromOneLead
  Stranger = stranger
  Blank = {}
  Polls = {p1, p2}
  Workers = {w1, w2}
  MaxCopies = 2
  Together <- Pairs
CHECK_DEADLOCK FALSE
INVARIANTS
  TriageInv
  StoredOnce
  PositiveIsRequested
PROPERTIES
  RepliesAreTriaged
