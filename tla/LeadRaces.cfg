SPECIFICATION FairSpec
CONSTANTS
  p1 = p1
  p2 = p2
  e1 = e1
  e2 = e2
  e3 = e3
  RewriteThreshold = 40
  FlagThreshold = 70
  Prospects = {p1, p2}
  EmailOf <- Email2
  SiteOf <- Site2
  DomainOf <- Domain3
  LikeOf <- Wildcard
  HashOf <- Hash2
  Uploads = {u1}
  Runs = {r1, r2}
  Workers = {w1}
  Listed <- SomeListed
  Campaigns <- SomeCampaigns
  Queries = 2
  DailyCount = 1
  MaxRewrites = 1
  MaxCorrections = 2
  MaxRetries = 3
  MaxCopies = 2
  Together <- Pairs
CHECK_DEADLOCK FALSE
INVARIANTS
  IntakeInv
  NoDuplicates
  EnrichedOnce
  VariantsAreWeighted
PROPERTIES
  DraftedByTheRules
  DiscoveredIsEnriched
