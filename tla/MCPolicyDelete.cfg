SPECIFICATION Spec
CONSTANTS
  c1 = c1
  c2 = c2
  def = def
  gov = gov
  Domains <- TwoDomains
  Default = def
  Seeds <- OnlyDefault
  Seed <- Unlimited
  Bodies <- SomeBodies
  Clients <- OneClient
  MaxRate = 2
  MaxRequests = 2
  MaxFailures = 0
INVARIANTS
  DeleteSticks
