SPECIFICATION FairSpec
CONSTANTS
  c1 = c1
  c2 = c2
  def = def
  gov = gov
  Domains <- TwoDomains
  Default = def
  Seeds <- OnlyDefault
  Seed <- Unlimited
  Bodies <- SomeBodies
  Clients <- TwoClients
  MaxRate = 2
  MaxRequests = 2
  MaxFailures = 1
INVARIANTS
  PolicyTypeOK
PROPERTIES
  RamFollowsDb
