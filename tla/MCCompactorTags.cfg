SPECIFICATION FairSpec
CONSTANTS
  o1 = o1
  o2 = o2
  o3 = o3
  j1 = j1
  j2 = j2
  l1 = l1
  l2 = l2
  l3 = l3
  l4 = l4
  r1 = r1
  r2 = r2
  JobOf <- LastApart
  LinesOf <- OneLineEach
  Lines <- AllLines
  Jobs <- TwoJobs
  Objects <- ThreeObjects
  Runs <- OneRun
  MinObjects = 2
  MaxParallel = 1
  DeleteRaw = FALSE
  MaxFailures = 1
INVARIANTS
  CopiesBounded
PROPERTIES
  KeepsRecords
  EventuallyMerged
