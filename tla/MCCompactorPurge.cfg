SPECIFICATION Spec
CONSTANTS
  o1 = o1
  o2 = o2
  o3 = o3
  j1 = j1
  j2 = j2
  l1 = l1
  l2 = l2
  l3 = l3
  l4 = l4
  r1 = r1
  r2 = r2
  JobOf <- LastApart
  LinesOf <- SomeLines
  Lines <- AllLines
  Jobs <- OneJob
  Objects <- TwoObjects
  Runs <- OneRun
  MinObjects = 3
  MaxParallel = 1
  DeleteRaw = TRUE
  MaxFailures = 0
INVARIANTS
  DeleteOnSuccess
