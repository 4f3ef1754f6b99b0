SPECIFICATION Spec
CONSTANTS
  t1 = t1
  t2 = t2
  k1 = k1
  k2 = k2
  k3 = k3
  s1 = s1
  s2 = s2
  s3 = s3
  s4 = s4
  Tasks <- TwoTasks
  Keys <- ThreeKeys
  SessionIds <- FourSessions
  Cleaner = Cleaner
  None = None
  MaxPoolSize = 2
  MinRequests = 1
  MaxRequests = 2
  Handles = 1
  ClientTimeout = 2
  Margin = 1
  IdleTimeout = 1
  Period = 1
SYMMETRY Symmetry
INVARIANTS
  SessionsTypeOK
  EveryOpenHasAKey
  SweepIsThere
  CutOnlyUnderPressure
PROPERTIES
  GraceSuffices
