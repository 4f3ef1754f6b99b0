SPECIFICATION MCSpec
CONSTANTS
  t1 = t1
  t2 = t2
  t3 = t3
  t4 = t4
  p1 = p1
  p2 = p2
  Tasks <- FourTasks
  Pods <- TwoPods
  PodOf <- FirstApart
  Rate <- Rates
  RobotsPods <- SecondPod
  MaxRepeats = 1
INVARIANTS
  RateTypeOK
  RateBound
  WaitBound
PROPERTIES
  EveryTaskGoes
CHECK_DEADLOCK FALSE
