SPECIFICATION Spec
CONSTANTS
  m1 = m1
  m2 = m2
  m3 = m3
  w1 = w1
  w2 = w2
  j1 = j1
  j2 = j2
  Workers <- TwoWorkers
  Messages <- ThreeMessages
  Jobs <- TwoJobs
  JobOf <- SplitJobs
  Poison <- LastIsPoison
  MaxReceiveCount = 2
  MaxConcurrency = 1
  RequestSize = 2
  AckBatch = 2
  MaxRetries = 1
  MaxDisruptions = 1
CONSTRAINT FewReceives
SYMMETRY WorkerSymmetry
INVARIANTS
  TypeOK
  OnePlace
  StoredOnce
  CleanStop
  ActiveBound
PROPERTIES
  KeepsPromise
