SPECIFICATION FairSpec
CONSTANTS
  m1 = m1
  m2 = m2
  m3 = m3
  w1 = w1
  w2 = w2
  j1 = j1
  j2 = j2
  Workers <- OneWorker
  Messages <- OneMessage
  Jobs <- OneJob
  JobOf <- SameJob
  Poison <- NoPoison
  MaxReceiveCount = 3
  MaxConcurrency = 1
  RequestSize = 2
  AckBatch = 2
  MaxRetries = 1
  MaxDisruptions = 1
PROPERTIES
  EveryMessageSettles
  StopEnds
  RecordLeavesRam
