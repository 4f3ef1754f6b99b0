SPECIFICATION PipelineSpec
CONSTANTS
  m1 = m1
  w1 = w1
  j1 = j1
  o1 = o1
  o2 = o2
  o3 = o3
  r1 = r1
  Workers <- OneWorker
  Messages <- OneMessage
  Jobs <- OneJob
  JobOf <- SameJob
  Poison <- NoPoison
  MaxReceiveCount = 2
  MaxConcurrency = 1
  RequestSize = 1
  AckBatch = 1
  MaxRetries = 1
  MaxDisruptions = 1
  Objects <- AllObjects
  ObjectJob <- SamePrefix
  LinesOf <- RecordsOf
  Runs <- OneRun
  MinObjects = 1
  MaxParallel = 1
  DeleteRaw = TRUE
  MaxFailures = 1
ACTION_CONSTRAINT AgesMatter
INVARIANTS
  Traced
  FewCopies
