SPECIFICATION FairSpec
CONSTANTS
  r1 = r1
  r2 = r2
  a1 = a1
  a2 = a2
  a3 = a3
  a4 = a4
  a5 = a5
  b1 = b1
  u1 = u1
  u2 = u2
  u3 = u3
  u4 = u4
  Requests <- TwoRequests
  Tasks <- SixTasks
  TasksOf <- SomeTasks
  UrlOf <- SomeUrls
  Dynamic <- SomeDynamic
  ChunkSize = 2
  QueueSize = 1
  Limits = {1, 2}
  MaxResends = 1
INVARIANTS
  DispatchTypeOK
  Accounted
  NoDuplicates
PROPERTIES
  KeepsAccount
  RequestsEnd
CHECK_DEADLOCK FALSE
