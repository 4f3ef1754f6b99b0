SPECIFICATION MCSpec
CONSTANTS
  p1 = p1
  p2 = p2
  p3 = p3
  b1 = b1
  b2 = b2
  b3 = b3
  b4 = b4
  Parses <- ThreeParses
  Browsers <- FourBrowsers
  None = None
  MaxTasks = 2
  MaxFailures = 1
  MaxCrashes = 1
  Nothing = Nothing
  HiddenStyles = {"display:none"}
  SuspiciousClasses = {"sr-only"}
  DeadLinks = {"", "#"}
  Pages <- SomePages
  Configs <- SomeConfigs
  Statuses = {200, 304, 403, 404, 500}
INVARIANTS
  BrowserTypeOK
  OneBrowser
  ServedBound
  DriversBound
  TrapsOnlyInText
  SameVerdict
PROPERTIES
  EveryParseEnds
CHECK_DEADLOCK FALSE
