SPECIFICATION MCSpec
CONSTANTS
  MaxReported = 2
  MaxEntries = 2
  MaxStops = 1
  MaxServers = 3
  MaxLives = 3
  MaxRequests = 2
  MaxStarts = 2
  MaxWrites = 2
  Absent = Absent
  Torn = Torn
  PortCalls = {p1, p2}
  Commands = {k1, k2}
  Handoffs = {h1, h2}
  PageSize = 1
  FirstStored = 1
  MaxStored = 3
  MaxAsked = 2
  MaxOthers = 1
  MaxActs = 2
  MaxRuns = 2
  MaxIssues = 2
  MaxRings = 2
  MaxLoads = 1
  MaxQueue = 1
PROPERTIES   SettingsPromise ControlPromise PortsPromise ScreensPromise ProgressPromise
CHECK_DEADLOCK FALSE
