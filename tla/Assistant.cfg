SPECIFICATION MCSpec
CONSTANTS
  MaxWords = 2
  MaxCalls = 2
  MaxSpawns = 2
  Numbers = {n1}
  Callers = {n1, n2}
  Slots = 3
  Lengths = {0, 1, 2, 4, 5, 6}
  MaxCompiled = 5
  Items = {i1, i2}
  Campaigns = {m1, m2, m3}
  Absent = Absent
  MaxClients = 2
  MaxAttempts = 2
  MaxSessions = 2
  MaxAsked = 1
  MaxMessages = 2
  DayLength = 2
  Minute = 1
  Cooldown = 3
  MaxPerMinute = 1
  DailyMax = 1
  MaxTime = 2
  MaxDialled = 2
  MaxSaves = 1
INVARIANT PolicyPromise
PROPERTIES  ClientPromise LimitsPromise DirectoryPromise ProgressPromise
CHECK_DEADLOCK FALSE
