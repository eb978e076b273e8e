SPECIFICATION FairSpec
CONSTANTS
  Tasks = {t1, t2}
  ClientKeys = {}
  MaxAttempts = 1
  MaxCalls = 2
  MaxCrashes = 0
INVARIANTS TypeOK ActiveTaskIsRunning
PROPERTIES EveryTaskEnds CancelEndsCall
