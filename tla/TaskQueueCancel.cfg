SPECIFICATION FairSpec
CONSTANTS
  Tasks = {t1}
  ClientKeys = {}
  MaxAttempts = 1
  MaxCalls = 1
  MaxCrashes = 0
PROPERTY CancelledTaskLeavesNoCall
