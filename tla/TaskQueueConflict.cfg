SPECIFICATION Spec
CONSTANTS
  Tasks = {t1}
  ClientKeys = {}
  MaxAttempts = 2
  MaxCalls = 2
  MaxCrashes = 0
INVARIANT RetryableErrorRequeues
