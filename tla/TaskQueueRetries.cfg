SPECIFICATION Spec
CONSTANTS
  Tasks = {t1}
  ClientKeys = {k1}
  MaxAttempts = 2
  MaxCalls = 2
  MaxCrashes = 1
INVARIANTS OneCallPerAttempt ConsentBeforeDial AnalyzedCallEnded
PROPERTIES  ImplementsLifecycle
