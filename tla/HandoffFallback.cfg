SPECIFICATION Spec
CONSTANTS
  Kinds = {"client", "pstn"}
INVARIANTS FallbackKeepsCaller
CHECK_DEADLOCK FALSE
