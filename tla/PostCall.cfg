SPECIFICATION MCSpec
CONSTANTS
  Items = {i1, i2}
  MaxTries = 2
  MaxStops = 1
INVARIANTS OneModelRun NobodyWaitsInVain TablesMatchOutside
PROPERTIES AnalysisIsDurable OthersAreDurable EverythingSettles
CHECK_DEADLOCK FALSE
