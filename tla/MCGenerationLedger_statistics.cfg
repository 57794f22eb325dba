SPECIFICATION Spec
CONSTANTS
  Origins <- AllOrigins
  MaxWritten = 2
INVARIANT StatisticsMatchResult
CHECK_DEADLOCK FALSE
