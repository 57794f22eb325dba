SPECIFICATION Spec
CONSTANTS
  Origins <- AllOrigins
  MaxWritten = 2
INVARIANT EveryFraudIsBiased
CHECK_DEADLOCK FALSE
