SPECIFICATION Spec
CONSTANTS
  Origins <- AllOrigins
  MaxWritten = 2
INVARIANT EveryEntryIsLinked
CHECK_DEADLOCK FALSE
