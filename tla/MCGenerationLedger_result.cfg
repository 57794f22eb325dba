SPECIFICATION Spec
CONSTANTS
  Origins <- AllOrigins
  MaxWritten = 2
INVARIANTS
  DocumentAgreesWithEntry
  FinalProductsAreCurrent
  FlagsReachEventLog
  BiasedOnOneWay
  EmittedAtMostOnce
  StatisticsMissOnlyLateEntries
CHECK_DEADLOCK FALSE
