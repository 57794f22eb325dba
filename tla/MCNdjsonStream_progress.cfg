CONSTANTS
  Unit = 3
  Rate = 2
  Burst = 2
  MaxIdle = 5
  MaxAge = 8
  Items = 5
  Interval = 2
  Buffered = 2
SPECIFICATION Spec
INVARIANTS ProgressEveryInterval
CHECK_DEADLOCK FALSE
