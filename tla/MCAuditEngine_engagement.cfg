CONSTANTS
  Procedures <- ThreeProcedures
  Machine <- ThreeMachines
  Gates <- PhaseGates
  Continuous <- ContinuousPhases
  MaxIterations = 7
  MaxSelfLoops = 3
SPECIFICATION FairSpec
INVARIANTS RefusesCycles FollowsPreconditions GuardsHold SelfLoopsBounded
PROPERTIES EngagementEnds
CHECK_DEADLOCK FALSE
