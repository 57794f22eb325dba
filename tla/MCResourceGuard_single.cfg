CONSTANTS
  t1 = t1
  t2 = t2
  Threads <- OneThread
  MemoryValues <- MemoryAround
  DiskValues <- DiskAround
  CpuValues <- CpuAround
  MemoryLimit = 20
  DiskRequired = 3
  MemoryThresholds <- DefaultMemory
  DiskThresholds <- DefaultDisk
  CpuThresholds <- DefaultCpu
  Hysteresis = 1
  AutoRecovery = TRUE
  CheckInterval = 2
SPECIFICATION FairSpec
PROPERTIES StepsDownOneAtATime RecoversWithMargin LevelCoversMeasurement Recovers
