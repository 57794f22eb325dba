CONSTANTS
  t1 = t1
  t2 = t2
  Threads <- TwoThreads
  MemoryValues <- MemoryFew
  DiskValues <- DiskOne
  CpuValues <- CpuOne
  MemoryLimit = 20
  DiskRequired = 3
  MemoryThresholds <- DefaultMemory
  DiskThresholds <- DefaultDisk
  CpuThresholds <- DefaultCpu
  Hysteresis = 1
  AutoRecovery = TRUE
  CheckInterval = 1
SPECIFICATION Spec
PROPERTIES StepsDownOneAtATime
