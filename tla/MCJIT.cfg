SPECIFICATION FairSpec
CONSTANTS
  r1 = r1
  r2 = r2
  r3 = r3
  Request <- MCRequest
  Hot = 1
  VeryHot = 3
  GpuAfter = 0
  GpuCompatible = TRUE
  ForceGPU = TRUE
  SsaCompiles = TRUE
  MaxServed = 4
PROPERTIES
  ServedForward
  UpgradeInstalled
CHECK_DEADLOCK FALSE
