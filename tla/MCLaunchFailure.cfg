SPECIFICATION Spec
CONSTANTS
  g1 = g1
  p1 = p1
  p2 = p2
  NoIdentity = NoIdentity
  NoExit = NoExit
  NoTime = NoTime
  NoGpu = NoGpu
  JobId <- MCJobId
  GpuUuid <- MCOneGpu
  GpuIndex <- MCOneIndex
  JobSpec <- MCJobSpec
  Identity <- MCIdentity
  ExitStatus <- MCFailureOnly
  Clock <- MCSteadyClock
  Pid <- MCPid
  MaxJobs = 2
  MaxLeases = 2
  MaxEntries = 4
  MaxRevision = 12
  QueueCapacity = 2
  ScanWindow = 2
  CommandCapacity = 2
  MaxCancels = 0
  MaxStoreFaults = 0
  MaxLaunchFaults = 1
  MaxCrashes = 0
INVARIANT NoIdleGpuAtRest
CHECK_DEADLOCK FALSE
