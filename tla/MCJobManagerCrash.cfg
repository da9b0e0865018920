SPECIFICATION Spec
CONSTANTS
  g1 = g1
  p1 = p1
  p2 = p2
  NoIdentity = NoIdentity
  NoExit = NoExit
  NoTime = NoTime
  NoGpu = NoGpu
  JobId <- MCJobId
  GpuUuid <- MCOneGpu
  GpuIndex <- MCOneIndex
  JobSpec <- MCJobSpec
  Identity <- MCIdentity
  ExitStatus <- MCExitStatus
  Clock <- MCClock
  Pid <- MCPid
  MaxJobs = 2
  MaxLeases = 2
  MaxEntries = 4
  MaxRevision = 12
  QueueCapacity = 2
  ScanWindow = 2
  CommandCapacity = 1
  MaxCancels = 1
  MaxStoreFaults = 1
  MaxLaunchFaults = 1
  MaxCrashes = 1
SYMMETRY MCSymmetry
INVARIANTS
  ProcessHoldsLease
  WatchedWhileUp
  ExitIsRecordable
  EofIsFinal
  NoTriggerLost
PROPERTY ImplementsJobBoard
CHECK_DEADLOCK FALSE
