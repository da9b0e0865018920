SPECIFICATION Spec
CONSTANTS
  g1 = g1
  g2 = g2
  i1 = i1
  NoIdentity = NoIdentity
  NoExit = NoExit
  NoTime = NoTime
  NoGpu = NoGpu
  JobId <- MCJobId
  GpuUuid <- MCGpuUuid
  GpuIndex <- MCGpuIndex
  JobSpec <- MCJobSpec
  Identity <- MCIdentity
  ExitStatus <- MCExitStatus
  Clock <- MCClock
  Observation <- MCObservation
  MaxJobs = 3
  MaxLeases = 2
  MaxEntries = 3
  MaxRevision = 12
  QueueCapacity = 2
  ScanWindow = 2
PROPERTIES
  DivergesOnlyWhenFull
  NoOvertaking
  PlacementRespected
  RestartRestoresQueue
CHECK_DEADLOCK FALSE
