SPECIFICATION FairSpec
CONSTANTS
  NoIdentity = NoIdentity
  NoExit = NoExit
  NoTime = NoTime
  NoGpu = NoGpu
  NoPath = NoPath
  NoObservation = NoObservation
  JobId <- MCJobId
  GpuUuid <- MCUuids
  GpuIndex <- MCGpuIndex
  JobSpec = {}
  Identity = {"p"}
  ExitStatus = {"SUCCESS"}
  MaxJobs = 2
  MaxLeases = 2
  MaxEntries = 4
  MaxRevision = 12
  QueueCapacity = 1
  ScanWindow = 2
  YoriName <- MCYoriName
  LcName = {}
  BadName = {}
  LongValue = {}
  MaxVariables = 11
  MaxEnvBytes = 30
  MaxDevices = 2
  Absolute <- MCAbsolute
  Slashed = {}
  Directories <- MCDirectories
  Executable <- MCExecutable
  Passwd <- MCPasswd
  DaemonEnv <- MCDaemonEnv
  Number <- MCNumber
  Option = {"--device"}
  Listed <- MCListed
  KeyValue <- MCKeyValue
  Admins = {9}
  MaxListed = 1
  Sensitive = {"SEED"}
  Invocations <- MCInvocations
  OtherRequests <- MCOtherRequests
  Environ <- MCEnviron
  Cwd <- MCCwd
  Clock <- MCClock
  Observation <- MCObservation
  CommandCapacity = 2
  MaxRuns = 3
  MaxObservations = 1
  MaxFaults = 1
INVARIANTS
  SubmitHonest
  CancelConfirmed
  CancelAuthorised
  PrivacyKept
  ContextFaithful
  WaitReasonsCurrent
PROPERTY RequestsServed
CHECK_DEADLOCK FALSE
