SPECIFICATION SqlSpec
CONSTANTS
  g1 = g1
  g2 = g2
  c1 = c1
  c2 = c2
  i1 = i1
  x1 = x1
  NoIdentity = NoIdentity
  NoExit = NoExit
  NoTime = NoTime
  NoSnapshot = NoSnapshot
  NoTx = NoTx
  JobId <- MCJobId
  GpuUuid <- MCGpuUuid
  JobSpec <- MCJobSpec
  Identity <- MCIdentity
  ExitStatus <- MCExitStatus
  Client <- MCTwoClients
  Edit <- MCEdit
  MaxJobs = 2
  MaxLeases = 2
  MaxEntries = 4
  MaxRevision = 8
  MaxInt64 = 7
INVARIANTS
  Readable
  NoConstraintFailure
PROPERTIES
  NoLostUpdate
  TerminalFrozen
  ImplementsStateStore
