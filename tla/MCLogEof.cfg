SPECIFICATION FairSpec
CONSTANTS
  c1 = c1
  c2 = c2
  NoSince = NoSince
  Client <- MCClient
  StreamOrder <- MCStreamOrder
  MaxFileBytes = 2
  MarkerBytes = 1
  BacklogBytes = 2
  MaxRead = 1
  QueueCapacity = 1
  MaxPerJob = 2
  CommandCapacity = 1
  ReplayPerCycle = 1
  DrainPerCycle = 1
  MaxBuffer = 3
  MaxWrites = 3
  MaxConnects = 2
  MaxFaults = 1
INVARIANT EofDetectsLoss
CHECK_DEADLOCK FALSE
