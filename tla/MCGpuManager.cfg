SPECIFICATION Spec
CONSTANTS
  g1 = g1
  owner = owner
  t1 = t1
  t2 = t2
  NoStates = NoStates
  GpuUuid <- MCGpuUuid
  DeviceState <- MCDeviceState
  Ticker <- MCTicker
  Owner = owner
  EventCapacity = 2
  MaxObservations = 4
  MaxChanges = 2
  MaxFaults = 2
SYMMETRY MCSymmetry
INVARIANTS
  StaleOnlyAfterRevert
PROPERTY PublishedInOrder
CHECK_DEADLOCK FALSE
