SPECIFICATION FairSpec
CONSTANTS
  a = a
  c1 = c1
  c2 = c2
  Proc <- MCProc
  NoProc = NoProc
  Adopted <- MCAdopted
  EventCapacity = 1
  CommandCapacity = 1
  MaxCancels = 1
  MaxFaults = 1
INVARIANTS
  ExitTracked
  ExitsTrue
  NoOrphans
PROPERTIES
  ExitsHandled
  CancelledEnds
CHECK_DEADLOCK FALSE
