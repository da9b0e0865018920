CONSTANTS
    c1 = c1
    c2 = c2
    Client <- MCClient
    Requests <- MCRequests
    Answer <- MCAnswer
    Stream <- MCStream
    ForeignFrame <- MCForeignFrame
    Backlog = 2
    Radix = 14
    MaxString = 3
    MaxBytes = 4
    MaxPayload = 125
    MaxItems = 4
    MaxListItems = 4
    MaxStreamData = 3
SPECIFICATION Spec
INVARIANTS
    MessagesIntact
    StreamIntact
    OnlyWhole
CHECK_DEADLOCK FALSE
