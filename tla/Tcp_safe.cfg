SPECIFICATION FairSpec
CONSTANTS
    MaxSend = 4
    MaxRecv = 2
INVARIANTS
    OneWriteAtATime
    ShownInOrder
PROPERTIES
    ImplementsFifo
    OutboxDrains
CHECK_DEADLOCK FALSE
