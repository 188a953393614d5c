SPECIFICATION Spec
CONSTANTS
    MaxSend = 3
    MaxRecv = 0
INVARIANT BacklogIsBeingWritten
CHECK_DEADLOCK FALSE
