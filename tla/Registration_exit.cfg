SPECIFICATION Spec
CONSTANTS
    MaxAcc = 3
    MaxSignals = 2
PROPERTY ExitIsClean
CHECK_DEADLOCK FALSE
