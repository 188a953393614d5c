SPECIFICATION Spec
CONSTANTS
    MaxAcc = 4
    MaxSignals = 3
INVARIANTS
    DefaultIsLive
    UnregisterHasAccount
    ExitHangsUp
CHECK_DEADLOCK FALSE
