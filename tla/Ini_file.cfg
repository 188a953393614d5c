SPECIFICATION Spec
CONSTANTS
    Line <- Lines
    Wanted <- Settings
    MaxLines = 5
INVARIANTS
    StoredOnce
    ReadsBack
    SettingsFollowFile
CHECK_DEADLOCK FALSE
