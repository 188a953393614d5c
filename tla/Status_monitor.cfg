SPECIFICATION FairSpec
CONSTANTS
    Lines <- OnlyTx
    MAX_SLOT_VOLUME = 1
    Normal = 1
    Freq <- TwoFreqs
    Rounds = 1
PROPERTIES
    OverrunByMonitorOnly
    VolumeSettles
    LabelSettles
    FrequencySettles
