SPECIFICATION Spec
CONSTANTS
    DEFAULT_FFT_SIZE = 2
    PacketSize <- Sizes
    Text <- Hello
    MaxSamples = 4
INVARIANTS
    SpectrumLosesOne
    DatagramIsWhole
    HeaderTellsData
    RecordingIsGapless
