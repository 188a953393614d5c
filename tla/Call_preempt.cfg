SPECIFICATION Spec
CONSTANTS
    Call = {c1, c2}
    Adapter = {a1, a2}
    NoCall = NoCall
    NoAdapter = NoAdapter
    RxUri <- RxOnly
    TxUri <- TxOnly
    PhoneUri <- PhoneOnly
    PeerUri <- PhoneOnly
    Recording = TRUE
    LateFailure = TRUE
    Preemptive = TRUE
    Buttons <- TxAndPhone
    PttThread <- NoThread
SYMMETRY Symmetry
INVARIANTS
    RingHasCause
    EndMeansConfirmed
    RecordingCallIsUp
    IdleIsClean
