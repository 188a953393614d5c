SPECIFICATION FairSpec
CONSTANTS
    Call = {c1, c2}
    Adapter = {a1, a2}
    NoCall = NoCall
    NoAdapter = NoAdapter
    RxUri <- RxOnly
    TxUri <- TxOnly
    PhoneUri <- PhoneOnly
    PeerUri <- PhoneOnly
    Recording = FALSE
    LateFailure = FALSE
    Preemptive = FALSE
    Buttons <- TxAndPhone
    PttThread <- OnlyWindow
INVARIANTS
    TrackedCallIsLive
    BoxClearMeansUnkeyed
    DialledKind
    MapFollowsMedia
PROPERTIES
    PttKeysOnlyTx
    HangUpFreesSlot
