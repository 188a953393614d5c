SPECIFICATION Spec
CONSTANTS
    rx = rx
    tx = tx
    Adapter <- BothRadios
    Tx = tx
    Field <- TwoRadios
    Audio <- Loud
INVARIANTS
    CallbackIsSet
    PacketCarriesHeader
    PacketCarriesKey
    ValueIsReported
    RadioIsRead
