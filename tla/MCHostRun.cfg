SPECIFICATION HostSpec
CONSTANTS
    NoLine = NoLine
    NoBeat = NoBeat
    NoFile = NoFile
    MaxReq = 3
    Kinds = {"image", "stream"}
    Sizes = {1}
    MaxCount = 2
    MaxBeats = 2
    TxSize = 2
    RxSize = 4
    Chunk = 2
    Slot = 2
    Faults <- AllFaults
    Faulty = {2}
    HostFaults <- AllHostFaults
CHECK_DEADLOCK FALSE
INVARIANTS PassIsReal ExitZeroIsWhole
PROPERTIES Recovers
