SPECIFICATION Spec
CONSTANTS
    NoLine = NoLine
    NoBeat = NoBeat
    MaxReq = 2
    Kinds = {"stream"}
    Sizes = {1}
    MaxCount = 2
    MaxBeats = 3
    TxSize = 2
    RxSize = 4
    Chunk = 2
    Slot = 2
    Faults <- NoFaults
    Faulty = {}
CHECK_DEADLOCK FALSE
INVARIANTS RepliesWhole
