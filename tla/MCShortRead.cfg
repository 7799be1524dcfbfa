SPECIFICATION Spec
CONSTANTS
    NoLine = NoLine
    NoBeat = NoBeat
    MaxReq = 1
    Kinds = {"image"}
    Sizes = {1}
    MaxCount = 1
    MaxBeats = 3
    TxSize = 1
    RxSize = 4
    Chunk = 2
    Slot = 2
    Faults <- NoFaults
    Faulty = {}
CHECK_DEADLOCK FALSE
INVARIANTS RepliesWhole
