SPECIFICATION FairSpec
CONSTANTS
    NoLine = NoLine
    NoBeat = NoBeat
    MaxReq = 1
    Kinds = {"image", "stream"}
    Sizes = {1, 2}
    MaxCount = 2
    MaxBeats = 3
    TxSize = 4
    RxSize = 2
    Chunk = 2
    Slot = 1
    Faults <- AllFaults
    Faulty = {1}
CHECK_DEADLOCK FALSE
INVARIANTS RepliesWhole
PROPERTIES Answered
