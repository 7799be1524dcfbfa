SPECIFICATION Spec
CONSTANTS
    NoLine = NoLine
    NoBeat = NoBeat
    MaxReq = 2
    Kinds = {"image", "stream"}
    Sizes = {1, 2}
    MaxCount = 2
    MaxBeats = 2
    TxSize = 4
    RxSize = 4
    Chunk = 2
    Slot = 2
    Faults <- AllFaults
    Faulty = {1, 2}
CHECK_DEADLOCK FALSE
INVARIANTS TypeOK RepliesWhole OkComplete ClosedAreReported FreshPipeline
PROPERTIES TxStable RxStable
