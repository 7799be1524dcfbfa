SPECIFICATION Spec
CONSTANTS
    WordMod = 4096
    LenMod = 64
    TxSize = 128
    RxSize = 128
    DescCap = 6
    Chunk = 32
    Page = 2
    Depth = 12
    MinDim = 2
    MaxDim = 63
    Dims <- MCDims
    Depths <- MCDepths
    Lens <- MCLens
    MaxPgm = 63
    Maxvals <- MCMaxvals
    Overrides <- MCOverrides
    Counts <- MCCounts
INVARIANTS RingCoversSlots
