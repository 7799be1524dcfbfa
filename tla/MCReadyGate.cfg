SPECIFICATION FairSpec
CONSTANTS
    Full = 4
    Period = 3
    Draws <- MCDraws
    Percents = {0, 25, 75}
    MaxBeats = 3
    MaxSets = 2
    MaxResets = 1
INVARIANTS TypeOK Reproducible NoStrayResponse GateSetSucceeds
PROPERTIES IsSlice EveryBeatPasses GateSetReturns
