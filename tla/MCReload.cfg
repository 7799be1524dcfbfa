SPECIFICATION FairSpec
CONSTANTS
    b8 = b8
    b12 = b12
    NoDepth = NoDepth
    Probe = Probe
    Plan <- ThreeRuns
    Guests = {g1}
    Backlog = 2
    Faults <- AllFaults
    Faulty = {2}
CHECK_DEADLOCK FALSE
INVARIANTS TypeOK OneServes
PROPERTIES StaleGone CleanReloadWorks SweepEnds
