SPECIFICATION Spec
CONSTANTS
    b8 = b8
    b12 = b12
    NoDepth = NoDepth
    Probe = Probe
    Plan <- TwoRuns
    Guests = {g1}
    Backlog = 2
    Faults = {}
    Faulty = {}
CHECK_DEADLOCK FALSE
INVARIANT MismatchRefused
