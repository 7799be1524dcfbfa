SPECIFICATION Spec
CONSTANTS
    c1 = c1
    c2 = c2
    Client <- MCClient
    Nobody = Nobody
    MaxReq = 2
    MaxLen = 2
    Cap = 2
    Backlog = 0
CHECK_DEADLOCK FALSE
INVARIANTS ErrorKeepsConnection
