SPECIFICATION Spec
CONSTANTS
    Client = {c1, c2}
    c1 = c1  c2 = c2
    Worker = {w1}
    Scenarios <- MCSuccessor
    Stopping = {}
    MaxFd = 1
    MaxConnections = 2
    MaxInflight = 1
    MaxPending = 1
    MaxOutput = 1
    ReadChunk = 1
    Room = 1
    None = None
    NoJob = NoJob
INVARIANTS ClosedForAReason
CHECK_DEADLOCK FALSE
