SPECIFICATION Spec
CONSTANTS
    Client = {c1}
    c1 = c1  c2 = c2
    Worker = {w1, w2}
    Scenarios <- MCPair
    Stopping = {"signal"}
    MaxFd = 1
    MaxConnections = 1
    MaxInflight = 2
    MaxPending = 1
    MaxOutput = 1
    ReadChunk = 2
    Room = 1
    None = None
    NoJob = NoJob
SYMMETRY Workers
INVARIANTS NoticeSound InterestSound CleanExit
PROPERTIES DrainsOnly
CHECK_DEADLOCK FALSE
