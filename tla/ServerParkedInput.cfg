SPECIFICATION ReadingSpec
CONSTANTS
    Client = {c1}
    c1 = c1  c2 = c2
    Worker = {w1}
    Scenarios <- MCPair
    Stopping = {}
    MaxFd = 1
    MaxConnections = 1
    MaxInflight = 1
    MaxPending = 1
    MaxOutput = 1
    ReadChunk = 2
    Room = 1
    None = None
    NoJob = NoJob
PROPERTIES BufferedIsPulled
CHECK_DEADLOCK FALSE
