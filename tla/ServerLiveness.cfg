SPECIFICATION FairSpec
CONSTANTS
    Client = {c1}
    c1 = c1  c2 = c2
    Worker = {w1}
    Scenarios <- MCPairGone
    Stopping = {"call"}
    MaxFd = 1
    MaxConnections = 1
    MaxInflight = 2
    MaxPending = 1
    MaxOutput = 1
    ReadChunk = 2
    Room = 1
    None = None
    NoJob = NoJob
PROPERTIES SubmittedIsAnswered ClosedIsReleased ShutdownCompletes
CHECK_DEADLOCK FALSE
