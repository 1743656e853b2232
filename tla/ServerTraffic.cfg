SPECIFICATION Spec
CONSTANTS
    Client = {c1, c2}
    c1 = c1  c2 = c2
    Worker = {w1}
    Scenarios <- MCTraffic
    Stopping = {}
    MaxFd = 2
    MaxConnections = 1
    MaxInflight = 2
    MaxPending = 1
    MaxOutput = 1
    ReadChunk = 4
    Room = 1
    None = None
    NoJob = NoJob
INVARIANTS RequestConserved PendingExact InflightExact ConnectionsExact InterestSound
CHECK_DEADLOCK FALSE
