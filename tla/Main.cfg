SPECIFICATION MainSpec
CONSTANTS
    Daemon = {d1, d2}
    MaxSockets = 4
    Absent = Absent
    SizeMax = 255
    Kilo = 4
    kMaxKeyBytesHardLimit = 16
    kMaxValueBytesHardLimit = 64
    kMaxWorkerThreads = 8
    kEntryOverheadBytes = 8
    kMaxBacklog = 50
    kMaxDrainMs = 60
    kSunPath = 3
    Default <- MCDefault
    CommandLines <- MCCommandLines
    Followed <- MCFollowed
INVARIANTS
    EndpointNotStolen
    NoLitter
    CommandLineHonoured
